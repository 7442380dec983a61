# Natbox in TLA+

Natbox is a Go program that rents out containers on a host with a single public
address. It drives Incus or LXD through their command line, keeps the list of the
containers it manages in SQLite, and shares the host's public ports among them.
These modules model the part of it where state changes: what is done to the
runtime, to the rows and to the ports, in which order, and what happens when a
step fails, a deadline passes, a client hangs up, the process dies, or somebody
uses the runtime's own command line at the same time; and beside that service the
snapshots of its database, its administrator's sessions, and the script that
upgrades it.

The difficulty of the program is that it has **two stores and no transaction
across them**. An instance lives in the runtime, its declaration in a row; a
public port lives in a device of an instance and nowhere else. Every operation
is a sequence of calls, each of which may fail, and one mutex, `mutationMu`, is
all that keeps the sequences apart.

## 1. The system

| Component | Source | State it keeps | Operations |
|---|---|---|---|
| Runtime client | `internal/incus/client.go` | none: the instances and their devices belong to the runtime | `Create` (init, disk, autostart, start, rollback), `WaitIPv4`, `Start`, `Stop`, `Restart`, `Delete`, `Stats`, `ConfigureSSH`, `AddPortForward`, `RemovePortForward`, `ListPortForwards` |
| Metadata store | `internal/store/store.go` | tables `managed_containers`, `audit_events` | `UpsertContainer`, `SetDesiredState`, `DeleteContainer`, `UpdatePolicy`, `Restore`, `Audit`, `BackupDatabase` |
| Provisioning | `main.go` `containers` POST, `bulkCreate`, `createOne`, `cleanupContainer`, `rollbackBulk` | the batch in progress | create one, create a batch, roll back |
| Lifecycle actions | `main.go` `containers`, `bulkAction` | the list in progress | start, stop, restart, delete |
| Reconciliation and repair | `reconcile.go`, `main.go` `repairDrift` | the report in hand | report drift; repair it by API or by the loop |
| Policy enforcement | `policy.go` | quota, baselines and expiry in the row | set a policy; the pass once a minute |
| Port forwarding | `main.go` `allocateSSH`, `checkSSHCapacity`, `client.go` | none: ports are found by reading devices | add, remove, allocate for SSH |
| Audit log | `main.go` `recordAudit`, `policy.go` `recordSystemAudit` | table `audit_events` | write an event, log an error |
| Snapshots and retention | `backup_scheduler.go`, `store.go` `BackupDatabase` | the snapshot directory | snapshot, publish, prune |
| Administrator sessions | `admin_auth.go`, `internal/auth`, `main.go` `authMiddleware` | sessions, failed logins, both in memory | login, logout, check a request |
| HTTP surface, host capacity | `main.go`, `host_*.go`, `web` | none | decode, respond |
| Installation and upgrade | `install*.sh`, `upgrade.sh` | the two programs, their backups, the service unit | install, replace, roll back |

How they interact. An HTTP request runs in its own goroutine; `enforcePolicies`
and the automatic repair (`NATBOX_AUTO_REPAIR=1`) each run in theirs. All that
mutate take `mutationMu` and release it when the handler returns. A request's
commands run under a background context with a deadline (`timeout()`, five
minutes for a bulk request); the loops run under `runContext`, which only a
signal cancels; audit events of a request are written under `r.Context()`, which
ends with the client's connection. The backup loop runs in a goroutine of its own
and takes no mutex, as a statement of SQLite is atomic; login and sessions have a
mutex of their own, held for one access to a map at a time. The operator, DHCP and traffic change the
runtime at any time and take no mutex.

What is hard, and what makes each component correct:

* **Provisioning** fails in the middle. It must delete what it made, never what
  it did not make, and say so when it could not.
* **Lifecycle** changes the runtime first and the row second. After successful
  operations both must agree; a row must not vanish before its instance.
* **Repair and policy** act on what they read earlier. What they read must still
  hold when they act; a repair must not change declarations; policy and repair
  must not undo each other for ever.
* **Ports** are found out by a scan that takes many commands while containers
  come, go and change. No two containers may get the same port; asking twice
  must not allocate twice; a preflight must be worth something.
* **Snapshots** survive the process. What a crash cuts off must not pass for a
  snapshot, and pruning must not remove the good ones.
* **Sessions** are checked before a request is carried out, and the limit of failed
  logins before the password is: what happened in between must be bounded.
* **The upgrade** replaces two files and a running service, one after the other.
  All of it must happen or none, and the old programs must never be lost.
* **The mutex** must be held by exactly the operation that is executing, and by
  nobody once the process is gone.

PROJECT.json lists every hazard at its line, with the properties that cover it.

## 2. Modules

| Module | What it holds |
|---|---|
| `NatboxState` | The shared state, how a command, a statement and an audit write may end, the mutex, and the world around Natbox (operator, DHCP, limits reached, hang-up, crash) |
| `Provisioning` | One action per step of a create or a batch, with every failure path |
| `Lifecycle` | One action per step of an item: action, bulk action, repair, policy; restore and policy update |
| `Natbox` | `Next`, `Spec`, `FairSpec`, and the properties |
| `MCNatbox` | Instances for TLC: provisioning alone, lifecycle alone, the service |
| `PortForwards` | The public ports: add, remove, SSH allocation, the SSH ports of a batch, and the scans they make |
| `PortRegistry` | The abstract specification of ports: a port is assigned only while nobody has it |
| `MCPorts` | Instances for TLC |
| `TrafficQuota` | The quota of one container in numbers: counters, baselines, expiry; updates, backups, the pass, restarts |
| `MCTraffic` | An instance for TLC |
| `Snapshots` | The backup loop: temporary file, rename, prune; crashes, clock steps, foreign files in the directory |
| `SnapshotStore` | The abstract specification of the snapshot directory: complete files come and go one by one, from below and beyond the retention |
| `MCSnapshots` | An instance for TLC |
| `Sessions` | Login and its limit, sessions, the checks of a request, logout, expiry, restart |
| `MCSessions` | An instance for TLC |
| `Upgrade` | `upgrade.sh` with its roll back; every command may fail, the script be killed and run again |
| `MCUpgrade` | An instance for TLC |
| `NatboxTyping` | Proofs: types of the service's variables and the shape of an operation |
| `NatboxSafety` | Proofs: the inductive invariant of the service and what follows from it |
| `NatboxAudit` | Proofs: what the audit log has of a create that failed, and what is true of an item reported as a success |
| `PortSafety` | Proofs: one port, one container; the devices implement the registry; allocation is idempotent and the preflight enough |
| `TrafficSafety` | Proofs: what a policy charges, whom a pass stops, by how much a quota is exceeded |
| `SessionsSafety` | Proofs: what an ended session authorises, how far the limit of logins is exceeded |
| `UpgradeSafety` | Proofs: an upgrade happens or does not, and loses nothing |
| `SnapshotsSafety` | Proofs: what bears a snapshot's name, what pruning keeps and removes; the directory implements the store |

How the state corresponds to the code:

* `instance[n]` is the runtime's view: absent, stopped, running without an
  address, running with one (`Instance.Status`, `Instance.IPv4`). `managed[n]` is
  `desired_state` of the row, `limit[n]` its quota and expiry by what a policy
  pass finds. `maker`, `disturbed`, `made`, `log` and `calm` are ghosts: who made
  an instance, which names something other than a successful call touched, which
  names the operation had initialised, what it audited, and that faults and
  requests have ceased.
* A *worker* is a request or a loop. `step[w]` is its program counter, `plan[w]`
  what it has still to do by name, `created[w]` is `result.Created`, `undo[w]`
  what the rollback has still to delete, `ctx[w]` its context, `client[w]`
  whether the connection is still there.
* Each call to the runtime or the database is one action, so anything may happen
  between two calls. `CommandResults` says how a command ends: it succeeds; the
  runtime refuses it; it fails, having done the work or not; its context expires
  midway, having done the work or not. An expired context keeps every further
  command from starting (`exec.CommandContext`), which is why a cleanup under it
  does nothing.
* Reads that begin an operation under the mutex (`ListContainers`, `List`) are
  taken together with the lock. What they read about rows cannot change before
  it is used (this is the theorem `PlansCurrent`); what they read about instances
  can, through the operator, and the commands that follow find it changed.
* In `PortForwards` the reads are the subject, so each is an action: the
  container's own devices, the list, the devices of each other container.
  Containers are created, stopped and started around it; `Delete` needs the
  mutex, `DeleteByHand` and `AddByHand` are the operator's. An *odd* device is
  one `portForwardsFromDevices` leaves out.

* `TrafficQuota` looks into what `limit[n]` of `NatboxState` leaves open. A unit of
  traffic is one byte received or sent; `rx` and `tx` are what `Stats` reads, zero
  while the instance is down. `row`, `backup`, `update` and `item` are the places
  where a policy is kept: the row, an exported file, the request between `Stats`
  and `UpdatePolicy`, the pass between `ListContainers` and `Stop`. Three fields of
  a policy are ghosts: the traffic there had been when its baselines were read
  (`since`) and at the last pass that let the container be (`sampled`), and whether
  the counters have run on since (`unbroken`); `sampled` means nothing once they have
  not. A row from an edited backup (`Declared`) may have any quota, baselines and expiry
  that `Restore` admits, and is taken at its word: what it charges at its restore counts
  as carried since its baselines. One container is enough, as the
  pass treats each by its own row and counters and the mutex is held throughout;
  the work of a pass on other containers is the time between its steps.

* In `Snapshots` an instant of the clock stands for the name of a file, since names
  begin with the date and are compared as strings; `born` is the true order and a
  ghost. `InHand` is the temporary file of the pass. The goroutine goes on after
  SIGTERM (`service = "stopping"`) until `main` returns, which does not wait for it.
  A copy the operator keeps as `natbox-something.db` sorts after every date, and
  counts.
* In `Sessions` a deadline is the time left until it, below zero when it has passed,
  as `time.Now().After` compares. A request is one goroutine between two accesses to
  the tables: `verify` is the time Argon2 takes, `csrf` the second lookup of
  `csrfValid`. `ended` and `knew` are ghosts: which sessions are over, and which of
  them were when the request came. What sends a request that nobody answers with a
  session, the bearer token, does not touch the tables.
* In `Upgrade` a file is absent, old, new or torn, a torn one being what a copy left
  that was cut off. `before` is what an attempt found, `slipped` where its way out
  failed: in the files of the roll back, in the service (the stop, the restart, or the old
  program that ends at once), in the cleanup of its temporary files. Under `set -e` such a failure ends the script;
  inside a condition or with `|| true` it does not.

A definition whose name begins with that of an action and whose comment says
*Mutant* is a plausible bug; PROJECT.json says which property must catch it. No
specification uses one.

## 3. What is checked

All runs finish within a minute or two with two workers.

| Run | Instance | Properties | What it shows |
|---|---|---|---|
| `provisioning` | 2 names, 2 requests, every fault | `RollbackOnlyOwn`, `CleanupFailuresAreRecorded`, `RollbackIsAudited` | Rollback deletes only what the request initialised; a deletion of it that failed is in the audit log, or refused by the database, but for the rollback inside `Client.Create`; a batch that failed has tried to delete all it announced |
| `service` | 1 name, 2 requests, both loops, every fault | `TypeOK`, `MutationsAreSerialised`, `CreatedAreManaged`, `RowOutlivesInstance`, `SuccessesAreTrue`, `AgreementAtRest`, `PlansAreCurrent`, `RepairKeepsDeclarations`, `RepairsOnlyRepair`, `LoopsSettle` | The whole service under one mutex: no interleaving of successful operations causes drift; no plan is overtaken by a row change; no step of a repair makes drift, and the loops do not undo each other's work; a row goes after its instance; what is reported as a success is so in both stores |
| `settling` | 2 names, both loops, failing commands and statements, crashes | `LimitsAreEnforced`, `DriftIsRepaired` | From whatever state failures and ends of the process have left, the loops stop what is past its limits, repair the drift of every instance that exists, and come to rest |
| `ports` | 2 containers, 2 ports, both for SSH, 2 requests, failing commands, one act of the operator | `TypeOK`, `OnePortOneContainer`, `AllocationIsIdempotent`, `PreflightSuffices`, `PortsAreRegistered` | A port belongs to one container though the scan is not atomic; no second SSH forward; a batch that passed the preflight finds its ports; the devices implement `PortRegistry` |
| `traffic` | 1 container, quotas -1 (refused), 0 and 2, three units of traffic, edited backups with baselines 0 and 1 | `TypeOK`, `NeverOvercharged`, `PolicyStopsAreDeserved`, `OverageIsBounded` | A policy charges only traffic carried since its baselines; a pass stops for the policy in force only; an overage is traffic since the last pass |
| `snapshots` | retention 2, 5 snapshots, 5 instants, 1 copy by hand, every fault | `TypeOK`, `SnapshotsAreWhole`, `RetentionIsKept`, `TemporariesAreExplained`, `NewestAreKept`, `ExcessIsRemoved`, `SnapshotsAreStored` | No half of a database bears a snapshot's name; the retention is kept, and the newest are while names tell ages; what an earlier pass left is removed; no error path forgets a temporary file; the directory implements `SnapshotStore` |
| `sessions` | 1 address, 3 requests, 2 sessions, a limit of 2 | `TypeOK`, `AttemptsAreBounded`, `EndedSessionsAuthoriseNothing`, `WindowIsFixed`, `LockoutEnds` | How far concurrent logins exceed the limit; late failures do not extend a lockout and every lockout ends; an ended session authorises no later request |
| `upgrade` | 3 attempts, every fault | `TypeOK`, `AllOrNothing`, `ServiceComesBack`, `OldIsRecoverable` | Both programs are replaced or none, and a failed upgrade leaves the service up, unless its roll back, or the old program, failed itself; no number of killed and failed attempts loses the old programs |
| `blocked` | 1 name, the loops | `SamplingNotBlocked` is violated | see below |
| `leftover` | 1 name, 1 request, no fault | `FailedCreationLeavesNothing` is violated | see below |
| `hangup` | 1 name, 1 request, clients hang up | `EachItemIsAudited` is violated | see below |
| `staletarget` | 1 container, 1 request, no fault | `ForwardsReachTheirContainer` is violated | see below |

**Bounds.** Two names are the least that let a batch fail half way, an item
follow another, and a scan meet somebody else's port; the code treats names
alike and compares them only for equality, so a third adds no new case. Two
requests are the least that contend for the mutex beside the loops. `service` has
one name, as its properties are about one name at a time, and what it checks of
several is proved for any number (`AgreeAtRest`, `PlansCurrent`); `provisioning` and
`settling` have two. `ports` has two ports so that the SSH range has a second choice
and runs out; that the same number under the other protocol is another port is in
the theorems, whose ports are any pairs. `MaxMeddling` bounds how often the operator touches ports, since each
such act multiplies the states; what follows from more of them is proved
(`OnePort` and `Registered` hold for every bound). `MaxTotal` lets a container
carry a unit before a policy of two is set and use that up after, in any order of the
two directions; an edited backup has baselines of zero (left out) or one, below and
above the counters. The proofs in `TrafficSafety` do without these bounds. `Requests` and `Names` are
symmetric, and symmetry is not used for liveness. `settling` has no requests:
restores and policy updates go on until it is calm, and failures of the loops
leave the states a failed request would. Nor has it an operator: an instance that is
stopped by hand and never gets an address is the counterexample of `blocked`.
Five snapshots let a retention of two be exceeded by more than one, after a pass
whose removals failed; five instants let the clock be set back behind two names.
Three requests are one more than the limit of `sessions`, so that all pass it at once
and a fourth failure falls into the window; the limit, the window and the lifetime are
parameters (5, five minutes, twelve hours in the code). Three attempts of the upgrade let a
killed one be followed by a failed one and that by a success.

**Deadlock** is checked except in `service`, `settling` and `blocked`, where everything
may be done and nothing requested, and in `upgrade`, whose attempts run out.

**Fairness** (`Natbox!Fairness`). Weak fairness of a worker's steps: a command
returns or is killed by its deadline, and a handler has no other wait than
`WaitIPv4`. A wait may end with an address or with the deadline, where there is one;
failure of a poll is never assumed (`WaitBreaks` is not part of `Work`). Strong
fairness of the beginning of a pass of each loop: its ticker never stops, and
`sync.Mutex` hands itself to a waiter that has waited a millisecond, so a loop
that wants the mutex again and again gets it. Weak fairness of DHCP. The automatic
repair runs only with `NATBOX_AUTO_REPAIR=1`, which `DriftIsRepaired` assumes. Of
`Sessions` nothing is assumed but that time passes (`WF_vars(Tick)`): `LockoutEnds`
holds though requests may come and fail for ever.

**Where the code and its documents differ.** Four runs end in a counterexample,
each with the least of faults:

1. `leftover`. *"Failed creation leaves no runtime instance behind"*
   (docs/release-checklist.md:33). The wait for an address uses up the deadline,
   and `cleanupContainer` runs `delete` under the same context, so the command is
   not started. What does hold is `CleanupFailuresAreRecorded`: the failure is in the
   audit log, written under a context of its own.
2. `blocked`. *"Quota enforcement samples once per minute"* (README.md:90).
   `autoRepairPass` holds the mutex while it waits for an address under
   `runContext`; an instance that never gets one keeps the policy pass out.
3. `hangup`. *"Each item is audited independently"* (README.md:99). The items of a
   bulk action run on under a background context when the client has gone, their
   events are written under the client's and refused.
4. `staletarget`. *"Real TCP and UDP forwarding pass before and after restart and
   stop/start"* (docs/release-checklist.md:32). A forward leads to the address the
   container had when it was added; no start writes it anew.

A fifth has no run of its own, as it is in plain sight in an exception. README.md:136-138
promises of a batch that cleanup failures are recorded in the audit log, and the comment
in `Client.Create` (client.go:303-304) that the caller will report them. That function
drops the error of its own rollback (client.go:302-306), and the caller, which learns only
of the original failure, writes the ordinary failure event of a create and cleans up
nothing. `CleanupFailuresAreRecorded` holds with the exception `RolledBackByClient` and
not without it; the same exception takes in the instance that a killed `init` leaves, which
nobody rolls back.

## 4. What is proved

All theorems hold for any sets of names, ports and requests and for any faults,
from the named assumptions of the modules alone: the values for "nobody" and "no
name" are none of the others, the loops are no requests, the ports are ports. One
assumption is about size: there are finitely many names (`NamesAreFinite`; the code
admits 63 characters) and SSH ports (`SshPortsAreFinite`), without which the counts
of the preflight mean nothing.

**The service** (`NatboxTyping`, `NatboxSafety`, `NatboxAudit`). `TypeOK` is not inductive: that
the name in hand is a name depends on the step. `Typed` adds the shape of an
operation, i.e. which steps, names and plans go with which kind, and is inductive
by itself (`TypedInit`, `TypedStep`, `TypeCorrect`). On top of it `Safe` is
inductive:

    Safe == MutationsAreSerialised /\ RestAgrees /\ \A w \in Workers : Sound(w)

`Sound(w)` says of a worker, step by step, what its history has established:
what it is about to undo it has made (`Own`), what it has created has a running
row (`Recorded`), its plan follows from the rows (`Current`), the command it has
run has brought the instance to the state it will record, unless somebody
disturbed it (`Achieved`), and at `forget` the instance is gone (`Forgetting`).
`RestAgrees` is `AgreementAtRest` without the condition that nobody works: for
every name that no worker has in hand. `MutationsAreSerialised` is what lets each
step be looked at alone: only one worker has anything in hand, so what the others
know is trivially kept. The proof has a lemma per part and per kind of step; the
properties are its corollaries.

| Theorem | Property |
|---|---|
| `TypeCorrect` | `TypeOK` |
| `Serialised` | `MutationsAreSerialised` |
| `RollbackIsOwn` | `RollbackOnlyOwn` |
| `CreatedManaged` | `CreatedAreManaged` |
| `PlansCurrent` | `PlansAreCurrent` |
| `RowsOutlive` | `RowOutlivesInstance` |
| `AgreeAtRest` | `AgreementAtRest` |
| `RepairsKeepDeclarations` | `RepairKeepsDeclarations` |
| `RepairsRepair` | `RepairsOnlyRepair` |
| `LoopsAgree` | `LoopsSettle` |
| `CleanupFailuresRecorded` | `CleanupFailuresAreRecorded` |
| `RollbackAudited` | `RollbackIsAudited` |
| `SuccessesTrue` | `SuccessesAreTrue` |

`RepairsRepair` is the safety in `DriftIsRepaired`: since a plan follows from the
row (`Current`), the command of a repair either leaves its instance or brings it
where the row wants it, whatever the operator did since the report, and what it then
records is what the row says already. So drift never grows in the hands of a repair.
`LoopsAgree` is the safety in both liveness properties: once requests and faults have
ceased, a row turns from running to stopped and never back, and only what is declared running
is started: once the policy loop has recorded a stop, the repair loop never undoes it (that it
does record it is `AgreementAtRest`). It needs, besides
`Safe`, that each loop does one thing only (`Posted`).

`CleanupFailuresRecorded` and `RollbackAudited` need an invariant that relates the audit log to
the rollback, `Audited` (`AlwaysAudited`). `RollingBack` gives the shape of a create that has failed: it does
nothing but undo, and it ends with the failure reported and nothing to delete.
`LeftOnRecord` says that what a create made is gone, or the operator's, or has the failure of
its cleanup on record, or is what `Client.Create` itself was to roll back; except for what is
still `Ahead`: the name in hand and what the rollback will come to.
`AnnouncedOnRecord` says that whatever it announced as created is in `ToDelete` or has
an event of its deletion. The two sets differ in the container in hand: one whose SSH port
fails has been announced, but its failure is reported under another action; one that fails
before is cleaned up in the step that fails. A step of the rollback takes a name off both
sets and writes the event; no other step takes one off.

`SuccessesTrue` rests on `Safe`. An item reaches its event without a failure from `record`
or `forget` alone; the first has written the row (or, for a single action, failed to and
left the name disturbed), the second has deleted it. What the command did to the instance is
`Achieved`, and the mutex keeps everybody but the operator from changing either between that
and the event.

**Ports** (`PortSafety`). `OnePortOneContainer` alone is not inductive: at the
moment a device is added, nobody else must have the port, and that was read long
ago. The invariant adds `StillFree`: the containers outside `unread[w]` do not
have the port `w` wants. It is stable because only the holder of the mutex adds a
device in Natbox's name (`Alone`), because a container that disappears takes its
devices along and one that appears has none (`NothingLeft`), and because the
operator's devices are not Natbox's. From it `OnePort`, and, with the observation
that a step gives one port to one container or takes ports from one, `Registered`:
every behaviour implements `PortRegistry` under `OwnerOf`.

What an allocation promises needs the scans to have found *everything*, which is so only
while the operator does not add devices by hand: `Access` is an implication from
`meddled = 0`. Past the look at its own devices a container has no SSH forward
(`NoSshYet`), since nobody else adds one; from that `Idempotent`. The preflight has met
the ports of every container it has read (`CountsAll`), while the scan of an allocation
has met none that is not in use (`CountsNoMore`). So when the preflight lets a batch pass,
its containers are no more than the free ports (`Enough`), and each allocation uses up
one of both; from that, with the theorems on finite sets, `PreflightIsEnough`. The two
directions are needed: the first scan must not count too little, the second not too much.

**The quota** (`TrafficSafety`). `SoundAt` relates a policy, wherever it is kept, to
the counters: it charges at most what was carried since its baselines were read,
and exactly that while the counters have run on. It survives traffic (a unit counts
once, in one counter), the end of the counters (below a baseline `counterDelta` is
zero), every move of a policy from one place to another, because it is stated of
each place, and the restore of an edited row (`DeclaredSound`). `PassIsCurrent`, that the row a pass has read is still the row, carries
it to the decision to stop; it rests on the mutex. The theorems are `TrafficTyped`,
`Uncharged`, `StopsDeserved` and `OverageBounded`, for any quotas and any traffic.

What does not hold is a bound across restarts: once the counters have begun again,
usage is charged only beyond the old baselines, so a container that is restarted may
carry its quota anew. README.md:80 says the counters are cumulative since their reset
and disclaims accounting; `OverageIsBounded` is stated of policies whose counters have
run on, and the bound README.md:90 gives for the soft limit should be read so.

**Sessions** (`SessionsSafety`). The invariant adds to the property that what is valid has
not ended, and that what has ended had been issued (`EndedIsOver`): a request that finds
its session valid therefore did not know it to be over. The bound on failed logins needs
more, since the count is raised after the check: `Allowance` counts with an address's
failures the attempts under way that are not counted yet (`Pending`), and says that the
two together stay within the limit and the number of requests. A failure moves one from
the second to the first; an attempt begins only below the limit. The theorems are
`SessionsTyped`, `EndedIsEnded`, `AttemptsBounded` and, as an action property,
`WindowStays`, for any limit, window and number of requests.

**The upgrade** (`UpgradeSafety`). The script is one process, so the invariant is what each
of its steps has established: `Backups` (empty until written, then what the attempt found),
`Installed` (which of the two programs has been replaced), `Served` (what runs). A killed
attempt may leave anything installed; but a program is overwritten only once its backup is
written, and no attempt writes to the backup of another, so the old program is in
one of them or in place (`Kept`). The theorems are `UpgradeTyped`, `UpgradeIsAtomic`,
`ServiceIsBack` and `OldIsKept`, for any number of attempts.

**Snapshots** (`SnapshotsSafety`). `Prepared` says that between the end of `VACUUM INTO` and
the rename the file in hand is complete, and that a process that is down is in no pass. With
it `SnapshotsWhole` and `TemporariesExplained` are inductive; the second counts files,
with the theorems on finite sets. `SnapshotsTyped` comes with them.

Of how many files there are, and which, `Inv` says nothing: what pruning takes is decided
in `Scan` and carried out in later steps, between which copies come, files cannot be
removed and the process may end. `Kept` adds three things. `Distinct`: every file has a name
of its own, and the name a pass will publish is free. `Pruning`: each name still to be
removed has as many files as the retention above it, which lasts because names go from
below; and while no removal has failed, whatever is beyond the retention is on the list.
`Aged`: while the clock has only gone on and no copy has come, a later name is a later file,
the name in hand included. From these `RetentionKept`, `NewestKept` (the files above the one
that goes are newer) and `ExcessRemoved`: when nothing is beyond the retention, the file
with the least name has all the others above it, so they are less than the retention
(`NoExcess`, with the well-foundedness of the natural numbers for that least name).
`Stored` says the same from outside: under `files` a behaviour of the loop, with its crashes
and its temporary files, is one of `SnapshotStore`, where complete files of new names appear
one at a time and go only from below and beyond the retention.

**Only model-checked.** Every invariant and every action property of the passing runs is
a theorem. What stays with TLC is liveness, which rests on fairness and ENABLED, beyond the
prover: `LimitsAreEnforced`, `DriftIsRepaired` and `LockoutEnds`; and the four properties
the code does not keep.

**What the properties do not say.** Of the service:

* What a shutdown or a crash cuts off (main.go:241, 779). A crash clears what the model, like
  the program, knows of the operation, so `MutationsAreSerialised` and `CreatedAreManaged` say
  that the next one begins clean, not that the last one left the stores in order. Drift of an
  instance that exists is repaired (`DriftIsRepaired` has crashes between any two steps).
* The row without an instance. `RowOutlivesInstance` is the order of the two deletions and no
  more. After a crash between them, a failed `DeleteContainer` (main.go:781) or the roll back of
  a batch (main.go:998) the row stays, the report calls its container missing, and a later
  delete fails at the runtime before it reaches the row. `SuccessesAreTrue` says that such a
  deletion is not reported as a success; no property says that the row goes.
* What a failed call has touched. `AgreementAtRest` excepts it, as the code does nothing about it
  at the time: an error of `SetDesiredState` that a single action only logs (main.go:795), a
  start whose wait runs out (main.go:769). Both are left to the repair, which undoes the action.
* Instances under one name. The rollback deletes by name (main.go:990), so an instance the
  operator has made in between goes with it.
* Devices Natbox leaves out of its list, of IPv6 or of ranges (client.go:580). They are in
  `PortForwards`, and `OnePortOneContainer` counts Natbox's own forwards only.

Of the rest: `NewestAreKept` ends with the first step
back of the clock and with the first foreign file in the directory: names then no
longer stand for ages, and the next pass removes the newest snapshot and keeps the copy
(`RetentionIsKept` goes on to hold, so as many files remain, but not which). What a crash leaves under a
temporary name is never removed, by any later pass; `TemporariesAreExplained` only says
that nothing else leaves one. A failure of `MkdirAll` ends a pass without the audit
event README.md:86 promises of failures. `EndedSessionsAuthoriseNothing` is about
requests that come after the end: one that has passed the middleware is carried out
though its session is logged out meanwhile. `AllOrNothing` and `ServiceComesBack` except an
attempt whose roll back fails itself: `install` writes the program in place, so what remains may
be torn and the service down, with the old program in the backup directory (`OldIsRecoverable`).
`ServiceComesBack` rests besides on the old program, which ran before the attempt, starting
again: `systemctl restart` returns success for one that ends at once (upgrade.sh:56).

## 5. What is not modelled

* **Quotas and the rest of the service at once**: `TrafficQuota` has its own clock and
  instance; in `Lifecycle` a limit is reached or not, and a start takes a used-up
  quota back, as the counters begin at zero. The 64 bits of a counter are not
  modelled; a sum that overflows takes eight exabytes.
* **Around the snapshots**: power loss (nothing is synced to disk by the program), a
  snapshot the operator moves away, which pruning then does not know of.
* **Around the sessions**: hashing, cookies and their attributes, the bearer token, audit
  events of logins. Entries of both tables that nobody asks for again stay until the
  restart; the model lets them.
* **Around the upgrade**: `install.sh` and `install-online.sh`, which replace without a
  roll back; two attempts within one second, which share the name of a backup; what a new
  version does to the database before it is rolled back.
* **Schema migration**: a sequence of idempotent statements before the service starts.
* **Requests refused before the first change** (validation, host capacity,
  unknown actions): stuttering steps. The preflight checks that read shared state,
  duplicate names and SSH capacity, are modelled.
* **Reads**: reports, lists, metrics, pages and the duplicate-port part of the
  report keep no state. They do not take the mutex, so a report may show a mutation in
  progress as drift (main.go:469); the repair reads its own report under the mutex.
* **Identity of instances**: the runtime knows instances by name, and so does the
  model; deleting and re-creating one of the same name between two commands is
  possible in it.
* **SQLite**: a statement is atomic, and so is the transaction of `Restore`.
  Whether a statement whose context ends was applied is not known to the caller in
  general; the model takes it as not applied.

## 6. Plan

The state the program keeps is modelled, except by the installers, and every safety
property is proved. What is left:

1. An abstract specification of the sessions and their limit, and of the upgrade, as there
   is one for the ports and for the snapshots.
2. What is left of a measure for `DriftIsRepaired` and `LimitsAreEnforced` beside
   `RepairsRepair` and `LoopsAgree`: that a pass in calm in which nothing is refused reduces
   it.

---------------------------- MODULE NatboxState ----------------------------
(***************************************************************************)
(* What every part of Natbox shares: the instances of the container        *)
(* runtime (Incus or LXD, reached through its command line), the rows of   *)
(* the table managed_containers, the mutex that serialises mutations, and  *)
(* the operation each worker is executing.  A worker is an API request or  *)
(* one of the two background loops.                                        *)
(*                                                                         *)
(* Natbox has no transaction that spans the runtime and the database.      *)
(* Each call to either is one step; between two steps the operator may use *)
(* the runtime's own command line, a deadline may pass, a client may hang  *)
(* up, or the process may die.                                             *)
(***************************************************************************)
EXTENDS FiniteSets

CONSTANTS Names,       \* container names
          NoName,
          Requests,    \* concurrent API requests
          PolicyLoop,  \* the goroutine of enforcePolicies
          RepairLoop,  \* the goroutine of startAutoRepairScheduler
          NoOne,       \* nobody holds the mutex
          Faults       \* what may go wrong, a subset of FaultKinds

FaultKinds == {"runtime", "database", "deadline", "client", "crash", "operator"}

Workers == Requests \cup {PolicyLoop, RepairLoop}

ASSUME DistinctNoName == NoName \notin Names
ASSUME DistinctNoOne == NoOne \notin Workers
ASSUME DistinctLoops == PolicyLoop # RepairLoop /\ {PolicyLoop, RepairLoop} \cap Requests = {}
ASSUME KnownFaults == Faults \subseteq FaultKinds

VARIABLES instance,   \* state of each instance in the runtime
          maker,      \* ghost: who created the instance
          managed,    \* desired_state of the row, "none" without a row
          limit,      \* the row's quota and expiry, "none" when it has neither
          disturbed,  \* ghost: names something outside a successful call touched
          calm,       \* ghost: from now on no fault and no new API request
          mutationMu, \* the worker inside the critical section
          \* Of each worker:
          kind,       \* the operation it executes
          step,       \* where in it
          item,       \* the name in hand
          plan,       \* what is still to be done, by name
          created,    \* result.Created of bulkCreate
          undo,       \* what the rollback has yet to delete
          made,       \* ghost: names the operation had initialised
          ctx,        \* its context
          client,     \* whether the client of the request is still connected
          failed,     \* the step that failed, "idle" for none
          log         \* ghost: the audit events the operation wrote

world   == <<instance, maker, managed, limit, disturbed>>
batch   == <<created, undo, made>>
section == <<mutationMu, kind, client, calm>>
vars    == <<world, batch, section, step, item, plan, ctx, failed, log>>

-----------------------------------------------------------------------------
(* Values.                                                                 *)

\* An instance that runs has an IPv4 address only once DHCP has answered.
InstanceStates == {"absent", "stopped", "running", "addressed"}
Makers == {"none", "natbox", "operator"}
Up(n) == instance[n] \in {"running", "addressed"}
Present(n) == instance[n] # "absent"

\* desired_state of a row of managed_containers.
DesiredStates == {"none", "running", "stopped"}
Managed(n) == managed[n] # "none"
Agrees(n) == (managed[n] = "running") <=> Up(n)

\* quota_bytes, the baselines and expires_at of a row, by what a policy pass
\* finds: no limit, limits not yet reached, quota used up, expiry passed.
Limits == {"none", "open", "quota", "expired"}

CreateKinds == {"create", "bulkCreate"}
ActionKinds == {"action", "bulkAction"}
RepairKinds == {"repair", "autoRepair"}
ItemKinds == ActionKinds \cup RepairKinds \cup {"policy"}
Kinds == CreateKinds \cup ItemKinds \cup {"idle"}

\* A request's context carries a deadline; the loops run under runContext,
\* which only the end of the process cancels.
Contexts == {"live", "process", "expired"}
ContextOf(k) == IF k \in {"autoRepair", "policy"} THEN "process" ELSE "live"

Commands == {"start", "stop", "restart", "delete"}
Plans == Commands \cup {"none", "create", "check"}
NoPlan == [n \in Names |-> "none"]

CreateSteps == {"init", "configure", "launch", "unwind", "key", "persist",
                "created", "sshport", "cleanup", "report"}
ItemSteps == {"check", "command", "record", "forget", "audit"}
Steps == CreateSteps \cup ItemSteps \cup {"idle", "next", "wait", "done"}

\* "dropped": the database refused the event; "abandoned": it was written under
\* the context of a request whose client had hung up.
Results == {"success", "failure", "dropped", "abandoned"}
Event(action, n, result) == [action |-> action, name |-> n, result |-> result]
Events == [action : {"create", "cleanup", "ssh", "item"}, name : Names, result : Results]

TypeOK ==
    /\ instance \in [Names -> InstanceStates]
    /\ maker \in [Names -> Makers]
    /\ managed \in [Names -> DesiredStates]
    /\ limit \in [Names -> Limits]
    /\ disturbed \in SUBSET Names
    /\ calm \in BOOLEAN
    /\ mutationMu \in Workers \cup {NoOne}
    /\ kind \in [Workers -> Kinds]
    /\ step \in [Workers -> Steps]
    /\ item \in [Workers -> Names \cup {NoName}]
    /\ plan \in [Workers -> [Names -> Plans]]
    /\ created \in [Workers -> SUBSET Names]
    /\ undo \in [Workers -> SUBSET Names]
    /\ made \in [Workers -> SUBSET Names]
    /\ ctx \in [Workers -> Contexts]
    /\ client \in [Workers -> BOOLEAN]
    /\ failed \in [Workers -> Steps]
    /\ log \in [Workers -> SUBSET Events]

\* A first start beside whatever the operator already runs: an empty database.
Init ==
    /\ instance \in [Names -> {"absent", "stopped", "addressed"}]
    /\ maker = [n \in Names |-> IF Present(n) THEN "operator" ELSE "none"]
    /\ managed = [n \in Names |-> "none"]
    /\ limit = [n \in Names |-> "none"]
    /\ disturbed = {n \in Names : Present(n)}
    /\ calm = FALSE
    /\ mutationMu = NoOne
    /\ kind = [w \in Workers |-> "idle"]
    /\ step = [w \in Workers |-> "idle"]
    /\ item = [w \in Workers |-> NoName]
    /\ plan = [w \in Workers |-> NoPlan]
    /\ created = [w \in Workers |-> {}]
    /\ undo = [w \in Workers |-> {}]
    /\ made = [w \in Workers |-> {}]
    /\ ctx = [w \in Workers |-> "live"]
    /\ client = [w \in Workers |-> TRUE]
    /\ failed = [w \in Workers |-> "idle"]
    /\ log = [w \in Workers |-> {}]

-----------------------------------------------------------------------------
(* How a call ends.  A command runs under exec.CommandContext: an expired  *)
(* context keeps it from starting, and one that expires midway kills the   *)
(* client although the daemon may have done the work.                      *)

Possible(fault) == ~calm /\ fault \in Faults

\* A deadline passes; runContext is cancelled by SIGINT or SIGTERM.
Expires(c) ==
    \/ c = "live" /\ Possible("deadline")
    \/ c = "process" /\ Possible("crash")

\* What the runtime agrees to do to an instance in state s.
Accepted(cmd, s) ==
    CASE cmd = "init"                -> s = "absent"
      [] cmd = "start"               -> s = "stopped"
      [] cmd \in {"stop", "restart", "exec"} -> s \in {"running", "addressed"}
      [] cmd = "proxy"               -> s = "addressed"
      [] OTHER                       -> s # "absent"

Outcome(cmd, s) ==
    CASE cmd \in {"init", "stop"}     -> "stopped"
      [] cmd \in {"start", "restart"} -> "running"
      [] cmd = "delete"               -> "absent"
      [] OTHER                        -> s

\* What a command that fails may leave; restart and delete --force may fail
\* after their stop.
Leftovers(cmd, s) ==
    IF ~Accepted(cmd, s) THEN {s}
    ELSE {s, Outcome(cmd, s)} \cup (IF cmd \in {"restart", "delete"} THEN {"stopped"} ELSE {})

CommandResults(cmd, s, c) ==
    {r \in [state : InstanceStates, err : BOOLEAN, ctx : Contexts] :
        \/ ~r.err /\ c # "expired" /\ Accepted(cmd, s) /\ r.state = Outcome(cmd, s) /\ r.ctx = c
        \/ r.err /\ ~Accepted(cmd, s) /\ r.state = s /\ r.ctx = c
        \/ r.err /\ c = "expired" /\ r.state = s /\ r.ctx = c
        \/ r.err /\ c # "expired" /\ Possible("runtime") /\ r.state \in Leftovers(cmd, s) /\ r.ctx = c
        \/ r.err /\ Expires(c) /\ r.state \in Leftovers(cmd, s) /\ r.ctx = "expired"}

\* A statement that fails, or whose context ends, leaves the table as it was.
StatementResults(c) ==
    {r \in [err : BOOLEAN, ctx : Contexts] :
        \/ ~r.err /\ c # "expired" /\ r.ctx = c
        \/ r.err /\ (c = "expired" \/ Possible("database")) /\ r.ctx = c
        \/ r.err /\ Expires(c) /\ r.ctx = "expired"}

\* recordAudit writes under r.Context(), recordSystemAudit under a background
\* context; both only log an error.
AuditResults(result, connected) ==
    {IF connected THEN result ELSE "abandoned"} \cup
    (IF Possible("database") THEN {"dropped"} ELSE {})

\* The instance after a command, and what follows from it: the interface
\* counters of an instance that starts begin at zero, below any baseline.
Runtime(n, cmd, state) ==
    /\ instance' = [instance EXCEPT ![n] = state]
    /\ maker' = [maker EXCEPT ![n] =
                    IF state = "absent" THEN "none"
                    ELSE IF Present(n) THEN @ ELSE "natbox"]
    /\ limit' = [limit EXCEPT ![n] =
                    IF cmd \in {"start", "restart"} /\ state = "running" /\ @ = "quota"
                    THEN "open" ELSE @]

-----------------------------------------------------------------------------
(* The critical section of every mutation: mutationMu.Lock(), the handler, *)
(* and the deferred Unlock.                                                *)

\* Mutant: no mutex.
LockNothing(w, k, p) ==
    /\ kind[w] = "idle"
    /\ mutationMu' = w
    /\ kind' = [kind EXCEPT ![w] = k]
    /\ step' = [step EXCEPT ![w] = "next"]
    /\ plan' = [plan EXCEPT ![w] = p]
    /\ ctx' = [ctx EXCEPT ![w] = ContextOf(k)]
    /\ UNCHANGED <<world, batch, item, client, failed, log, calm>>

Lock(w, k, p) ==
    /\ mutationMu = NoOne
    /\ kind[w] = "idle"
    /\ mutationMu' = w
    /\ kind' = [kind EXCEPT ![w] = k]
    /\ step' = [step EXCEPT ![w] = "next"]
    /\ plan' = [plan EXCEPT ![w] = p]
    /\ ctx' = [ctx EXCEPT ![w] = ContextOf(k)]
    /\ UNCHANGED <<world, batch, item, client, failed, log, calm>>

Unlock(w) ==
    /\ step[w] = "done"
    /\ mutationMu' = NoOne
    /\ kind' = [kind EXCEPT ![w] = "idle"]
    /\ step' = [step EXCEPT ![w] = "idle"]
    /\ item' = [item EXCEPT ![w] = NoName]
    /\ plan' = [plan EXCEPT ![w] = NoPlan]
    /\ created' = [created EXCEPT ![w] = {}]
    /\ undo' = [undo EXCEPT ![w] = {}]
    /\ made' = [made EXCEPT ![w] = {}]
    /\ ctx' = [ctx EXCEPT ![w] = "live"]
    /\ client' = [client EXCEPT ![w] = TRUE]
    /\ failed' = [failed EXCEPT ![w] = "idle"]
    /\ log' = [log EXCEPT ![w] = {}]
    /\ UNCHANGED <<world, calm>>

Go(w, s) == step' = [step EXCEPT ![w] = s] /\ UNCHANGED failed

\* The step `at' failed.
Fail(w, at, s) ==
    /\ step' = [step EXCEPT ![w] = s]
    /\ failed' = [failed EXCEPT ![w] = at]

\* The next name of the request, the report or the policy list.
TakeName(w) ==
    /\ step[w] = "next"
    /\ \E n \in Names :
          /\ plan[w][n] # "none"
          /\ item' = [item EXCEPT ![w] = n]
          /\ Go(w, CASE plan[w][n] = "create" -> "init"
                     [] plan[w][n] = "check"  -> "check"
                     [] OTHER                 -> "command")
    /\ UNCHANGED <<world, batch, section, plan, ctx, log>>

NoNameLeft(w) ==
    /\ step[w] = "next"
    /\ plan[w] = NoPlan
    /\ Go(w, "done")
    /\ UNCHANGED <<world, batch, section, item, plan, ctx, log>>

-----------------------------------------------------------------------------
(* The world around Natbox.                                                *)

\* The operator uses the runtime's own command line, which takes no lock.
Operator(n) ==
    /\ Possible("operator")
    /\ \E s \in {"absent", "stopped", "running"} \ {instance[n]} :
          /\ instance' = [instance EXCEPT ![n] = s]
          /\ maker' = [maker EXCEPT ![n] =
                          IF s = "absent" THEN "none"
                          ELSE IF Present(n) THEN @ ELSE "operator"]
          /\ limit' = [limit EXCEPT ![n] = IF s = "running" /\ @ = "quota" THEN "open" ELSE @]
    /\ disturbed' = disturbed \cup {n}
    /\ UNCHANGED <<managed, batch, section, step, item, plan, ctx, failed, log>>

\* DHCP answers.
Address(n) ==
    /\ instance[n] = "running"
    /\ instance' = [instance EXCEPT ![n] = "addressed"]
    /\ UNCHANGED <<maker, managed, limit, disturbed, batch, section,
                   step, item, plan, ctx, failed, log>>

\* Traffic uses up a quota, or time passes an expiry.
ReachLimit(n) ==
    /\ limit[n] \in {"open", "quota"}
    /\ \E l \in {"quota", "expired"} \ {limit[n]} :
          /\ l = "quota" => Up(n)
          /\ limit' = [limit EXCEPT ![n] = l]
    /\ UNCHANGED <<instance, maker, managed, disturbed, batch, section,
                   step, item, plan, ctx, failed, log>>

HangUp(w) ==
    /\ Possible("client")
    /\ kind[w] \notin {"idle", "autoRepair", "policy"}
    /\ client[w]
    /\ client' = [client EXCEPT ![w] = FALSE]
    /\ UNCHANGED <<world, batch, mutationMu, kind, calm, step, item, plan, ctx, failed, log>>

\* The process dies and is started again: memory is lost, the runtime and the
\* database are not.
Crash ==
    /\ Possible("crash")
    /\ \E w \in Workers : kind[w] # "idle"
    /\ mutationMu' = NoOne
    /\ kind' = [w \in Workers |-> "idle"]
    /\ step' = [w \in Workers |-> "idle"]
    /\ item' = [w \in Workers |-> NoName]
    /\ plan' = [w \in Workers |-> NoPlan]
    /\ created' = [w \in Workers |-> {}]
    /\ undo' = [w \in Workers |-> {}]
    /\ made' = [w \in Workers |-> {}]
    /\ ctx' = [w \in Workers |-> "live"]
    /\ client' = [w \in Workers |-> TRUE]
    /\ failed' = [w \in Workers |-> "idle"]
    /\ log' = [w \in Workers |-> {}]
    /\ disturbed' = disturbed \cup {n \in Names : \E w \in Workers : item[w] = n}
    /\ UNCHANGED <<instance, maker, managed, limit, calm>>

CalmDown ==
    /\ ~calm
    /\ calm' = TRUE
    /\ UNCHANGED <<world, batch, mutationMu, kind, client, step, item, plan, ctx, failed, log>>

Disturbance ==
    \/ \E n \in Names : Operator(n) \/ Address(n) \/ ReachLimit(n)
    \/ \E w \in Workers : HangUp(w)
    \/ Crash

=============================================================================

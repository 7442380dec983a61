------------------------------- MODULE Natbox -------------------------------
(***************************************************************************)
(* The service: provisioning, lifecycle, policy and repair under one       *)
(* mutex, in the environment of NatboxState, and what must hold of it.     *)
(***************************************************************************)
EXTENDS Provisioning, Lifecycle

Work(w) == CreateStep(w) \/ ItemStep(w) \/ TakeName(w) \/ NoNameLeft(w) \/ Unlock(w)

Next ==
    \/ CreateBegins \/ RequestBegins \/ RowChange
    \/ BeginRepair(RepairLoop) \/ BeginPolicy
    \/ \E w \in Workers : Work(w) \/ WaitBreaks(w)
    \/ Disturbance \/ CalmDown

Spec == Init /\ [][Next]_vars

\* A call returns and a handler goes on to its end (WaitBreaks, an error while
\* polling, need never happen).  A waiting goroutine gets sync.Mutex in the end,
\* as the mutex hands itself over to one that has waited a millisecond, and the
\* tickers never stop: hence SF for the two loops.  DHCP answers.
Fairness ==
    /\ \A w \in Workers : WF_vars(Work(w))
    /\ SF_vars(BeginPolicy)
    /\ SF_vars(BeginRepair(RepairLoop))
    /\ \A n \in Names : WF_vars(Address(n))

FairSpec == Spec /\ Fairness

-----------------------------------------------------------------------------
(* Safety.                                                                 *)

\* The mutex and the work it protects never come apart: a worker that is
\* executing a mutation holds mutationMu, and the holder is executing one (a
\* handler that returned without its deferred Unlock would leave the mutex
\* taken for good).
MutationsAreSerialised ==
    \A w \in Workers : kind[w] # "idle" <=> mutationMu = w

\* What the rollback is about to delete: the instance in hand, or the batch.
RollbackTargets(w) ==
    CASE step[w] = "unwind"  -> {item[w]}
      [] step[w] = "cleanup" -> undo[w]
      [] OTHER                  -> {}

\* A create that fails deletes only what it made: a name whose init the runtime
\* refused, because somebody else's instance has it, is never a target of the
\* rollback of Client.Create, of cleanupContainer or of rollbackBulk.
RollbackOnlyOwn ==
    \A w \in Workers : RollbackTargets(w) \subseteq made[w]

\* The container of a failed Client.Create, which that function itself rolls back.
RolledBackByClient(w, n) ==
    failed[w] \in {"init", "configure", "launch"} /\ n \notin created[w]

\* README.md: a batch "records cleanup failures in the audit log".  An instance
\* that a failed create has made, and that is still there, has a failure event
\* of its cleanup, whichever step failed and although the client may be gone:
\* the event is written, or it is the database that refused it.  Excepted is the
\* container whose Client.Create failed: the error of that rollback is dropped.
CleanupFailuresAreRecorded ==
    \A w \in Workers :
        kind[w] \in CreateKinds /\ step[w] = "done" /\ failed[w] # "idle" =>
            \A n \in made[w] :
                Present(n) /\ maker[n] = "natbox" /\ ~RolledBackByClient(w, n) =>
                    \E result \in {"failure", "dropped"} : Event("cleanup", n, result) \in log[w]

\* When a create reports success, every container of the request has a row
\* that declares it running: nothing that reads or restores rows came between.
CreatedAreManaged ==
    \A w \in Workers :
        kind[w] \in CreateKinds /\ failed[w] = "idle" =>
            \A n \in created[w] : managed[n] = "running"

\* A batch rolls back all instances created by the request: when it has failed,
\* whatever it audited as created it has also tried to delete, and audited that.
RollbackIsAudited ==
    \A w \in Workers :
        kind[w] \in CreateKinds /\ failed[w] # "idle" /\ step[w] = "done" =>
            \A e \in log[w] : e.action = "create" /\ e.result = "success" =>
                \E f \in log[w] : f.action = "cleanup" /\ f.name = e.name

\* At rest the declaration and the runtime agree on every managed instance
\* that no operator, crash, restore or failed call has touched since Natbox
\* last acted on it: no interleaving of successful operations causes drift.
AgreementAtRest ==
    mutationMu = NoOne =>
        \A n \in Names \ disturbed : Managed(n) /\ Present(n) => Agrees(n)

\* What a loop or a repair is about to do still follows from the row it read:
\* no row changes between the report, or the policy list, and the command.
PlansAreCurrent ==
    \A w \in Workers : \A n \in Names : plan[w][n] # "none" =>
        /\ kind[w] \in RepairKinds => managed[n] = Desired(plan[w][n])
        /\ kind[w] = "policy" => Managed(n) /\ limit[n] # "none"

\* The row of a container is deleted after its instance, so an instance Natbox
\* made does not lose its row while it exists.
RowOutlivesInstance ==
    \A w \in Workers :
        step[w] = "forget" => ~Present(item[w]) \/ maker[item[w]] = "operator"

\* What is reported as a success is so, in both stores, whatever the operator, a
\* restore or a failing statement did since the command: the row of a deleted
\* container is gone, that of any other declares what was asked for (where an
\* error of SetDesiredState is only logged: unless it failed), and so is the
\* instance, unless the operator has touched it.
SuccessesAreTrue ==
    \A w \in Workers : step[w] = "audit" /\ failed[w] = "idle" =>
        LET n == item[w]
            cmd == plan[w][n]
        IN
        IF cmd = "delete"
        THEN ~Managed(n) /\ (Present(n) => n \in disturbed)
        ELSE /\ Managed(n) /\ (RecordErrorFails(kind[w]) \/ n \notin disturbed) =>
                    managed[n] = Desired(cmd)
             /\ n \notin disturbed => (Up(n) <=> cmd # "stop")

\* A repair brings instances to the declared state and never the other way
\* round: no row changes while a repair holds the mutex.
RepairKeepsDeclarations ==
    [][\A w \in Workers : mutationMu = w /\ kind[w] \in RepairKinds => managed' = managed]_vars

\* The rows whose instance exists and is not in the declared state.
Drifted == {n \in Names : Managed(n) /\ Present(n) /\ ~Agrees(n)}

\* A repair works through a report that may be old, on instances that whoever
\* uses the runtime's command line may have changed, and its commands may fail
\* half done: still none of its steps takes an instance out of its declared
\* state.
RepairsOnlyRepair ==
    [][\A w \in Workers : kind[w] \in RepairKinds /\ Work(w) => Drifted' \subseteq Drifted]_vars

\* The policy loop stops what the repair loop would start again.  Once faults
\* cease and no request holds the mutex, they do not undo each other's work: a
\* row only ever turns from running to stopped, and only a container declared
\* running is started.
LoopsSettle ==
    [][calm /\ mutationMu \notin Requests =>
           \A n \in Names :
               /\ managed'[n] = managed[n] \/ (managed[n] = "running" /\ managed'[n] = "stopped")
               /\ ~Up(n) /\ Up(n)' => managed[n] = "running"]_vars

-----------------------------------------------------------------------------
(* What the documents say and the code does not keep.                      *)

\* docs/release-checklist.md: "Failed creation leaves no runtime instance
\* behind."  No fault is needed: WaitIPv4 uses up the deadline of the request,
\* and cleanupContainer runs its delete under the same, expired, context.
FailedCreationLeavesNothing ==
    \A w \in Workers :
        kind[w] \in CreateKinds /\ step[w] = "done" /\ failed[w] # "idle" =>
            \A n \in made[w] : ~Present(n)

\* README.md: "Each item is audited independently."  The items run under a
\* background context but are audited under the request's, which ends when the
\* client hangs up.
EachItemIsAudited ==
    \A w \in Workers :
        kind[w] = "bulkAction" => \A e \in log[w] : e.result # "abandoned"

-----------------------------------------------------------------------------
(* Liveness.                                                               *)

PastLimit(n) == Managed(n) /\ Up(n) /\ limit[n] \in {"quota", "expired"}

\* Once faults and requests cease, a managed container past its quota or expiry
\* is stopped and stays so: the repair loop does not start it again for good.
LimitsAreEnforced == <>calm => <>[](\A n \in Names : ~PastLimit(n))

\* Once faults and requests cease, the automatic repair brings every managed
\* instance that exists to its declared state, whatever came before.
DriftIsRepaired == <>calm => <>[](\A n \in Names : Managed(n) /\ Present(n) => Agrees(n))

\* Quota enforcement samples once per minute: whoever holds the mutex gives it
\* back, so the policy loop always gets its turn.
SamplingNotBlocked == []<>(mutationMu = NoOne)

=============================================================================

----------------------------- MODULE Lifecycle -----------------------------
(***************************************************************************)
(* Start, stop, restart and delete, and the desired state they record: one *)
(* action, a bulk action, the repair of drift asked for by the API or run  *)
(* by the automatic repair loop, and the policy loop, which stops what is  *)
(* past its quota or expiry.  All five go through the names of a list and  *)
(* treat each alike: the runtime command, the wait for an address after a  *)
(* start, the row, the audit event.                                        *)
(***************************************************************************)
EXTENDS NatboxState

BeginAction(w, n, cmd) ==
    /\ ~calm
    /\ Lock(w, "action", [NoPlan EXCEPT ![n] = cmd])

\* A name given twice counts once.
BeginBulkAction(w, names, cmd) ==
    /\ ~calm
    /\ Lock(w, "bulkAction", [n \in Names |-> IF n \in names THEN cmd ELSE "none"])

\* Mutant: what is declared stopped is left running.
DriftOfStopped ==
    [n \in Names |->
        IF Managed(n) /\ Present(n) /\ ~Agrees(n) /\ managed[n] = "running" THEN "start" ELSE "none"]

\* Mutant: what exists is started, whatever its row declares.
DriftToRunning ==
    [n \in Names |-> IF Managed(n) /\ Present(n) /\ ~Up(n) THEN "start" ELSE "none"]

\* reconcile: the rows whose instance exists and is not in the declared state.
Drift ==
    [n \in Names |->
        IF ~(Managed(n) /\ Present(n)) \/ Agrees(n) THEN "none"
        ELSE IF managed[n] = "running" THEN "start" ELSE "stop"]

\* A report without drift leaves nothing to do.
BeginRepair(w) ==
    /\ w # RepairLoop => ~calm
    /\ Drift # NoPlan
    /\ Lock(w, IF w = RepairLoop THEN "autoRepair" ELSE "repair", Drift)

\* The rows of a policy pass: limited, and running when the pass begins.  An
\* expired one is stopped without a look at its counters.
Limited ==
    [n \in Names |->
        IF ~Managed(n) \/ limit[n] = "none" \/ ~Up(n) THEN "none"
        ELSE IF limit[n] = "expired" THEN "stop" ELSE "check"]

BeginPolicy ==
    /\ Limited # NoPlan
    /\ Lock(PolicyLoop, "policy", Limited)

-----------------------------------------------------------------------------
(* One item.                                                               *)

\* The counters of a limited row: below the quota, or unreadable, the item is
\* left alone for this pass.  An expiry that passed since the pass began is not
\* seen, though the quota may be used up as well.
CheckQuota(w) ==
    LET n == item[w] IN
    /\ step[w] = "check"
    /\ \E r \in CommandResults("stats", instance[n], ctx[w]) :
          /\ ctx' = [ctx EXCEPT ![w] = r.ctx]
          /\ \/ /\ ~r.err /\ Up(n) /\ limit[n] \in {"quota", "expired"}
                /\ plan' = [plan EXCEPT ![w][n] = "stop"]
                /\ Go(w, "command")
                /\ UNCHANGED item
             \/ /\ r.err \/ ~Up(n) \/ limit[n] # "quota"
                /\ plan' = [plan EXCEPT ![w][n] = "none"]
                /\ item' = [item EXCEPT ![w] = NoName]
                /\ Go(w, "next")
    /\ UNCHANGED <<world, batch, section, log>>

\* Mutant: what a stop records is recorded of a delete as well.
AfterCommandKeepsRow(cmd) == IF cmd \in {"start", "restart"} THEN "wait" ELSE "record"

AfterCommand(cmd) ==
    CASE cmd \in {"start", "restart"} -> "wait"
      [] cmd = "delete"               -> "forget"
      [] OTHER                        -> "record"

\* Mutant: a failed delete is taken for one of an instance that is already gone.
RunCommandOrGone(w) ==
    LET n == item[w]
        cmd == plan[w][n]
    IN
    /\ step[w] = "command"
    /\ \E r \in CommandResults(cmd, instance[n], ctx[w]) :
          /\ Runtime(n, cmd, r.state)
          /\ ctx' = [ctx EXCEPT ![w] = r.ctx]
          /\ disturbed' = IF r.err THEN disturbed \cup {n} ELSE disturbed \ {n}
          /\ IF r.err /\ cmd # "delete" THEN Fail(w, "command", "audit") ELSE Go(w, AfterCommand(cmd))
    /\ UNCHANGED <<managed, batch, section, item, plan, log>>

RunCommand(w) ==
    LET n == item[w]
        cmd == plan[w][n]
    IN
    /\ step[w] = "command"
    /\ \E r \in CommandResults(cmd, instance[n], ctx[w]) :
          /\ Runtime(n, cmd, r.state)
          /\ ctx' = [ctx EXCEPT ![w] = r.ctx]
          /\ disturbed' = IF r.err THEN disturbed \cup {n} ELSE disturbed \ {n}
          /\ IF r.err THEN Fail(w, "command", "audit") ELSE Go(w, AfterCommand(cmd))
    /\ UNCHANGED <<managed, batch, section, item, plan, log>>

Started(w) ==
    /\ step[w] = "wait" /\ kind[w] \in ItemKinds
    /\ ctx[w] # "expired"
    /\ instance[item[w]] = "addressed"
    /\ Go(w, "record")
    /\ UNCHANGED <<world, batch, section, item, plan, ctx, log>>

\* The started instance stays as it is and its row is not written.
GiveUpWaiting(w) ==
    /\ step[w] = "wait" /\ kind[w] \in ItemKinds
    /\ Fail(w, "wait", "audit")
    /\ disturbed' = disturbed \cup {item[w]}
    /\ UNCHANGED <<instance, maker, managed, limit, batch, section, item, plan, log>>

\* Only a request has a deadline that ends the wait.
WaitTimesOut(w) ==
    /\ ctx[w] \in {"live", "expired"}
    /\ ctx' = [ctx EXCEPT ![w] = "expired"]
    /\ GiveUpWaiting(w)

\* List fails, or the process is told to stop.
WaitBreaks(w) ==
    /\ \/ Possible("runtime") /\ UNCHANGED ctx
       \/ Expires(ctx[w]) /\ ctx' = [ctx EXCEPT ![w] = "expired"]
    /\ GiveUpWaiting(w)

\* Mutants: only a start declares an instance running; nothing declares one stopped.
DesiredOfStart(cmd) == IF cmd = "start" THEN "running" ELSE "stopped"
DesiredRunning(cmd) == "running"

Desired(cmd) == IF cmd = "stop" THEN "stopped" ELSE "running"

\* Whether an error of SetDesiredState fails the item, or is only logged.
RecordErrorFails(k) == k \in {"bulkAction", "repair", "autoRepair"}

\* SetDesiredState: an instance without a row is not an error.
Record(w) ==
    LET n == item[w] IN
    /\ step[w] = "record"
    /\ \E r \in StatementResults(ctx[w]) :
          /\ ctx' = [ctx EXCEPT ![w] = r.ctx]
          /\ managed' = IF r.err \/ ~Managed(n) THEN managed
                        ELSE [managed EXCEPT ![n] = Desired(plan[w][n])]
          /\ disturbed' = IF r.err THEN disturbed \cup {n} ELSE disturbed
          /\ IF r.err /\ RecordErrorFails(kind[w]) THEN Fail(w, "record", "audit") ELSE Go(w, "audit")
    /\ UNCHANGED <<instance, maker, limit, batch, section, item, plan, log>>

\* DeleteContainer: the row goes, and its quota and expiry with it.
Forget(w) ==
    LET n == item[w] IN
    /\ step[w] = "forget"
    /\ \E r \in StatementResults(ctx[w]) :
          /\ ctx' = [ctx EXCEPT ![w] = r.ctx]
          /\ managed' = IF r.err THEN managed ELSE [managed EXCEPT ![n] = "none"]
          /\ limit' = IF r.err THEN limit ELSE [limit EXCEPT ![n] = "none"]
          /\ IF r.err THEN Fail(w, "forget", "audit") ELSE Go(w, "audit")
    /\ UNCHANGED <<instance, maker, disturbed, batch, section, item, plan, log>>

\* recordAudit for the API, recordSystemAudit for the loops; the next item
\* starts afresh.
Audit(w) ==
    LET n == item[w]
        result == IF failed[w] = "idle" THEN "success" ELSE "failure"
        connected == client[w] \/ kind[w] \in {"autoRepair", "policy"}
    IN
    /\ step[w] = "audit"
    /\ \E written \in AuditResults(result, connected) :
          log' = [log EXCEPT ![w] = @ \cup {Event("item", n, written)}]
    /\ plan' = [plan EXCEPT ![w][n] = "none"]
    /\ item' = [item EXCEPT ![w] = NoName]
    /\ step' = [step EXCEPT ![w] = "next"]
    /\ failed' = [failed EXCEPT ![w] = "idle"]
    /\ UNCHANGED <<world, batch, section, ctx>>

-----------------------------------------------------------------------------
(* Two requests that change rows only.                                     *)

\* Whatever a backup holds: valid rows, of containers that may not exist.
RestoredRows ==
    /\ managed' \in [Names -> DesiredStates]
    /\ limit' \in [Names -> {"none", "open", "expired"}]
    /\ \A n \in Names : managed'[n] = "none" => limit'[n] = "none"

\* Mutant: a restore that does not take the mutex.
RestoreBackupUnlocked ==
    /\ ~calm
    /\ RestoredRows
    /\ disturbed' = Names
    /\ UNCHANGED <<instance, maker, batch, section, step, item, plan, ctx, failed, log>>

\* One transaction replaces every row; the runtime is not touched.
RestoreBackup ==
    /\ mutationMu = NoOne /\ ~calm
    /\ RestoredRows
    /\ disturbed' = Names
    /\ UNCHANGED <<instance, maker, batch, section, step, item, plan, ctx, failed, log>>

\* Mutant: a policy update that does not take the mutex.
UpdatePolicyUnlocked(n) ==
    /\ ~calm
    /\ Managed(n) /\ Present(n)
    /\ \E l \in {"none", "open", "expired"} : limit' = [limit EXCEPT ![n] = l]
    /\ UNCHANGED <<instance, maker, managed, disturbed, batch, section,
                   step, item, plan, ctx, failed, log>>

\* The current counters become the baseline of the new quota.
UpdatePolicy(n) ==
    /\ mutationMu = NoOne /\ ~calm
    /\ Managed(n) /\ Present(n)
    /\ \E l \in {"none", "open", "expired"} : limit' = [limit EXCEPT ![n] = l]
    /\ UNCHANGED <<instance, maker, managed, disturbed, batch, section,
                   step, item, plan, ctx, failed, log>>

-----------------------------------------------------------------------------

RequestBegins ==
    \E w \in Requests :
        \/ \E n \in Names, cmd \in Commands : BeginAction(w, n, cmd)
        \/ \E names \in (SUBSET Names) \ {{}}, cmd \in Commands : BeginBulkAction(w, names, cmd)
        \/ BeginRepair(w)

RowChange == RestoreBackup \/ \E n \in Names : UpdatePolicy(n)

ItemStep(w) ==
    \/ CheckQuota(w) \/ RunCommand(w)
    \/ Started(w) \/ WaitTimesOut(w)
    \/ Record(w) \/ Forget(w) \/ Audit(w)

=============================================================================

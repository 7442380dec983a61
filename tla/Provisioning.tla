---------------------------- MODULE Provisioning ----------------------------
(***************************************************************************)
(* POST /api/containers: one container, or a batch that is rolled back as  *)
(* a whole when one of its containers fails.                               *)
(*                                                                         *)
(* A container is built by the runtime (init, configure, launch), waits    *)
(* for its IPv4 address, may receive an SSH key, becomes a row of the      *)
(* database, and in a batch may receive an SSH port.  A request that the   *)
(* handler refuses before the first runtime command changes nothing and is *)
(* a stuttering step.                                                      *)
(***************************************************************************)
EXTENDS NatboxState

BeginCreate(w, n) ==
    /\ ~calm
    /\ Lock(w, "create", [NoPlan EXCEPT ![n] = "create"])

\* The preflight refuses the batch when the runtime already has one of its names.
BeginBulkCreate(w, names) ==
    /\ ~calm
    /\ \A n \in names : ~Present(n)
    /\ Lock(w, "bulkCreate", [n \in Names |-> IF n \in names THEN "create" ELSE "none"])

-----------------------------------------------------------------------------
(* Client.Create.                                                          *)

\* Mutant: the rollback is set up before init is known to have succeeded.
InitInstanceOrRollBack(w) ==
    LET n == item[w] IN
    /\ step[w] = "init"
    /\ \E r \in CommandResults("init", instance[n], ctx[w]) :
          /\ Runtime(n, "init", r.state)
          /\ ctx' = [ctx EXCEPT ![w] = r.ctx]
          /\ made' = IF r.state = instance[n] THEN made ELSE [made EXCEPT ![w] = @ \cup {n}]
          /\ disturbed' = IF r.err /\ r.state # instance[n] THEN disturbed \cup {n} ELSE disturbed
          /\ IF r.err THEN Fail(w, "init", "unwind") ELSE Go(w, "configure")
    /\ UNCHANGED <<managed, section, item, plan, created, undo, log>>

\* incus init.  A failure returns before the rollback exists, even when it was
\* the deadline that ended the command and the daemon goes on to create.
InitInstance(w) ==
    LET n == item[w] IN
    /\ step[w] = "init"
    /\ \E r \in CommandResults("init", instance[n], ctx[w]) :
          /\ Runtime(n, "init", r.state)
          /\ ctx' = [ctx EXCEPT ![w] = r.ctx]
          /\ made' = IF r.state = instance[n] THEN made ELSE [made EXCEPT ![w] = @ \cup {n}]
          /\ disturbed' = IF r.err /\ r.state # instance[n] THEN disturbed \cup {n} ELSE disturbed
          /\ IF r.err THEN Fail(w, "init", "report") ELSE Go(w, "configure")
    /\ UNCHANGED <<managed, section, item, plan, created, undo, log>>

\* The root disk and boot.autostart: two commands with the same way out.
Configure(w) ==
    /\ step[w] = "configure"
    /\ \E r \in CommandResults("configure", instance[item[w]], ctx[w]) :
          /\ ctx' = [ctx EXCEPT ![w] = r.ctx]
          /\ IF r.err THEN Fail(w, "configure", "unwind") ELSE Go(w, "launch")
    /\ UNCHANGED <<world, batch, section, item, plan, log>>

Launch(w) ==
    LET n == item[w] IN
    /\ step[w] = "launch"
    /\ \E r \in CommandResults("start", instance[n], ctx[w]) :
          /\ Runtime(n, "start", r.state)
          /\ ctx' = [ctx EXCEPT ![w] = r.ctx]
          /\ disturbed' = IF r.err THEN disturbed ELSE disturbed \ {n}
          /\ IF r.err THEN Fail(w, "launch", "unwind") ELSE Go(w, "wait")
    /\ UNCHANGED <<managed, batch, section, item, plan, log>>

\* The rollback of Client.Create has a context of its own; its error is dropped.
Unwind(w) ==
    LET n == item[w] IN
    /\ step[w] = "unwind"
    /\ \E r \in CommandResults("delete", instance[n], "live") :
          /\ Runtime(n, "delete", r.state)
          /\ disturbed' = IF r.state = "absent" THEN disturbed ELSE disturbed \cup {n}
    /\ Go(w, "report")
    /\ UNCHANGED <<managed, batch, section, item, plan, ctx, log>>

-----------------------------------------------------------------------------
(* createOne after Client.Create, and persistManaged.                      *)

\* After the address: ConfigureSSH when the request carries a public key.
HaveAddress(w) ==
    /\ step[w] = "wait" /\ kind[w] \in CreateKinds
    /\ ctx[w] # "expired"
    /\ instance[item[w]] = "addressed"
    /\ Go(w, "key") \/ Go(w, "persist")
    /\ UNCHANGED <<world, batch, section, item, plan, ctx, log>>

\* WaitIPv4 gives up when List fails or the deadline passes.  The cleanup that
\* follows runs under the same context.
NoAddress(w) ==
    /\ step[w] = "wait" /\ kind[w] \in CreateKinds
    /\ \/ Possible("runtime") /\ UNCHANGED ctx
       \/ ctx' = [ctx EXCEPT ![w] = "expired"]
    /\ undo' = [undo EXCEPT ![w] = {item[w]}]
    /\ Fail(w, "wait", "cleanup")
    /\ UNCHANGED <<world, section, item, plan, created, made, log>>

InstallKey(w) ==
    LET n == item[w] IN
    /\ step[w] = "key"
    /\ \E r \in CommandResults("exec", instance[n], ctx[w]) :
          /\ ctx' = [ctx EXCEPT ![w] = r.ctx]
          /\ undo' = IF r.err THEN [undo EXCEPT ![w] = {n}] ELSE undo
          /\ IF r.err THEN Fail(w, "key", "cleanup") ELSE Go(w, "persist")
    /\ UNCHANGED <<world, section, item, plan, created, made, log>>

\* UpsertContainer.  A row left from an earlier container of that name keeps
\* its quota and expiry.
Persist(w) ==
    LET n == item[w] IN
    /\ step[w] = "persist"
    /\ \E r \in StatementResults(ctx[w]) :
          /\ ctx' = [ctx EXCEPT ![w] = r.ctx]
          /\ managed' = IF r.err THEN managed ELSE [managed EXCEPT ![n] = "running"]
          /\ undo' = IF r.err THEN [undo EXCEPT ![w] = {n} \cup created[w]] ELSE undo
          /\ IF r.err THEN Fail(w, "persist", "cleanup") ELSE Go(w, "created")
    /\ UNCHANGED <<instance, maker, limit, disturbed, created, made, section, item, plan, log>>

\* Mutant: the name is cleared before it is added.
CompleteNothing(w) ==
    /\ item' = [item EXCEPT ![w] = NoName]
    /\ created' = [created EXCEPT ![w] = @ \cup {item'[w]}]
    /\ Go(w, "next")

\* One container of the request is complete.
Complete(w) ==
    /\ created' = [created EXCEPT ![w] = @ \cup {item[w]}]
    /\ item' = [item EXCEPT ![w] = NoName]
    /\ Go(w, "next")

\* The container is audited as created; a batch may go on to its SSH port.
Created(w) ==
    LET n == item[w] IN
    /\ step[w] = "created"
    /\ \E result \in AuditResults("success", client[w]) :
          log' = [log EXCEPT ![w] = @ \cup {Event("create", n, result)}]
    /\ plan' = [plan EXCEPT ![w][n] = "none"]
    /\ \/ Complete(w)
       \/ kind[w] = "bulkCreate" /\ Go(w, "sshport") /\ UNCHANGED <<created, item>>
    /\ UNCHANGED <<world, undo, made, section, ctx>>

AllocateSSH(w) ==
    /\ step[w] = "sshport"
    /\ \E r \in CommandResults("proxy", instance[item[w]], ctx[w]) :
          /\ ctx' = [ctx EXCEPT ![w] = r.ctx]
          /\ IF r.err THEN Fail(w, "sshport", "report") /\ UNCHANGED <<created, item>>
             ELSE Complete(w)
    /\ UNCHANGED <<world, undo, made, section, plan, log>>

-----------------------------------------------------------------------------
(* Failure: cleanupContainer, the audit event, rollbackBulk.               *)

\* Mutant: the outcome of the deletion is ignored.
CleanupResultIgnored(err) == "success"

CleanupResult(err) == IF err THEN "failure" ELSE "success"

\* cleanupContainer: the container in hand goes before those already created,
\* and every deletion is audited under a background context.
Cleanup(w) ==
    /\ step[w] = "cleanup"
    /\ \E n \in undo[w] :
          /\ item[w] \in undo[w] => n = item[w]
          /\ undo' = [undo EXCEPT ![w] = @ \ {n}]
          /\ \E r \in CommandResults("delete", instance[n], ctx[w]) :
                /\ Runtime(n, "delete", r.state)
                /\ ctx' = [ctx EXCEPT ![w] = r.ctx]
                /\ disturbed' = IF r.state = "absent" THEN disturbed ELSE disturbed \cup {n}
                /\ \E result \in AuditResults(CleanupResult(r.err), TRUE) :
                      log' = [log EXCEPT ![w] = @ \cup {Event("cleanup", n, result)}]
    /\ UNCHANGED <<managed, created, made, section, step, item, plan, failed>>

CleanedUp(w) ==
    /\ step[w] = "cleanup"
    /\ undo[w] = {}
    /\ Go(w, IF item[w] = NoName \/ failed[w] = "sshport" THEN "done" ELSE "report")
    /\ UNCHANGED <<world, batch, section, item, plan, ctx, log>>

\* Mutant: the container whose SSH port failed is forgotten.
StillToUndoForgets(w) == IF failed[w] = "persist" THEN {} ELSE created[w]

\* What is left to delete once the failure is audited: after a failed persist
\* rollbackBulk has already run.
StillToUndo(w) ==
    CASE failed[w] = "persist" -> {}
      [] failed[w] = "sshport" -> created[w] \cup {item[w]}
      [] OTHER                 -> created[w]

\* The failure is audited under the request's context; the deletions follow.
Report(w) ==
    LET ssh == failed[w] = "sshport" IN
    /\ step[w] = "report"
    /\ \E result \in AuditResults("failure", client[w]) :
          log' = [log EXCEPT ![w] = @ \cup {Event(IF ssh THEN "ssh" ELSE "create", item[w], result)}]
    /\ undo' = [undo EXCEPT ![w] = StillToUndo(w)]
    /\ item' = IF ssh THEN item ELSE [item EXCEPT ![w] = NoName]
    /\ Go(w, "cleanup")
    /\ UNCHANGED <<world, created, made, section, plan, ctx>>

-----------------------------------------------------------------------------

CreateBegins ==
    \E w \in Requests :
        \/ \E n \in Names : BeginCreate(w, n)
        \/ \E names \in (SUBSET Names) \ {{}} : BeginBulkCreate(w, names)

CreateStep(w) ==
    \/ InitInstance(w) \/ Configure(w) \/ Launch(w) \/ Unwind(w)
    \/ HaveAddress(w) \/ NoAddress(w) \/ InstallKey(w)
    \/ Persist(w) \/ Created(w) \/ AllocateSSH(w)
    \/ Cleanup(w) \/ CleanedUp(w) \/ Report(w)

=============================================================================

----------------------------- MODULE NatboxAudit -----------------------------
(***************************************************************************)
(* What Natbox reports, for any sets of names and requests and any         *)
(* combination of faults: what the audit log says of a create that failed, *)
(* and what is true of an item reported as a success.                      *)
(***************************************************************************)
EXTENDS NatboxSafety

-----------------------------------------------------------------------------
(* The parts of the inductive invariant.                                   *)

\* The failure of a create is on record, and the rollback of what it had
\* completed, if any, is under way or over.
Reported(w) ==
    /\ step[w] \in {"cleanup", "done"} /\ failed[w] # "idle"
    /\ item[w] = NoName \/ failed[w] = "sshport"

\* What the rollback of a create has still to come to: what it is deleting, and
\* before the failure is reported what it will delete after that.
ToDelete(w) ==
    undo[w] \cup (IF Reported(w) THEN {}
                  ELSE StillToUndo(w) \cup (IF step[w] = "sshport" THEN {item[w]} ELSE {}))

\* The steps whose failure cleans up the container in hand before the report.
CleaningSteps == {"wait", "key", "persist"}

\* What the audit log has still to hear of: what the rollback will come to, and
\* the name in hand until that has failed.
Ahead(w) ==
    undo[w] \cup (IF Reported(w) THEN {}
                  ELSE StillToUndo(w) \cup (IF failed[w] \in CleaningSteps THEN {} ELSE {item[w]}))

OnRecord(w, n) ==
    Present(n) /\ maker[n] = "natbox" /\ ~RolledBackByClient(w, n) =>
        \E result \in {"failure", "dropped"} : Event("cleanup", n, result) \in log[w]

CleanedUpOnRecord(w, n) == \E e \in log[w] : e.action = "cleanup" /\ e.name = n

\* A create that has failed does nothing but roll back, and ends with the
\* report made and nothing to delete.
RollingBack(w) ==
    /\ step[w] = "next" => item[w] = NoName
    /\ undo[w] # {} => step[w] = "cleanup"
    /\ failed[w] # "idle" => step[w] \in {"unwind", "report", "cleanup", "done"}
    /\ failed[w] \in {"idle", "init", "configure", "launch", "sshport"} \cup CleaningSteps
    /\ step[w] \in {"unwind", "report", "cleanup"} => failed[w] # "idle"
    /\ step[w] = "unwind" => failed[w] \in {"configure", "launch"}
    /\ step[w] = "done" /\ failed[w] # "idle" => Reported(w)

\* What a create made and is done with, and what it announced, is on record.
LeftOnRecord(w) == \A n \in made[w] \ Ahead(w) : OnRecord(w, n)

AnnouncedOnRecord(w) ==
    \A e \in log[w] : e.action = "create" /\ e.result = "success" =>
        e.name \in ToDelete(w) \/ CleanedUpOnRecord(w, e.name)

Accounted(w) ==
    kind[w] \in CreateKinds => RollingBack(w) /\ LeftOnRecord(w) /\ AnnouncedOnRecord(w)

\* A worker that executes nothing has no name in hand and no events.
Resting(w) == kind[w] = "idle" => item[w] = NoName /\ log[w] = {}

Audited == \A w \in Workers : Accounted(w) /\ Resting(w)

USE DEF CreateKinds, ActionKinds, RepairKinds, ItemKinds, CreateSteps, ItemSteps, Commands
USE DEF CleaningSteps

-----------------------------------------------------------------------------
(* One step of a create.                                                   *)

\* What a failed create has completed, and where it failed, no longer change.
Settled(w) == failed[w] = "idle" \/ UNCHANGED <<failed, created>>

LEMMA RollbackKept ==
    ASSUME NEW w, NEW n, Settled(w), RolledBackByClient(w, n)
    PROVE  RolledBackByClient(w, n)'
BY DEF Settled, RolledBackByClient

\* An instance that Natbox made is still there, after a command on another one,
\* only if it was there before.
LEMMA RecordKeptElsewhere ==
    ASSUME TypeOK, NEW w, NEW n \in Names, NEW cmd, NEW s, Runtime(n, cmd, s), Settled(w),
           NEW m \in Names \ {n}, OnRecord(w, m), log[w] \subseteq log'[w]
    PROVE  OnRecord(w, m)'
BY RuntimeElsewhere, RollbackKept DEF OnRecord, Present

\* When the instances are left alone, a record stays a record.
LEMMA RecordKept ==
    ASSUME NEW w, NEW m, UNCHANGED <<instance, maker>>, Settled(w), OnRecord(w, m),
           log[w] \subseteq log'[w]
    PROVE  OnRecord(w, m)'
BY RollbackKept DEF OnRecord, Present

\* What an event says.
LEMMA EventIsAbout ==
    ASSUME NEW action, NEW n, NEW result
    PROVE  LET e == Event(action, n, result) IN e.action = action /\ e.name = n /\ e.result = result
BY DEF Event

\* The failure of a deletion is written, unless the database refuses the event.
LEMMA FailureIsRecorded ==
    ASSUME NEW result \in AuditResults(CleanupResult(TRUE), TRUE)
    PROVE  result \in {"failure", "dropped"}
BY DEF AuditResults, CleanupResult

\* A step of a create that runs no command on the instance and writes no event,
\* and forgets nothing of what is to come.
LEMMA QuietStep ==
    ASSUME NEW w, UNCHANGED <<instance, maker, made, log>>, LeftOnRecord(w), AnnouncedOnRecord(w),
           Settled(w), Ahead(w) \subseteq Ahead(w)', ToDelete(w) \subseteq ToDelete(w)'
    PROVE  LeftOnRecord(w)' /\ AnnouncedOnRecord(w)'
<1>1. LeftOnRecord(w)'
  BY RecordKept DEF LeftOnRecord
<1>2. AnnouncedOnRecord(w)'
  BY DEF AnnouncedOnRecord, CleanedUpOnRecord
<1> QED
  BY <1>1, <1>2

\* One deletion of a rollback: the instance, the audit event.
Deletes(w, n, r, result) ==
    /\ undo' = [undo EXCEPT ![w] = @ \ {n}]
    /\ Runtime(n, "delete", r.state)
    /\ log' = [log EXCEPT ![w] = @ \cup {Event("cleanup", n, result)}]

LEMMA CleanupDeletes ==
    ASSUME NEW w, Cleanup(w)
    PROVE  \E n \in undo[w] : \E r \in CommandResults("delete", instance[n], ctx[w]) :
              \E result \in AuditResults(CleanupResult(r.err), TRUE) : Deletes(w, n, r, result)
BY DEF Cleanup, Deletes

\* The event that reports a failure is about the container in hand.
LEMMA ReportWrites ==
    ASSUME NEW w, Report(w)
    PROVE  \E action \in {"ssh", "create"}, result \in AuditResults("failure", client[w]) :
              log' = [log EXCEPT ![w] = @ \cup {Event(action, item[w], result)}]
<1>1. PICK action \in {"ssh", "create"} : action = IF failed[w] = "sshport" THEN "ssh" ELSE "create"
  OBVIOUS
<1> QED
  BY <1>1 DEF Report

\* A deletion takes a name off what is to come and puts the outcome on record.
LEMMA CleanupAccounted ==
    ASSUME Typed, NEW w \in Workers, kind[w] \in CreateKinds, Own(w), Accounted(w), Cleanup(w)
    PROVE  RollingBack(w)' /\ LeftOnRecord(w)' /\ AnnouncedOnRecord(w)'
<1>1. /\ step[w] = "cleanup" /\ undo[w] \subseteq Names /\ made[w] \subseteq Names
      /\ UNCHANGED <<kind, step, item, created, made, failed>>
  BY DEF Cleanup, section, Typed, TypeOK
<1>2. PICK n \in undo[w] : \E r \in CommandResults("delete", instance[n], ctx[w]) :
        \E result \in AuditResults(CleanupResult(r.err), TRUE) : Deletes(w, n, r, result)
  BY CleanupDeletes
<1>3. PICK r \in CommandResults("delete", instance[n], ctx[w]) :
        \E result \in AuditResults(CleanupResult(r.err), TRUE) : Deletes(w, n, r, result)
  BY <1>2
<1>4. PICK result \in AuditResults(CleanupResult(r.err), TRUE) : Deletes(w, n, r, result)
  BY <1>3
<1> DEFINE e == Event("cleanup", n, result)
<1>5. e.action = "cleanup" /\ e.name = n /\ e.result = result
  BY EventIsAbout
<1>6. undo'[w] = undo[w] \ {n} /\ Runtime(n, "delete", r.state) /\ log'[w] = log[w] \cup {e}
  BY <1>4 DEF Deletes, Typed, TypeOK
<1> HIDE DEF e
<1>7. /\ RollingBack(w)' /\ Ahead(w) \subseteq Ahead(w)' \cup {n}
      /\ ToDelete(w) \subseteq ToDelete(w)' \cup {n}
  BY <1>1, <1>6 DEF Accounted, RollingBack, Reported, ToDelete, Ahead, StillToUndo
<1>8. OnRecord(w, n)'
  <2>1. CASE r.err
    <3>1. result \in {"failure", "dropped"}
      BY <1>4, <2>1, FailureIsRecorded, ResultsTyped
    <3> QED
      BY <1>6, <3>1 DEF OnRecord, e
  <2>2. CASE ~r.err
    <3>1. r.state = "absent"
      BY <2>2, CommandSucceeds DEF Outcome
    <3> QED
      BY <1>1, <1>6, <3>1 DEF OnRecord, Present, Runtime, Typed, TypeOK
  <2> QED
    BY <2>1, <2>2
<1>9. ASSUME NEW m \in Names \ {n}, OnRecord(w, m) PROVE OnRecord(w, m)'
  BY <1>1, <1>6, <1>9, RecordKeptElsewhere DEF Typed, Settled
<1>10. LeftOnRecord(w)'
  BY <1>1, <1>7, <1>8, <1>9 DEF LeftOnRecord, Accounted
<1>11. AnnouncedOnRecord(w)'
  <2>1. CleanedUpOnRecord(w, n)' /\ \A m : CleanedUpOnRecord(w, m) => CleanedUpOnRecord(w, m)'
    BY <1>5, <1>6 DEF CleanedUpOnRecord
  <2> QED
    BY <1>5, <1>6, <1>7, <2>1 DEF AnnouncedOnRecord, Accounted
<1> QED
  BY <1>7, <1>10, <1>11

\* The report of a failure is about the container in hand, and hands what is
\* left to the rollback.
LEMMA ReportAccounted ==
    ASSUME Typed, NEW w \in Workers, kind[w] \in CreateKinds, Own(w), Accounted(w), Report(w)
    PROVE  RollingBack(w)' /\ LeftOnRecord(w)' /\ AnnouncedOnRecord(w)'
<1>1. PICK n \in Names : n = item[w]
  BY DEF Report, Typed, Shape, WellFormed, NamedSteps
<1>2. /\ step[w] = "report" /\ step'[w] = "cleanup" /\ undo[w] = {}
      /\ UNCHANGED <<instance, maker, kind, created, made, failed>>
      /\ undo'[w] = StillToUndo(w) /\ item'[w] \in {n, NoName}
      /\ failed[w] # "sshport" => item'[w] = NoName
  BY <1>1 DEF Report, Go, section, world, Typed, TypeOK, Accounted, RollingBack
<1>3. PICK action \in {"ssh", "create"}, result \in AuditResults("failure", client[w]) :
        log' = [log EXCEPT ![w] = @ \cup {Event(action, n, result)}]
  BY <1>1, ReportWrites
<1> DEFINE e == Event(action, n, result)
<1>4. log'[w] = log[w] \cup {e}
  BY <1>3 DEF Typed, TypeOK
<1>5. e.action # "create" \/ e.result # "success"
  BY EventIsAbout DEF AuditResults
<1> HIDE DEF e
<1>6. /\ RollingBack(w)' /\ ToDelete(w) \subseteq ToDelete(w)'
      /\ \A m \in Ahead(w) \ Ahead(w)' : RolledBackByClient(w, m)'
  BY <1>1, <1>2 DEF Accounted, RollingBack, Reported, ToDelete, Ahead, StillToUndo, RolledBackByClient
<1>7. \A m : RolledBackByClient(w, m)' \/ OnRecord(w, m) => OnRecord(w, m)'
  <2>1. \A m : OnRecord(w, m) => OnRecord(w, m)'
    BY <1>2, <1>4, RecordKept DEF Settled
  <2> QED
    BY <2>1 DEF OnRecord
<1>8. LeftOnRecord(w)'
  BY <1>2, <1>6, <1>7 DEF LeftOnRecord, Accounted
<1>9. AnnouncedOnRecord(w)'
  <2>1. \A m : CleanedUpOnRecord(w, m) => CleanedUpOnRecord(w, m)'
    BY <1>4 DEF CleanedUpOnRecord
  <2> QED
    BY <1>4, <1>5, <1>6, <2>1 DEF AnnouncedOnRecord, Accounted
<1> QED
  BY <1>6, <1>8, <1>9

\* The steps of a create keep its account.
LEMMA CreateAccounted ==
    ASSUME Typed, NEW w \in Workers, kind[w] \in CreateKinds, Own(w), Accounted(w), CreateStep(w)
    PROVE  RollingBack(w)' /\ LeftOnRecord(w)' /\ AnnouncedOnRecord(w)'
<1> USE DEF Typed, TypeOK, Shape, WellFormed, NamedSteps, Accounted, RollingBack
<1> USE DEF Reported, ToDelete, Ahead, StillToUndo
<1>1. CASE InitInstance(w)
  <2>1. item[w] \in Names /\ step[w] = "init" /\ failed[w] = "idle"
        /\ UNCHANGED <<kind, item, created, undo, log>>
    BY <1>1 DEF InitInstance, section
  <2>2. PICK r \in CommandResults("init", instance[item[w]], ctx[w]) :
          /\ Runtime(item[w], "init", r.state)
          /\ made' = IF r.state = instance[item[w]] THEN made
                     ELSE [made EXCEPT ![w] = @ \cup {item[w]}]
          /\ IF r.err THEN Fail(w, "init", "report") ELSE Go(w, "configure")
    BY <1>1 DEF InitInstance
  <2>3. \/ step'[w] = "report" /\ failed'[w] = "init"
        \/ step'[w] = "configure" /\ failed'[w] = "idle"
    BY <2>1, <2>2 DEF Go, Fail
  <2>4. RollingBack(w)' /\ Ahead(w)' = Ahead(w) /\ ToDelete(w)' = ToDelete(w)
    BY <2>1, <2>3
  <2>5. \A m \in made'[w] \ {item[w]} : m \in made[w] /\ m \in Names
    BY <2>1, <2>2
  <2>6. LeftOnRecord(w)'
    BY <2>1, <2>2, <2>4, <2>5, RecordKeptElsewhere DEF LeftOnRecord, Settled
  <2>7. AnnouncedOnRecord(w)'
    BY <2>1, <2>4 DEF AnnouncedOnRecord, CleanedUpOnRecord
  <2> QED
    BY <2>4, <2>6, <2>7
<1>2. CASE Configure(w)
  <2>1. UNCHANGED <<instance, maker, made, log>> /\ Settled(w) /\ RollingBack(w)'
        /\ Ahead(w) \subseteq Ahead(w)' /\ ToDelete(w) \subseteq ToDelete(w)'
    BY <1>2 DEF Settled, Configure, Go, Fail, section, batch, world
  <2> QED
    BY <2>1, QuietStep
<1>3. CASE Launch(w)
  <2>1. item[w] \in Names /\ step[w] = "launch" /\ failed[w] = "idle"
        /\ UNCHANGED <<kind, item, created, undo, made, log>>
    BY <1>3 DEF Launch, section, batch
  <2>2. PICK r \in CommandResults("start", instance[item[w]], ctx[w]) :
          /\ Runtime(item[w], "start", r.state)
          /\ IF r.err THEN Fail(w, "launch", "unwind") ELSE Go(w, "wait")
    BY <1>3 DEF Launch
  <2>3. \/ step'[w] = "unwind" /\ failed'[w] = "launch"
        \/ step'[w] = "wait" /\ failed'[w] = "idle"
    BY <2>1, <2>2 DEF Go, Fail
  <2>4. RollingBack(w)' /\ Ahead(w)' = Ahead(w) /\ ToDelete(w)' = ToDelete(w)
    BY <2>1, <2>3
  <2>5. LeftOnRecord(w)'
    BY <2>1, <2>2, <2>4, RecordKeptElsewhere DEF LeftOnRecord, Settled
  <2>6. AnnouncedOnRecord(w)'
    BY <2>1, <2>4 DEF AnnouncedOnRecord, CleanedUpOnRecord
  <2> QED
    BY <2>4, <2>5, <2>6
<1>4. CASE Unwind(w)
  <2>1. item[w] \in Names /\ step[w] = "unwind" /\ step'[w] = "report"
        /\ UNCHANGED <<kind, item, created, undo, made, failed, log>>
    BY <1>4 DEF Unwind, Go, section, batch
  <2>2. PICK r \in CommandResults("delete", instance[item[w]], "live") :
          Runtime(item[w], "delete", r.state)
    BY <1>4 DEF Unwind
  <2>3. RollingBack(w)' /\ Ahead(w)' = Ahead(w) /\ ToDelete(w)' = ToDelete(w)
    BY <2>1
  <2>4. LeftOnRecord(w)'
    BY <2>1, <2>2, <2>3, RecordKeptElsewhere DEF LeftOnRecord, Settled
  <2>5. AnnouncedOnRecord(w)'
    BY <2>1, <2>3 DEF AnnouncedOnRecord, CleanedUpOnRecord
  <2> QED
    BY <2>3, <2>4, <2>5
<1>5. CASE HaveAddress(w)
  <2>1. UNCHANGED <<instance, maker, made, log>> /\ Settled(w) /\ RollingBack(w)'
        /\ Ahead(w) \subseteq Ahead(w)' /\ ToDelete(w) \subseteq ToDelete(w)'
    BY <1>5 DEF Settled, HaveAddress, Go, section, batch, world
  <2> QED
    BY <2>1, QuietStep
<1>6. CASE NoAddress(w)
  <2>1. UNCHANGED <<instance, maker, made, log>> /\ Settled(w) /\ RollingBack(w)'
        /\ Ahead(w) \subseteq Ahead(w)' /\ ToDelete(w) \subseteq ToDelete(w)'
    BY <1>6, DistinctNoName DEF Settled, NoAddress, Fail, section, world
  <2> QED
    BY <2>1, QuietStep
<1>7. CASE InstallKey(w)
  <2>1. UNCHANGED <<instance, maker, made, log>> /\ Settled(w) /\ RollingBack(w)'
        /\ Ahead(w) \subseteq Ahead(w)' /\ ToDelete(w) \subseteq ToDelete(w)'
    BY <1>7, DistinctNoName DEF Settled, InstallKey, Go, Fail, section, world
  <2> QED
    BY <2>1, QuietStep
<1>8. CASE Persist(w)
  <2>1. UNCHANGED <<instance, maker, made, log>> /\ Settled(w) /\ RollingBack(w)'
        /\ Ahead(w) \subseteq Ahead(w)' /\ ToDelete(w) \subseteq ToDelete(w)'
    BY <1>8, DistinctNoName DEF Settled, Persist, Go, Fail, section
  <2> QED
    BY <2>1, QuietStep
<1>9. CASE Created(w)
  <2>1. /\ item[w] \in Names /\ step[w] = "created" /\ failed[w] = "idle"
        /\ UNCHANGED <<instance, maker, kind, undo, made, failed>>
    BY <1>9 DEF Created, Complete, Go, section, world
  <2>2. PICK result \in AuditResults("success", client[w]) :
          log' = [log EXCEPT ![w] = @ \cup {Event("create", item[w], result)}]
    BY <1>9 DEF Created
  <2>3. /\ RollingBack(w)' /\ Ahead(w) \subseteq Ahead(w)'
        /\ ToDelete(w) \cup {item[w]} \subseteq ToDelete(w)'
    BY <1>9, <2>1 DEF Created, Complete, Go
  <2>4. LeftOnRecord(w)'
    BY <2>1, <2>2, <2>3, RecordKept DEF LeftOnRecord, Settled
  <2>5. AnnouncedOnRecord(w)'
    BY <2>2, <2>3 DEF AnnouncedOnRecord, CleanedUpOnRecord, Event
  <2> QED
    BY <2>3, <2>4, <2>5
<1>10. CASE AllocateSSH(w)
  <2>1. UNCHANGED <<instance, maker, made, log>> /\ Settled(w) /\ RollingBack(w)'
        /\ Ahead(w) \subseteq Ahead(w)' /\ ToDelete(w) \subseteq ToDelete(w)'
    BY <1>10 DEF Settled, AllocateSSH, Complete, Go, Fail, section, world
  <2> QED
    BY <2>1, QuietStep
<1>11. CASE Cleanup(w)
  BY <1>11, CleanupAccounted
<1>12. CASE CleanedUp(w)
  <2>1. UNCHANGED <<instance, maker, made, log>> /\ Settled(w) /\ RollingBack(w)'
        /\ Ahead(w) \subseteq Ahead(w)' /\ ToDelete(w) \subseteq ToDelete(w)'
    BY <1>12 DEF Settled, CleanedUp, Go, section, batch, world
  <2> QED
    BY <2>1, QuietStep
<1>13. CASE Report(w)
  BY <1>13, ReportAccounted
<1> QED
  BY <1>1, <1>2, <1>3, <1>4, <1>5, <1>6, <1>7, <1>8, <1>9, <1>10, <1>11, <1>12, <1>13 DEF CreateStep

-----------------------------------------------------------------------------
(* Every step.                                                             *)

\* A worker's events are its own.
LEMMA OthersKeepTheirLog ==
    ASSUME TypeOK, NEW w \in Workers, Work(w) \/ WaitBreaks(w), NEW v \in Workers \ {w}
    PROVE  log'[v] = log[v]
<1>1. CASE CreateStep(w)
  BY <1>1 DEF CreateStep, InitInstance, Configure, Launch, Unwind, HaveAddress, NoAddress, InstallKey,
     Persist, Created, AllocateSSH, Cleanup, CleanedUp, Report, TypeOK
<1>2. CASE ItemStep(w)
  BY <1>2 DEF ItemStep, CheckQuota, RunCommand, Started, WaitTimesOut, GiveUpWaiting, Record, Forget,
     Audit, TypeOK
<1>3. CASE TakeName(w) \/ NoNameLeft(w) \/ Unlock(w) \/ WaitBreaks(w)
  BY <1>3 DEF TakeName, NoNameLeft, Unlock, WaitBreaks, GiveUpWaiting, TypeOK
<1> QED
  BY <1>1, <1>2, <1>3 DEF Work

\* A step of an operation keeps its account.
LEMMA WorkAccounted ==
    ASSUME Typed, Safe, Audited, NEW w \in Workers, Work(w) \/ WaitBreaks(w)
    PROVE  Accounted(w)' /\ Resting(w)'
<1>1. kind[w] # "idle" /\ Accounted(w) /\ Own(w)
  BY WorkerIsBusy DEF Audited, Safe, Sound
<1>2. CASE Unlock(w)
  BY <1>2 DEF Unlock, Accounted, Resting, Typed, TypeOK
<1>3. CASE ~Unlock(w)
  <2>1. kind' = kind /\ Resting(w)'
    BY <1>1, <1>3, SectionKept DEF section, Resting
  <2>2. CASE kind[w] \notin CreateKinds
    BY <2>1, <2>2 DEF Accounted
  <2>3. CASE kind[w] \in CreateKinds /\ CreateStep(w)
    BY <1>1, <2>1, <2>3, CreateAccounted DEF Accounted
  <2>4. CASE kind[w] \in CreateKinds /\ TakeName(w)
    <3>1. /\ UNCHANGED <<instance, maker, made, undo, created, failed, log>>
          /\ step[w] = "next" /\ step'[w] = "init"
      <4>1. PICK n \in Names :
              /\ plan[w][n] # "none"
              /\ Go(w, CASE plan[w][n] = "create" -> "init"
                         [] plan[w][n] = "check"  -> "check"
                         [] OTHER                 -> "command")
        BY <2>4 DEF TakeName
      <4>2. plan[w][n] = "create"
        BY <2>4, <4>1 DEF Typed, Shape, WellFormed, PlansOf
      <4> QED
        BY <2>4, <4>1, <4>2 DEF TakeName, Go, world, batch, Typed, TypeOK
    <3>2. failed[w] = "idle" /\ undo[w] = {} /\ item[w] = NoName
      BY <1>1, <2>4, <3>1 DEF Accounted, RollingBack
    <3>3. /\ RollingBack(w)' /\ Ahead(w) \subseteq Ahead(w)' \cup {NoName}
          /\ ToDelete(w) \subseteq ToDelete(w)'
      BY <3>1, <3>2 DEF RollingBack, Reported, Ahead, ToDelete, StillToUndo
    <3>4. NoName \notin made[w]
      BY DistinctNoName DEF Typed, TypeOK
    <3>5. LeftOnRecord(w)' /\ AnnouncedOnRecord(w)'
      <4>1. \A m : OnRecord(w, m) => OnRecord(w, m)'
        BY <3>1, RecordKept DEF Settled
      <4> QED
        BY <1>1, <2>4, <3>1, <3>3, <3>4, <4>1 DEF Accounted, LeftOnRecord, AnnouncedOnRecord,
           CleanedUpOnRecord
    <3> QED
      BY <2>1, <3>3, <3>5 DEF Accounted
  <2>5. CASE kind[w] \in CreateKinds /\ NoNameLeft(w)
    <3>1. /\ UNCHANGED <<instance, maker, made, undo, created, failed, item, log>>
          /\ step[w] = "next" /\ step'[w] = "done"
      BY <2>5 DEF NoNameLeft, Go, world, batch, Typed, TypeOK
    <3>2. failed[w] = "idle" /\ undo[w] = {}
      BY <1>1, <2>5, <3>1 DEF Accounted, RollingBack
    <3>3. RollingBack(w)' /\ Ahead(w)' = Ahead(w) /\ ToDelete(w)' = ToDelete(w)
      BY <3>1, <3>2 DEF RollingBack, Reported, Ahead, ToDelete, StillToUndo
    <3>4. LeftOnRecord(w)' /\ AnnouncedOnRecord(w)'
      BY <1>1, <2>5, <3>1, <3>3, QuietStep DEF Accounted, Settled
    <3> QED
      BY <2>1, <3>3, <3>4 DEF Accounted
  <2>6. CASE kind[w] \in CreateKinds /\ (ItemStep(w) \/ WaitBreaks(w))
    <3>1. kind[w] \in ItemKinds
      BY <2>6 DEF ItemStep, CheckQuota, RunCommand, Started, WaitTimesOut, WaitBreaks, GiveUpWaiting,
         Record, Forget, Audit, Typed, Shape, WellFormed
    <3> QED
      BY <2>6, <3>1
  <2> QED
    BY <1>3, <2>2, <2>3, <2>4, <2>5, <2>6 DEF Work
<1> QED
  BY <1>2, <1>3

\* An operation begins with nothing made and nothing on record.
LEMMA BeginAccounted ==
    ASSUME Typed, Safe, Audited, NEW w \in Workers, NEW k \in Kinds \ {"idle"},
           NEW p \in [Names -> PlansOf(k)], Begun(w, k, p)
    PROVE  Audited'
<1> USE DEF Begun, Lock
<1>1. \A v \in Workers : kind[v] = "idle" /\ item[v] = NoName /\ log[v] = {} /\ Clean(v)
  BY DistinctNoOne DEF Safe, Sound, MutationsAreSerialised, Audited, Resting
<1>2. /\ step'[w] = "next" /\ \A v \in Workers \ {w} : kind'[v] = "idle"
      /\ UNCHANGED <<created, undo, made, item, failed, log>>
  BY <1>1 DEF Typed, TypeOK, batch
<1>3. made[w] = {} /\ undo[w] = {} /\ failed[w] = "idle"
  BY <1>1 DEF Clean
<1>4. Accounted(w)' /\ \A v \in Workers \ {w} : Accounted(v)'
  BY <1>1, <1>2, <1>3 DEF Accounted, RollingBack, LeftOnRecord, AnnouncedOnRecord
<1>5. \A v \in Workers : Resting(v)'
  BY <1>1, <1>2 DEF Resting
<1> QED
  BY <1>4, <1>5 DEF Audited

\* What happens around Natbox, and the death of the process, keep the account:
\* an instance that the operator makes is not one that Natbox left.
LEMMA EnvironmentAccounted ==
    ASSUME Typed, Safe, Audited, RowChange \/ Disturbance \/ CalmDown
    PROVE  Audited'
<1>1. CASE Crash
  BY <1>1 DEF Crash, Audited, Accounted, Resting
<1>2. CASE ~Crash
  <2>1. UNCHANGED <<kind, step, item, created, undo, made, failed, log>>
    BY <1>2 DEF RowChange, RestoreBackup, UpdatePolicy, Disturbance, Operator, Address, ReachLimit,
       HangUp, CalmDown, section, batch
  <2>2. \A m \in Names : Present(m)' /\ maker'[m] = "natbox" => Present(m) /\ maker[m] = "natbox"
    <3>1. CASE \E n \in Names : Operator(n)
      BY <3>1 DEF Operator, Present, Typed, TypeOK
    <3>2. CASE \E n \in Names : Address(n)
      BY <3>2 DEF Address, Present, Typed, TypeOK
    <3>3. CASE UNCHANGED <<instance, maker>>
      BY <3>3 DEF Present
    <3>4. UNCHANGED <<instance, maker>> \/ \E n \in Names : Operator(n) \/ Address(n)
      BY <1>2 DEF RowChange, RestoreBackup, UpdatePolicy, Disturbance, ReachLimit, HangUp, CalmDown, world
    <3> QED
      BY <3>1, <3>2, <3>3, <3>4
  <2>3. ASSUME NEW w \in Workers PROVE Accounted(w)' /\ Resting(w)'
    <3>1. Resting(w)'
      BY <2>1 DEF Audited, Resting
    <3>2. /\ RollingBack(w) => RollingBack(w)'
          /\ Ahead(w)' = Ahead(w) /\ ToDelete(w)' = ToDelete(w)
      BY <2>1 DEF RollingBack, Ahead, ToDelete, Reported, StillToUndo
    <3>3. \A m \in Names : OnRecord(w, m) => OnRecord(w, m)'
      BY <2>1, <2>2 DEF OnRecord, RolledBackByClient
    <3>4. made[w] \subseteq Names
      BY DEF Typed, TypeOK
    <3>5. LeftOnRecord(w) => LeftOnRecord(w)'
      BY <2>1, <3>2, <3>3, <3>4 DEF LeftOnRecord
    <3>6. AnnouncedOnRecord(w) => AnnouncedOnRecord(w)'
      BY <2>1, <3>2 DEF AnnouncedOnRecord, CleanedUpOnRecord
    <3> QED
      BY <2>1, <3>1, <3>2, <3>5, <3>6 DEF Audited, Accounted
  <2> QED
    BY <2>3 DEF Audited
<1> QED
  BY <1>1, <1>2

\* Every step keeps the account of every worker.
LEMMA AuditedStep == Typed /\ Safe /\ Audited /\ [Next]_vars => Audited'
<1> SUFFICES ASSUME Typed, Safe, Audited, [Next]_vars PROVE Audited'
  OBVIOUS
<1>1. CASE CreateBegins \/ RequestBegins \/ BeginRepair(RepairLoop) \/ BeginPolicy
  BY <1>1, BeginsLock, BeginAccounted DEF SomeBegun
<1>2. CASE RowChange \/ Disturbance \/ CalmDown
  BY <1>2, EnvironmentAccounted
<1>3. ASSUME NEW w \in Workers, Work(w) \/ WaitBreaks(w) PROVE Audited'
  <2>1. Accounted(w)' /\ Resting(w)'
    BY <1>3, WorkAccounted
  <2>2. ASSUME NEW v \in Workers \ {w} PROVE Accounted(v)' /\ Resting(v)'
    <3>1. kind[v] = "idle" /\ kind'[v] = "idle" /\ item'[v] = item[v] /\ log'[v] = log[v]
      BY <1>3, Alone, WorkerIsBusy, OthersKeepTheirPlace, OthersKeepTheirLog DEF Safe, Typed
    <3> QED
      BY <3>1 DEF Audited, Accounted, Resting
  <2> QED
    BY <2>1, <2>2 DEF Audited
<1>4. CASE UNCHANGED vars
  <2>1. UNCHANGED <<instance, maker, kind, step, item, created, undo, made, failed, log>>
    BY <1>4 DEF vars, world, batch, section
  <2> QED
    BY <2>1 DEF Audited, Accounted, Resting, RollingBack, LeftOnRecord, AnnouncedOnRecord, OnRecord,
       RolledBackByClient, CleanedUpOnRecord, Present, Ahead, ToDelete, Reported, StillToUndo
<1> QED
  BY <1>1, <1>2, <1>3, <1>4 DEF Next

\* What a create made, and is neither working on nor about to delete, is gone,
\* or taken over by the operator, or on record as a cleanup that failed, or was
\* Client.Create's own to delete; and what it has announced as created it is
\* about to delete when it fails, or has deleted, on record.
THEOREM AlwaysAudited == Spec => [](Typed /\ Safe /\ Audited)
<1>1. Init => Audited
  BY DEF Init, Audited, Accounted, Resting
<1>2. Typed /\ Safe /\ Audited /\ [Next]_vars => Audited'
  BY AuditedStep
<1> QED
  BY AlwaysSafe, <1>1, <1>2, PTL DEF Spec

-----------------------------------------------------------------------------
(* What follows.                                                           *)

\* A create that has failed leaves no instance of its own behind without a
\* failure event of its cleanup, written or refused by the database, but for the
\* one container that Client.Create rolled back itself.
THEOREM CleanupFailuresRecorded == Spec => []CleanupFailuresAreRecorded
<1>1. Audited => CleanupFailuresAreRecorded
  <2> SUFFICES ASSUME Audited, NEW w \in Workers, kind[w] \in CreateKinds, step[w] = "done",
                      failed[w] # "idle", NEW n \in made[w]
               PROVE  OnRecord(w, n)
    BY DEF CleanupFailuresAreRecorded, OnRecord
  <2>1. Ahead(w) = {}
    BY DEF Audited, Accounted, RollingBack, Ahead
  <2> QED
    BY <2>1 DEF Audited, Accounted, LeftOnRecord
<1> QED
  BY AlwaysAudited, <1>1, PTL

\* What a failed batch announced as created, rollbackBulk has tried to delete,
\* and the audit log has that too.
THEOREM RollbackAudited == Spec => []RollbackIsAudited
<1>1. Audited => RollbackIsAudited
  <2> SUFFICES ASSUME Audited, NEW w \in Workers, kind[w] \in CreateKinds, step[w] = "done",
                      failed[w] # "idle", NEW e \in log[w], e.action = "create", e.result = "success"
               PROVE  CleanedUpOnRecord(w, e.name)
    BY DEF RollbackIsAudited, CleanedUpOnRecord
  <2>1. ToDelete(w) = {}
    BY DEF Audited, Accounted, RollingBack, ToDelete
  <2> QED
    BY <2>1 DEF Audited, Accounted, AnnouncedOnRecord
<1> QED
  BY AlwaysAudited, <1>1, PTL

-----------------------------------------------------------------------------
(* What is reported as a success.                                          *)

\* SuccessesAreTrue, worker by worker.
Truthful(w) ==
    step[w] = "audit" /\ failed[w] = "idle" =>
        LET n == item[w]
            cmd == plan[w][n]
        IN
        IF cmd = "delete"
        THEN ~Managed(n) /\ (Present(n) => n \in disturbed)
        ELSE /\ Managed(n) /\ (RecordErrorFails(kind[w]) \/ n \notin disturbed) =>
                    managed[n] = Desired(cmd)
             /\ n \notin disturbed => (Up(n) <=> cmd # "stop")

\* Only the row is between a command and the report of a success.
LEMMA SuccessFollowsRow ==
    ASSUME Typed, Safe, NEW w \in Workers, Work(w) \/ WaitBreaks(w),
           step'[w] = "audit", failed'[w] = "idle"
    PROVE  Record(w) \/ Forget(w)
<1> USE DEF Typed, TypeOK
<1>1. CASE CreateStep(w)
  <2>1. CASE InitInstance(w) \/ Configure(w) \/ Launch(w) \/ Unwind(w)
    BY <2>1 DEF InitInstance, Configure, Launch, Unwind, Go, Fail
  <2>2. CASE HaveAddress(w) \/ NoAddress(w) \/ InstallKey(w) \/ Persist(w)
    BY <2>2 DEF HaveAddress, NoAddress, InstallKey, Persist, Go, Fail
  <2>3. CASE Created(w) \/ AllocateSSH(w)
    BY <2>3 DEF Created, AllocateSSH, Complete, Go, Fail
  <2>4. CASE Cleanup(w) \/ CleanedUp(w) \/ Report(w)
    BY <2>4 DEF Cleanup, CleanedUp, Report, Go
  <2> QED
    BY <1>1, <2>1, <2>2, <2>3, <2>4 DEF CreateStep
<1>2. CASE ItemStep(w)
  <2>1. CASE CheckQuota(w)
    BY <2>1 DEF CheckQuota, Go
  <2>2. CASE RunCommand(w)
    <3>1. PICK r \in CommandResults(plan[w][item[w]], instance[item[w]], ctx[w]) :
             IF r.err THEN Fail(w, "command", "audit") ELSE Go(w, AfterCommand(plan[w][item[w]]))
      BY <2>2 DEF RunCommand
    <3>2. AfterCommand(plan[w][item[w]]) # "audit"
      BY DEF AfterCommand
    <3> QED
      BY <3>1, <3>2 DEF Go, Fail
  <2>3. CASE Started(w) \/ WaitTimesOut(w) \/ Audit(w)
    BY <2>3 DEF Started, WaitTimesOut, GiveUpWaiting, Audit, Go, Fail
  <2> QED
    BY <1>2, <2>1, <2>2, <2>3 DEF ItemStep
<1>3. CASE TakeName(w) \/ NoNameLeft(w) \/ Unlock(w) \/ WaitBreaks(w)
  BY <1>3 DEF TakeName, NoNameLeft, Unlock, WaitBreaks, GiveUpWaiting, Go, Fail
<1> QED
  BY <1>1, <1>2, <1>3 DEF Work

\* A success is true when it is about to be reported.
LEMMA SuccessIsTrue ==
    ASSUME Typed, Safe, NEW w \in Workers, Work(w) \/ WaitBreaks(w)
    PROVE  Truthful(w)'
<1> SUFFICES ASSUME step'[w] = "audit", failed'[w] = "idle" PROVE Truthful(w)'
  BY DEF Truthful
<1>1. PICK n \in Names : n = item[w]
  BY SuccessFollowsRow DEF Record, Forget, Typed, Shape, WellFormed, NamedSteps
<1>2. PICK cmd \in Commands : cmd = plan[w][n]
  BY <1>1, SuccessFollowsRow DEF Record, Forget, Typed, Shape, WellFormed, NamedSteps, PlansAt
<1>3. Achieved(w)
  BY DEF Safe, Sound
<1>4. CASE Record(w)
  <2>1. PICK r \in StatementResults(ctx[w]) :
          /\ managed' = IF r.err \/ ~Managed(n) THEN managed
                        ELSE [managed EXCEPT ![n] = Desired(cmd)]
          /\ disturbed' = IF r.err THEN disturbed \cup {n} ELSE disturbed
          /\ IF r.err /\ RecordErrorFails(kind[w]) THEN Fail(w, "record", "audit") ELSE Go(w, "audit")
    BY <1>1, <1>2, <1>4 DEF Record
  <2>2. UNCHANGED <<instance, kind, item, plan>> /\ step[w] = "record" /\ cmd # "delete"
    BY <1>1, <1>2, <1>4 DEF Record, section, Typed, Shape, WellFormed, NamedSteps, PlansAt
  <2>3. ~(r.err /\ RecordErrorFails(kind[w]))
    BY <2>1 DEF Fail, Typed, TypeOK
  <2>4. Managed(n)' /\ (RecordErrorFails(kind[w]) \/ n \notin disturbed') =>
          managed'[n] = Desired(cmd)
    BY <2>1, <2>3, StatementsTyped DEF Managed, Typed, TypeOK
  <2>5. n \notin disturbed' => (Up(n)' <=> cmd # "stop")
    BY <1>1, <1>2, <1>3, <2>1, <2>2 DEF Achieved, Up
  <2> QED
    BY <1>1, <1>2, <2>2, <2>4, <2>5 DEF Truthful, RecordErrorFails
<1>5. CASE Forget(w)
  <2>1. PICK r \in StatementResults(ctx[w]) :
          /\ managed' = IF r.err THEN managed ELSE [managed EXCEPT ![n] = "none"]
          /\ IF r.err THEN Fail(w, "forget", "audit") ELSE Go(w, "audit")
    BY <1>1, <1>5 DEF Forget
  <2>2. UNCHANGED <<instance, disturbed, item, plan>> /\ step[w] = "forget" /\ cmd = "delete"
    BY <1>1, <1>2, <1>5 DEF Forget, Typed, Shape, WellFormed, NamedSteps, PlansAt
  <2>3. ~r.err
    BY <2>1 DEF Fail, Typed, TypeOK
  <2>4. ~Managed(n)'
    BY <2>1, <2>3 DEF Managed, Typed, TypeOK
  <2>5. Present(n)' => n \in disturbed'
    BY <1>1, <1>3, <2>2 DEF Achieved, Present
  <2> QED
    BY <1>1, <1>2, <2>2, <2>4, <2>5 DEF Truthful
<1> QED
  BY <1>4, <1>5, SuccessFollowsRow

\* What happens around Natbox makes no report of a success untrue: the rows are
\* kept, and what the operator has touched is disturbed.
LEMMA EnvironmentIsTruthful ==
    ASSUME Typed, Safe, RowChange \/ Disturbance \/ CalmDown, NEW w \in Workers, Truthful(w)
    PROVE  Truthful(w)'
<1> SUFFICES ASSUME step'[w] = "audit", failed'[w] = "idle" PROVE Truthful(w)'
  BY DEF Truthful
<1>1. ~Crash
  BY DEF Crash
<1>2. UNCHANGED <<kind, step, item, plan, failed>>
  BY <1>1 DEF RowChange, RestoreBackup, UpdatePolicy, Disturbance, Operator, Address, ReachLimit,
     HangUp, CalmDown, section
<1>3. item[w] \in Names
  BY <1>2 DEF Typed, Shape, WellFormed, NamedSteps
<1>4. ~RowChange
  <2>1. kind[w] # "idle"
    BY <1>2 DEF Typed, Shape, WellFormed
  <2> QED
    BY <2>1, NobodyWorks DEF RowChange, RestoreBackup, UpdatePolicy, Safe
<1>5. managed' = managed /\ disturbed \subseteq disturbed'
  BY <1>1, <1>4 DEF Disturbance, Operator, Address, ReachLimit, HangUp, CalmDown, world
<1>6. item[w] \notin disturbed' =>
        (Up(item[w])' <=> Up(item[w])) /\ (Present(item[w])' <=> Present(item[w]))
  <2>1. CASE \E n \in Names : Operator(n)
    BY <1>3, <2>1 DEF Operator, Up, Present, Typed, TypeOK
  <2>2. CASE \E n \in Names : Address(n)
    BY <1>3, <2>2 DEF Address, Up, Present, Typed, TypeOK
  <2>3. CASE UNCHANGED instance
    BY <1>2, <2>3 DEF Up, Present
  <2>4. UNCHANGED instance \/ \E n \in Names : Operator(n) \/ Address(n)
    BY <1>1, <1>4 DEF Disturbance, ReachLimit, HangUp, CalmDown, world
  <2> QED
    BY <2>1, <2>2, <2>3, <2>4
<1> QED
  BY <1>2, <1>5, <1>6 DEF Truthful, Managed

\* Every step keeps the reports true.
LEMMA TruthfulStep ==
    ASSUME Typed, Safe, \A w \in Workers : Truthful(w), [Next]_vars, NEW w \in Workers
    PROVE  Truthful(w)'
<1>1. CASE CreateBegins \/ RequestBegins \/ BeginRepair(RepairLoop) \/ BeginPolicy
  <2>1. PICK v \in Workers, k \in Kinds \ {"idle"} : \E p \in [Names -> PlansOf(k)] : Begun(v, k, p)
    BY <1>1, BeginsLock DEF SomeBegun
  <2>2. step[w] = "idle"
    BY <2>1, NobodyWorks DEF Begun, Lock, Safe, Typed, Shape, WellFormed
  <2>3. step'[w] # "audit"
    BY <2>1, <2>2 DEF Begun, Lock, Typed, TypeOK
  <2> QED
    BY <2>3 DEF Truthful
<1>2. CASE RowChange \/ Disturbance \/ CalmDown
  BY <1>2, EnvironmentIsTruthful
<1>3. ASSUME NEW v \in Workers, Work(v) \/ WaitBreaks(v) PROVE Truthful(w)'
  <2>1. CASE v = w
    BY <1>3, <2>1, SuccessIsTrue
  <2>2. CASE v # w
    <3>1. step'[w] = "idle"
      BY <1>3, <2>2, Alone, WorkerIsBusy, OthersKeepTheirPlace DEF Safe
    <3> QED
      BY <3>1 DEF Truthful
  <2> QED
    BY <2>1, <2>2
<1>4. CASE UNCHANGED vars
  BY <1>4 DEF vars, world, section, Truthful, Managed, Present, Up
<1> QED
  BY <1>1, <1>2, <1>3, <1>4 DEF Next

\* A success that is about to be reported is true of the rows and, but for what
\* the operator has touched, of the runtime.
THEOREM SuccessesTrue == Spec => []SuccessesAreTrue
<1> DEFINE Honest == \A w \in Workers : Truthful(w)
<1>1. Init => Honest
  BY DEF Init, Truthful
<1>2. Typed /\ Safe /\ Honest /\ [Next]_vars => Honest'
  BY TruthfulStep
<1>3. Honest => SuccessesAreTrue
  BY DEF SuccessesAreTrue, Truthful
<1> HIDE DEF Honest
<1> QED
  BY AlwaysSafe, <1>1, <1>2, <1>3, PTL DEF Spec

=============================================================================

---------------------------- MODULE NatboxTyping ----------------------------
(***************************************************************************)
(* What holds of the service for any sets of names and requests and any    *)
(* combination of faults.                                                  *)
(***************************************************************************)
EXTENDS Natbox, TLAPS

-----------------------------------------------------------------------------
(* The shape of an operation: where a worker can be, given what it does.   *)

\* The steps at which an operation has a name in hand.
NamedSteps == (CreateSteps \ {"cleanup"}) \cup ItemSteps \cup {"wait"}

PlansOf(k) ==
    CASE k \in CreateKinds -> {"none", "create"}
      [] k \in ActionKinds -> {"none"} \cup Commands
      [] k \in RepairKinds -> {"none", "start", "stop"}
      [] k = "policy"      -> {"none", "check", "stop"}
      [] OTHER             -> {"none"}

\* The plan that brings an item to each step.
PlansAt(s) ==
    CASE s = "check"   -> {"check"}
      [] s = "command" -> Commands
      [] s = "record"  -> {"start", "restart", "stop"}
      [] s = "forget"  -> {"delete"}
      [] OTHER         -> Plans

WellFormed(w) ==
    /\ kind[w] = "idle" <=> step[w] = "idle"
    /\ step[w] \in CreateSteps => kind[w] \in CreateKinds
    /\ step[w] \in ItemSteps => kind[w] \in ItemKinds
    /\ step[w] \in NamedSteps => item[w] \in Names
    /\ step[w] \in NamedSteps => plan[w][item[w]] \in PlansAt(step[w])
    /\ step[w] = "wait" /\ kind[w] \in ItemKinds => plan[w][item[w]] \in {"start", "restart"}
    /\ \A n \in Names : plan[w][n] \in PlansOf(kind[w])

Shape == \A w \in Workers : WellFormed(w)

Typed == TypeOK /\ Shape

\* The definitions that spell out kinds, steps and plans.
USE DEF CreateKinds, ActionKinds, RepairKinds, ItemKinds, CreateSteps, ItemSteps, Commands

\* A command leaves an instance in a known state, under a known context.
LEMMA ResultsTyped ==
    ASSUME NEW cmd, NEW s, NEW c, NEW r \in CommandResults(cmd, s, c)
    PROVE  r.state \in InstanceStates /\ r.err \in BOOLEAN /\ r.ctx \in Contexts
BY DEF CommandResults

\* So does a statement.
LEMMA StatementsTyped ==
    ASSUME NEW c, NEW r \in StatementResults(c)
    PROVE  r.err \in BOOLEAN /\ r.ctx \in Contexts
BY DEF StatementResults

\* What a command writes about its instance is typed.
LEMMA RuntimeTyped ==
    ASSUME TypeOK, NEW n \in Names, NEW cmd, NEW s \in InstanceStates, Runtime(n, cmd, s)
    PROVE  /\ instance' \in [Names -> InstanceStates]
           /\ maker' \in [Names -> Makers]
           /\ limit' \in [Names -> Limits]
BY DEF TypeOK, Runtime, Limits, Makers

\* A worker that goes on is at a known step.
LEMMA GoTyped ==
    ASSUME TypeOK, NEW w \in Workers, NEW s \in Steps, Go(w, s)
    PROVE  step' \in [Workers -> Steps] /\ failed' \in [Workers -> Steps]
BY DEF TypeOK, Go

\* And so is one that fails.
LEMMA FailTyped ==
    ASSUME TypeOK, NEW w \in Workers, NEW at \in Steps, NEW s \in Steps, Fail(w, at, s)
    PROVE  step' \in [Workers -> Steps] /\ failed' \in [Workers -> Steps]
BY DEF TypeOK, Fail

\* What AuditResults makes of a result is an audit event.
LEMMA EventTyped ==
    ASSUME NEW action \in {"create", "cleanup", "ssh", "item"}, NEW n \in Names,
           NEW result \in {"success", "failure"}, NEW connected \in BOOLEAN,
           NEW written \in AuditResults(result, connected)
    PROVE  Event(action, n, written) \in Events
BY DEF AuditResults, Event, Events, Results

\* Adding a name to a worker's set of names.
LEMMA AddTyped ==
    ASSUME NEW f \in [Workers -> SUBSET Names], NEW w \in Workers, NEW n \in Names
    PROVE  [f EXCEPT ![w] = @ \cup {n}] \in [Workers -> SUBSET Names]
OBVIOUS

\* Adding an event to a worker's log.
LEMMA AddEventTyped ==
    ASSUME NEW f \in [Workers -> SUBSET Events], NEW w \in Workers, NEW e \in Events
    PROVE  [f EXCEPT ![w] = @ \cup {e}] \in [Workers -> SUBSET Events]
OBVIOUS

\* Changing what a worker plans for a name.
LEMMA PlanTyped ==
    ASSUME NEW f \in [Workers -> [Names -> Plans]], NEW w \in Workers, NEW n \in Names, NEW p \in Plans
    PROVE  [f EXCEPT ![w][n] = p] \in [Workers -> [Names -> Plans]]
OBVIOUS

\* Each step of a create keeps types and shape: init first,
LEMMA InitInstanceTyped ==
    ASSUME Typed, NEW w \in Workers, InitInstance(w) PROVE Typed'
<1> USE DEF Typed, InitInstance
<1>1. item[w] \in Names \cup {NoName} /\ (step[w] \in NamedSteps => item[w] \in Names)
  BY DEF Shape, WellFormed, TypeOK
<1>2. /\ instance' \in [Names -> InstanceStates]
     /\ maker' \in [Names -> Makers]
     /\ limit' \in [Names -> Limits]
  BY <1>1, ResultsTyped, RuntimeTyped DEF NamedSteps, TypeOK
<1>3. ctx' \in [Workers -> Contexts]
  BY <1>1, ResultsTyped DEF TypeOK, Contexts
<1>4. made' \in [Workers -> SUBSET Names]
  BY <1>1 DEF TypeOK, NamedSteps
<1>5. disturbed' \in SUBSET Names
  BY <1>1, ResultsTyped DEF TypeOK, NamedSteps
<1>6. step' \in [Workers -> Steps] /\ failed' \in [Workers -> Steps]
  BY <1>1, GoTyped, FailTyped DEF Steps, TypeOK
<1>7. TypeOK'
  BY <1>2, <1>3, <1>4, <1>5, <1>6 DEF TypeOK, world, batch, section
<1>8. Shape'
  BY <1>1, <1>7 DEF Shape, TypeOK, Go, Fail, section, Plans, WellFormed, NamedSteps, PlansAt, PlansOf, Kinds
<1> QED
  BY <1>7, <1>8

\* the root disk and boot.autostart,
LEMMA ConfigureTyped ==
    ASSUME Typed, NEW w \in Workers, Configure(w) PROVE Typed'
<1> USE DEF Typed, Configure
<1>1. item[w] \in Names \cup {NoName} /\ (step[w] \in NamedSteps => item[w] \in Names)
  BY DEF Shape, WellFormed, TypeOK
<1>2. ctx' \in [Workers -> Contexts]
  BY <1>1, ResultsTyped DEF TypeOK, Contexts
<1>3. step' \in [Workers -> Steps] /\ failed' \in [Workers -> Steps]
  BY <1>1, GoTyped, FailTyped DEF Steps, TypeOK
<1>4. TypeOK'
  BY <1>2, <1>3 DEF TypeOK, world, batch, section
<1>5. Shape'
  BY <1>1, <1>4 DEF Shape, TypeOK, Go, Fail, section, Plans, WellFormed, NamedSteps, PlansAt, PlansOf, Kinds
<1> QED
  BY <1>4, <1>5

\* start,
LEMMA LaunchTyped ==
    ASSUME Typed, NEW w \in Workers, Launch(w) PROVE Typed'
<1> USE DEF Typed, Launch
<1>1. item[w] \in Names \cup {NoName} /\ (step[w] \in NamedSteps => item[w] \in Names)
  BY DEF Shape, WellFormed, TypeOK
<1>2. /\ instance' \in [Names -> InstanceStates]
     /\ maker' \in [Names -> Makers]
     /\ limit' \in [Names -> Limits]
  BY <1>1, ResultsTyped, RuntimeTyped DEF NamedSteps, TypeOK
<1>3. ctx' \in [Workers -> Contexts]
  BY <1>1, ResultsTyped DEF TypeOK, Contexts
<1>4. disturbed' \in SUBSET Names
  BY <1>1, ResultsTyped DEF TypeOK, NamedSteps
<1>5. step' \in [Workers -> Steps] /\ failed' \in [Workers -> Steps]
  BY <1>1, GoTyped, FailTyped DEF Steps, TypeOK
<1>6. TypeOK'
  BY <1>2, <1>3, <1>4, <1>5 DEF TypeOK, world, batch, section
<1>7. Shape'
  BY <1>1, <1>6 DEF Shape, TypeOK, Go, Fail, section, Plans, WellFormed, NamedSteps, PlansAt, PlansOf, Kinds
<1> QED
  BY <1>6, <1>7

\* the rollback of Client.Create,
LEMMA UnwindTyped ==
    ASSUME Typed, NEW w \in Workers, Unwind(w) PROVE Typed'
<1> USE DEF Typed, Unwind
<1>1. item[w] \in Names \cup {NoName} /\ (step[w] \in NamedSteps => item[w] \in Names)
  BY DEF Shape, WellFormed, TypeOK
<1>2. /\ instance' \in [Names -> InstanceStates]
     /\ maker' \in [Names -> Makers]
     /\ limit' \in [Names -> Limits]
  BY <1>1, ResultsTyped, RuntimeTyped DEF NamedSteps, TypeOK
<1>3. disturbed' \in SUBSET Names
  BY <1>1, ResultsTyped DEF TypeOK, NamedSteps
<1>4. step' \in [Workers -> Steps] /\ failed' \in [Workers -> Steps]
  BY <1>1, GoTyped, FailTyped DEF Steps, TypeOK
<1>5. TypeOK'
  BY <1>2, <1>3, <1>4 DEF TypeOK, world, batch, section
<1>6. Shape'
  BY <1>1, <1>5 DEF Shape, TypeOK, Go, Fail, section, Plans, WellFormed, NamedSteps, PlansAt, PlansOf, Kinds
<1> QED
  BY <1>5, <1>6

\* the address,
LEMMA HaveAddressTyped ==
    ASSUME Typed, NEW w \in Workers, HaveAddress(w) PROVE Typed'
<1> USE DEF Typed, HaveAddress
<1>1. item[w] \in Names \cup {NoName} /\ (step[w] \in NamedSteps => item[w] \in Names)
  BY DEF Shape, WellFormed, TypeOK
<1>2. step' \in [Workers -> Steps] /\ failed' \in [Workers -> Steps]
  BY <1>1, GoTyped, FailTyped DEF Steps, TypeOK
<1>3. TypeOK'
  BY <1>2 DEF TypeOK, world, batch, section
<1>4. Shape'
  BY <1>1, <1>3 DEF Shape, TypeOK, Go, Fail, section, Plans, WellFormed, NamedSteps, PlansAt, PlansOf, Kinds
<1> QED
  BY <1>3, <1>4

\* the address that does not come,
LEMMA NoAddressTyped ==
    ASSUME Typed, NEW w \in Workers, NoAddress(w) PROVE Typed'
<1> USE DEF Typed, NoAddress
<1>1. item[w] \in Names \cup {NoName} /\ (step[w] \in NamedSteps => item[w] \in Names)
  BY DEF Shape, WellFormed, TypeOK
<1>2. ctx' \in [Workers -> Contexts]
  BY <1>1 DEF TypeOK, Contexts
<1>3. undo' \in [Workers -> SUBSET Names]
  BY <1>1 DEF TypeOK, NamedSteps
<1>4. step' \in [Workers -> Steps] /\ failed' \in [Workers -> Steps]
  BY <1>1, GoTyped, FailTyped DEF Steps, TypeOK
<1>5. TypeOK'
  BY <1>2, <1>3, <1>4 DEF TypeOK, world, batch, section
<1>6. Shape'
  BY <1>1, <1>5 DEF Shape, TypeOK, Go, Fail, section, Plans, WellFormed, NamedSteps, PlansAt, PlansOf, Kinds
<1> QED
  BY <1>5, <1>6

\* the SSH key,
LEMMA InstallKeyTyped ==
    ASSUME Typed, NEW w \in Workers, InstallKey(w) PROVE Typed'
<1> USE DEF Typed, InstallKey
<1>1. item[w] \in Names \cup {NoName} /\ (step[w] \in NamedSteps => item[w] \in Names)
  BY DEF Shape, WellFormed, TypeOK
<1>2. ctx' \in [Workers -> Contexts]
  BY <1>1, ResultsTyped DEF TypeOK, Contexts
<1>3. undo' \in [Workers -> SUBSET Names]
  BY <1>1, ResultsTyped DEF TypeOK, NamedSteps
<1>4. step' \in [Workers -> Steps] /\ failed' \in [Workers -> Steps]
  BY <1>1, GoTyped, FailTyped DEF Steps, TypeOK
<1>5. TypeOK'
  BY <1>2, <1>3, <1>4 DEF TypeOK, world, batch, section
<1>6. Shape'
  BY <1>1, <1>5 DEF Shape, TypeOK, Go, Fail, section, Plans, WellFormed, NamedSteps, PlansAt, PlansOf, Kinds
<1> QED
  BY <1>5, <1>6

\* the row,
LEMMA PersistTyped ==
    ASSUME Typed, NEW w \in Workers, Persist(w) PROVE Typed'
<1> USE DEF Typed, Persist
<1>1. item[w] \in Names \cup {NoName} /\ (step[w] \in NamedSteps => item[w] \in Names)
  BY DEF Shape, WellFormed, TypeOK
<1>2. ctx' \in [Workers -> Contexts]
  BY <1>1, StatementsTyped DEF TypeOK, Contexts
<1>3. managed' \in [Names -> DesiredStates]
  BY <1>1, StatementsTyped DEF TypeOK, DesiredStates
<1>4. undo' \in [Workers -> SUBSET Names]
  BY <1>1, StatementsTyped DEF TypeOK, NamedSteps
<1>5. step' \in [Workers -> Steps] /\ failed' \in [Workers -> Steps]
  BY <1>1, GoTyped, FailTyped DEF Steps, TypeOK
<1>6. TypeOK'
  BY <1>2, <1>3, <1>4, <1>5 DEF TypeOK, world, batch, section
<1>7. Shape'
  BY <1>1, <1>6 DEF Shape, TypeOK, Go, Fail, section, Plans, WellFormed, NamedSteps, PlansAt, PlansOf, Kinds
<1> QED
  BY <1>6, <1>7

\* the audit of a created container,
LEMMA CreatedTyped ==
    ASSUME Typed, NEW w \in Workers, Created(w) PROVE Typed'
<1> USE DEF Typed, Created, Complete
<1>1. item[w] \in Names \cup {NoName} /\ (step[w] \in NamedSteps => item[w] \in Names)
  BY DEF Shape, WellFormed, TypeOK
<1>2. log' \in [Workers -> SUBSET Events]
  BY <1>1, EventTyped DEF TypeOK, NamedSteps
<1>3. plan' \in [Workers -> [Names -> Plans]]
  BY <1>1 DEF TypeOK, Plans
<1>4. created' \in [Workers -> SUBSET Names]
  <2>1. item[w] \in Names
    BY <1>1 DEF NamedSteps
  <2>2. created' = created \/ created' = [created EXCEPT ![w] = @ \cup {item[w]}]
    OBVIOUS
  <2>3. created \in [Workers -> SUBSET Names]
    BY DEF TypeOK
  <2> QED
    BY <2>1, <2>2, <2>3, AddTyped
<1>5. item' \in [Workers -> Names \cup {NoName}]
  BY <1>1 DEF TypeOK, NamedSteps
<1>6. step' \in [Workers -> Steps] /\ failed' \in [Workers -> Steps]
  BY <1>1, GoTyped, FailTyped DEF Steps, TypeOK
<1>7. TypeOK'
  BY <1>2, <1>3, <1>4, <1>5, <1>6 DEF TypeOK, world, batch, section
<1>8. Shape'
  BY <1>1, <1>7 DEF Shape, TypeOK, Go, Fail, section, Plans, WellFormed, NamedSteps, PlansAt, PlansOf, Kinds
<1> QED
  BY <1>7, <1>8

\* the SSH port,
LEMMA AllocateSSHTyped ==
    ASSUME Typed, NEW w \in Workers, AllocateSSH(w) PROVE Typed'
<1> USE DEF Typed, AllocateSSH, Complete
<1>1. item[w] \in Names \cup {NoName} /\ (step[w] \in NamedSteps => item[w] \in Names)
  BY DEF Shape, WellFormed, TypeOK
<1>2. ctx' \in [Workers -> Contexts]
  BY <1>1, ResultsTyped DEF TypeOK, Contexts
<1>3. created' \in [Workers -> SUBSET Names]
  <2>1. item[w] \in Names
    BY <1>1 DEF NamedSteps
  <2>2. created' = created \/ created' = [created EXCEPT ![w] = @ \cup {item[w]}]
    OBVIOUS
  <2>3. created \in [Workers -> SUBSET Names]
    BY DEF TypeOK
  <2> QED
    BY <2>1, <2>2, <2>3, AddTyped
<1>4. item' \in [Workers -> Names \cup {NoName}]
  BY <1>1, ResultsTyped DEF TypeOK, NamedSteps
<1>5. step' \in [Workers -> Steps] /\ failed' \in [Workers -> Steps]
  BY <1>1, GoTyped, FailTyped DEF Steps, TypeOK
<1>6. TypeOK'
  BY <1>2, <1>3, <1>4, <1>5 DEF TypeOK, world, batch, section
<1>7. Shape'
  BY <1>1, <1>6 DEF Shape, TypeOK, Go, Fail, section, Plans, WellFormed, NamedSteps, PlansAt, PlansOf, Kinds
<1> QED
  BY <1>6, <1>7

\* a deletion of the rollback,
LEMMA CleanupTyped ==
    ASSUME Typed, NEW w \in Workers, Cleanup(w) PROVE Typed'
<1> USE DEF Typed, Cleanup
<1>1. item[w] \in Names \cup {NoName} /\ (step[w] \in NamedSteps => item[w] \in Names)
  BY DEF Shape, WellFormed, TypeOK
<1>2. /\ instance' \in [Names -> InstanceStates]
     /\ maker' \in [Names -> Makers]
     /\ limit' \in [Names -> Limits]
  BY <1>1, ResultsTyped, RuntimeTyped DEF NamedSteps, TypeOK
<1>3. undo' \in [Workers -> SUBSET Names]
  BY <1>1, ResultsTyped DEF TypeOK, NamedSteps
<1>4. ctx' \in [Workers -> Contexts]
  BY <1>1, ResultsTyped DEF TypeOK, Contexts
<1>5. disturbed' \in SUBSET Names
  BY <1>1, ResultsTyped DEF TypeOK, NamedSteps
<1>6. log' \in [Workers -> SUBSET Events]
  <2>1. PICK n \in undo[w] : \E r \in CommandResults("delete", instance[n], ctx[w]) :
          \E result \in AuditResults(CleanupResult(r.err), TRUE) :
             log' = [log EXCEPT ![w] = @ \cup {Event("cleanup", n, result)}]
    OBVIOUS
  <2>2. PICK r \in CommandResults("delete", instance[n], ctx[w]) :
          \E result \in AuditResults(CleanupResult(r.err), TRUE) :
             log' = [log EXCEPT ![w] = @ \cup {Event("cleanup", n, result)}]
    BY <2>1
  <2>3. n \in Names
    BY DEF TypeOK
  <2>4. \E e \in Events : log' = [log EXCEPT ![w] = @ \cup {e}]
    BY <2>2, <2>3, EventTyped DEF CleanupResult
  <2> QED
    BY <2>4, AddEventTyped DEF TypeOK
<1>7. TypeOK'
  BY <1>2, <1>3, <1>4, <1>5, <1>6 DEF TypeOK, world, batch, section
<1>8. Shape'
  BY <1>1, <1>7 DEF Shape, TypeOK, Go, Fail, section, Plans, WellFormed, NamedSteps, PlansAt, PlansOf, Kinds
<1> QED
  BY <1>7, <1>8

\* its end,
LEMMA CleanedUpTyped ==
    ASSUME Typed, NEW w \in Workers, CleanedUp(w) PROVE Typed'
<1> USE DEF Typed, CleanedUp
<1>1. item[w] \in Names \cup {NoName} /\ (step[w] \in NamedSteps => item[w] \in Names)
  BY DEF Shape, WellFormed, TypeOK
<1>2. step' \in [Workers -> Steps] /\ failed' \in [Workers -> Steps]
  BY <1>1, GoTyped, FailTyped DEF Steps, TypeOK
<1>3. TypeOK'
  BY <1>2 DEF TypeOK, world, batch, section
<1>4. Shape'
  BY <1>1, <1>3 DEF Shape, TypeOK, Go, Fail, section, Plans, WellFormed, NamedSteps, PlansAt, PlansOf, Kinds
<1> QED
  BY <1>3, <1>4

\* and the audit of the failure.
LEMMA ReportTyped ==
    ASSUME Typed, NEW w \in Workers, Report(w) PROVE Typed'
<1> USE DEF Typed, Report, StillToUndo
<1>1. item[w] \in Names \cup {NoName} /\ (step[w] \in NamedSteps => item[w] \in Names)
  BY DEF Shape, WellFormed, TypeOK
<1>2. log' \in [Workers -> SUBSET Events]
  BY <1>1, EventTyped DEF TypeOK, NamedSteps
<1>3. undo' \in [Workers -> SUBSET Names]
  BY <1>1 DEF TypeOK, NamedSteps
<1>4. item' \in [Workers -> Names \cup {NoName}]
  BY <1>1 DEF TypeOK, NamedSteps
<1>5. step' \in [Workers -> Steps] /\ failed' \in [Workers -> Steps]
  BY <1>1, GoTyped, FailTyped DEF Steps, TypeOK
<1>6. TypeOK'
  BY <1>2, <1>3, <1>4, <1>5 DEF TypeOK, world, batch, section
<1>7. Shape'
  BY <1>1, <1>6 DEF Shape, TypeOK, Go, Fail, section, Plans, WellFormed, NamedSteps, PlansAt, PlansOf, Kinds
<1> QED
  BY <1>6, <1>7

\* Each step of an item keeps types and shape: the look at its counters,
LEMMA CheckQuotaTyped ==
    ASSUME Typed, NEW w \in Workers, CheckQuota(w) PROVE Typed'
<1> USE DEF Typed, CheckQuota
<1>1. item[w] \in Names \cup {NoName} /\ (step[w] \in NamedSteps => item[w] \in Names)
  BY DEF Shape, WellFormed, TypeOK
<1>2. ctx' \in [Workers -> Contexts]
  BY <1>1, ResultsTyped DEF TypeOK, Contexts
<1>3. plan' \in [Workers -> [Names -> Plans]]
  <2>1. item[w] \in Names
    BY <1>1 DEF NamedSteps
  <2>2. \E p \in Plans : plan' = [plan EXCEPT ![w][item[w]] = p]
    BY DEF Plans
  <2> QED
    BY <2>1, <2>2, PlanTyped DEF TypeOK
<1>4. item' \in [Workers -> Names \cup {NoName}]
  BY <1>1, ResultsTyped DEF TypeOK, NamedSteps
<1>5. step' \in [Workers -> Steps] /\ failed' \in [Workers -> Steps]
  BY <1>1, GoTyped, FailTyped DEF Steps, TypeOK
<1>6. TypeOK'
  BY <1>2, <1>3, <1>4, <1>5 DEF TypeOK, world, batch, section
<1>7. Shape'
  <2> DEFINE n == item[w]
  <2>1. n \in Names /\ plan[w][n] = "check" /\ kind[w] = "policy"
    BY <1>1 DEF NamedSteps, Shape, WellFormed, PlansAt, PlansOf
  <2>2. \/ plan' = [plan EXCEPT ![w][n] = "stop"] /\ Go(w, "command") /\ UNCHANGED item
        \/ /\ plan' = [plan EXCEPT ![w][n] = "none"]
           /\ item' = [item EXCEPT ![w] = NoName]
           /\ Go(w, "next")
    OBVIOUS
  <2>3. kind' = kind
    BY DEF section
  <2>4. CASE plan' = [plan EXCEPT ![w][n] = "stop"] /\ Go(w, "command") /\ UNCHANGED item
    BY <2>1, <2>3, <2>4 DEF Shape, TypeOK, Go, WellFormed, NamedSteps, PlansAt, PlansOf, Kinds
  <2>5. CASE /\ plan' = [plan EXCEPT ![w][n] = "none"]
             /\ item' = [item EXCEPT ![w] = NoName]
             /\ Go(w, "next")
    BY <2>1, <2>3, <2>5 DEF Shape, TypeOK, Go, WellFormed, NamedSteps, PlansAt, PlansOf, Kinds
  <2> QED
    BY <2>2, <2>4, <2>5
<1> QED
  BY <1>6, <1>7

\* the command,
LEMMA RunCommandTyped ==
    ASSUME Typed, NEW w \in Workers, RunCommand(w) PROVE Typed'
<1> USE DEF Typed, RunCommand, AfterCommand
<1>1. item[w] \in Names \cup {NoName} /\ (step[w] \in NamedSteps => item[w] \in Names)
  BY DEF Shape, WellFormed, TypeOK
<1>2. /\ instance' \in [Names -> InstanceStates]
     /\ maker' \in [Names -> Makers]
     /\ limit' \in [Names -> Limits]
  BY <1>1, ResultsTyped, RuntimeTyped DEF NamedSteps, TypeOK
<1>3. ctx' \in [Workers -> Contexts]
  BY <1>1, ResultsTyped DEF TypeOK, Contexts
<1>4. disturbed' \in SUBSET Names
  BY <1>1, ResultsTyped DEF TypeOK, NamedSteps
<1>5. step' \in [Workers -> Steps] /\ failed' \in [Workers -> Steps]
  BY <1>1, GoTyped, FailTyped DEF Steps, TypeOK
<1>6. TypeOK'
  BY <1>2, <1>3, <1>4, <1>5 DEF TypeOK, world, batch, section
<1>7. Shape'
  BY <1>1, <1>6 DEF Shape, TypeOK, Go, Fail, section, Plans, WellFormed, NamedSteps, PlansAt, PlansOf, Kinds
<1> QED
  BY <1>6, <1>7

\* the address,
LEMMA StartedTyped ==
    ASSUME Typed, NEW w \in Workers, Started(w) PROVE Typed'
<1> USE DEF Typed, Started
<1>1. item[w] \in Names \cup {NoName} /\ (step[w] \in NamedSteps => item[w] \in Names)
  BY DEF Shape, WellFormed, TypeOK
<1>2. step' \in [Workers -> Steps] /\ failed' \in [Workers -> Steps]
  BY <1>1, GoTyped, FailTyped DEF Steps, TypeOK
<1>3. TypeOK'
  BY <1>2 DEF TypeOK, world, batch, section
<1>4. Shape'
  BY <1>1, <1>3 DEF Shape, TypeOK, Go, Fail, section, Plans, WellFormed, NamedSteps, PlansAt, PlansOf, Kinds
<1> QED
  BY <1>3, <1>4

\* the deadline of the wait,
LEMMA WaitTimesOutTyped ==
    ASSUME Typed, NEW w \in Workers, WaitTimesOut(w) PROVE Typed'
<1> USE DEF Typed, WaitTimesOut, GiveUpWaiting
<1>1. item[w] \in Names \cup {NoName} /\ (step[w] \in NamedSteps => item[w] \in Names)
  BY DEF Shape, WellFormed, TypeOK
<1>2. ctx' \in [Workers -> Contexts]
  BY <1>1 DEF TypeOK, Contexts
<1>3. disturbed' \in SUBSET Names
  BY <1>1 DEF TypeOK, NamedSteps
<1>4. step' \in [Workers -> Steps] /\ failed' \in [Workers -> Steps]
  BY <1>1, GoTyped, FailTyped DEF Steps, TypeOK
<1>5. TypeOK'
  BY <1>2, <1>3, <1>4 DEF TypeOK, world, batch, section
<1>6. Shape'
  BY <1>1, <1>5 DEF Shape, TypeOK, Go, Fail, section, Plans, WellFormed, NamedSteps, PlansAt, PlansOf, Kinds
<1> QED
  BY <1>5, <1>6

\* the wait that fails,
LEMMA WaitBreaksTyped ==
    ASSUME Typed, NEW w \in Workers, WaitBreaks(w) PROVE Typed'
<1> USE DEF Typed, WaitBreaks, GiveUpWaiting
<1>1. item[w] \in Names \cup {NoName} /\ (step[w] \in NamedSteps => item[w] \in Names)
  BY DEF Shape, WellFormed, TypeOK
<1>2. ctx' \in [Workers -> Contexts]
  BY <1>1 DEF TypeOK, Contexts
<1>3. disturbed' \in SUBSET Names
  BY <1>1 DEF TypeOK, NamedSteps
<1>4. step' \in [Workers -> Steps] /\ failed' \in [Workers -> Steps]
  BY <1>1, GoTyped, FailTyped DEF Steps, TypeOK
<1>5. TypeOK'
  BY <1>2, <1>3, <1>4 DEF TypeOK, world, batch, section
<1>6. Shape'
  BY <1>1, <1>5 DEF Shape, TypeOK, Go, Fail, section, Plans, WellFormed, NamedSteps, PlansAt, PlansOf, Kinds
<1> QED
  BY <1>5, <1>6

\* SetDesiredState,
LEMMA RecordTyped ==
    ASSUME Typed, NEW w \in Workers, Record(w) PROVE Typed'
<1> USE DEF Typed, Record, Desired
<1>1. item[w] \in Names \cup {NoName} /\ (step[w] \in NamedSteps => item[w] \in Names)
  BY DEF Shape, WellFormed, TypeOK
<1>2. ctx' \in [Workers -> Contexts]
  BY <1>1, StatementsTyped DEF TypeOK, Contexts
<1>3. managed' \in [Names -> DesiredStates]
  BY <1>1, StatementsTyped DEF TypeOK, DesiredStates
<1>4. disturbed' \in SUBSET Names
  BY <1>1, StatementsTyped DEF TypeOK, NamedSteps
<1>5. step' \in [Workers -> Steps] /\ failed' \in [Workers -> Steps]
  BY <1>1, GoTyped, FailTyped DEF Steps, TypeOK
<1>6. TypeOK'
  BY <1>2, <1>3, <1>4, <1>5 DEF TypeOK, world, batch, section
<1>7. Shape'
  BY <1>1, <1>6 DEF Shape, TypeOK, Go, Fail, section, Plans, WellFormed, NamedSteps, PlansAt, PlansOf, Kinds
<1> QED
  BY <1>6, <1>7

\* DeleteContainer,
LEMMA ForgetTyped ==
    ASSUME Typed, NEW w \in Workers, Forget(w) PROVE Typed'
<1> USE DEF Typed, Forget
<1>1. item[w] \in Names \cup {NoName} /\ (step[w] \in NamedSteps => item[w] \in Names)
  BY DEF Shape, WellFormed, TypeOK
<1>2. ctx' \in [Workers -> Contexts]
  BY <1>1, StatementsTyped DEF TypeOK, Contexts
<1>3. managed' \in [Names -> DesiredStates]
  BY <1>1, StatementsTyped DEF TypeOK, DesiredStates
<1>4. limit' \in [Names -> Limits]
  BY <1>1, StatementsTyped DEF TypeOK, Limits
<1>5. step' \in [Workers -> Steps] /\ failed' \in [Workers -> Steps]
  BY <1>1, GoTyped, FailTyped DEF Steps, TypeOK
<1>6. TypeOK'
  BY <1>2, <1>3, <1>4, <1>5 DEF TypeOK, world, batch, section
<1>7. Shape'
  BY <1>1, <1>6 DEF Shape, TypeOK, Go, Fail, section, Plans, WellFormed, NamedSteps, PlansAt, PlansOf, Kinds
<1> QED
  BY <1>6, <1>7

\* and the audit event.
LEMMA AuditTyped ==
    ASSUME Typed, NEW w \in Workers, Audit(w) PROVE Typed'
<1> USE DEF Typed, Audit
<1>1. item[w] \in Names \cup {NoName} /\ (step[w] \in NamedSteps => item[w] \in Names)
  BY DEF Shape, WellFormed, TypeOK
<1>2. log' \in [Workers -> SUBSET Events]
  <2> DEFINE result == IF failed[w] = "idle" THEN "success" ELSE "failure"
             connected == client[w] \/ kind[w] \in {"autoRepair", "policy"}
  <2>1. item[w] \in Names
    BY <1>1 DEF NamedSteps
  <2>2. result \in {"success", "failure"}
    OBVIOUS
  <2>3. connected \in BOOLEAN
    BY DEF TypeOK
  <2>4. PICK written \in AuditResults(result, connected) :
          log' = [log EXCEPT ![w] = @ \cup {Event("item", item[w], written)}]
    OBVIOUS
  <2> HIDE DEF result, connected
  <2>5. Event("item", item[w], written) \in Events
    BY <2>1, <2>2, <2>3, EventTyped
  <2> QED
    BY <2>4, <2>5, AddEventTyped DEF TypeOK
<1>3. plan' \in [Workers -> [Names -> Plans]]
  BY <1>1 DEF TypeOK, Plans
<1>4. item' \in [Workers -> Names \cup {NoName}]
  BY <1>1 DEF TypeOK, NamedSteps
<1>5. step' \in [Workers -> Steps] /\ failed' \in [Workers -> Steps]
  BY <1>1, GoTyped, FailTyped DEF Steps, TypeOK
<1>6. TypeOK'
  BY <1>2, <1>3, <1>4, <1>5 DEF TypeOK, world, batch, section
<1>7. Shape'
  BY <1>1, <1>6 DEF Shape, TypeOK, Go, Fail, section, Plans, WellFormed, NamedSteps, PlansAt, PlansOf, Kinds
<1> QED
  BY <1>6, <1>7

\* An operation that begins with a plan of its kind is typed.
LEMMA LockTyped ==
    ASSUME Typed, NEW w \in Workers, NEW k \in Kinds \ {"idle"}, NEW p \in [Names -> PlansOf(k)],
           Lock(w, k, p)
    PROVE  Typed'
<1> USE DEF Typed, Lock
<1>1. p \in [Names -> Plans]
  BY DEF PlansOf, Plans
<1>2. /\ kind' \in [Workers -> Kinds]
      /\ step' \in [Workers -> Steps]
      /\ plan' \in [Workers -> [Names -> Plans]]
      /\ ctx' \in [Workers -> Contexts]
      /\ mutationMu' \in Workers
  BY <1>1 DEF TypeOK, Steps, Contexts, ContextOf
<1>3. TypeOK'
  BY <1>2 DEF TypeOK, world, batch
<1>4. Shape'
  BY <1>2 DEF Shape, TypeOK, WellFormed, NamedSteps
<1> QED
  BY <1>3, <1>4

\* What the beginning of an operation comes to: the mutex is taken, and the plan
\* of a repair or of a policy pass is what it read under it.
Begun(w, k, p) ==
    /\ Lock(w, k, p)
    /\ k \in RepairKinds => p = Drift
    /\ k = "policy" => p = Limited

SomeBegun ==
    \E w \in Workers, k \in Kinds \ {"idle"} : \E p \in [Names -> PlansOf(k)] : Begun(w, k, p)

\* Every operation begins by taking the mutex with a plan of its kind.
LEMMA BeginsLock ==
    ASSUME CreateBegins \/ RequestBegins \/ BeginRepair(RepairLoop) \/ BeginPolicy
    PROVE  SomeBegun
<1>0. ASSUME NEW w \in Workers, NEW k \in Kinds \ {"idle"}, NEW p \in [Names -> PlansOf(k)],
             Begun(w, k, p)
      PROVE  SomeBegun
  BY <1>0 DEF SomeBegun
<1>1. ASSUME NEW w \in Workers, NEW n \in Names, BeginCreate(w, n) PROVE SomeBegun
  <2>1. [NoPlan EXCEPT ![n] = "create"] \in [Names -> PlansOf("create")]
    BY DEF NoPlan, PlansOf
  <2>2. Begun(w, "create", [NoPlan EXCEPT ![n] = "create"])
    BY <1>1 DEF BeginCreate, Begun
  <2> QED
    BY <1>0, <2>1, <2>2 DEF Kinds
<1>2. ASSUME NEW w \in Workers, NEW names \in SUBSET Names, BeginBulkCreate(w, names)
      PROVE  SomeBegun
  <2> DEFINE p == [n \in Names |-> IF n \in names THEN "create" ELSE "none"]
  <2>1. p \in [Names -> PlansOf("bulkCreate")]
    BY DEF PlansOf
  <2>2. Begun(w, "bulkCreate", p)
    BY <1>2 DEF BeginBulkCreate, Begun
  <2> HIDE DEF p
  <2> QED
    BY <1>0, <2>1, <2>2 DEF Kinds
<1>3. ASSUME NEW w \in Workers, NEW n \in Names, NEW cmd \in Commands, BeginAction(w, n, cmd)
      PROVE  SomeBegun
  <2>1. [NoPlan EXCEPT ![n] = cmd] \in [Names -> PlansOf("action")]
    BY DEF NoPlan, PlansOf
  <2>2. Begun(w, "action", [NoPlan EXCEPT ![n] = cmd])
    BY <1>3 DEF BeginAction, Begun
  <2> QED
    BY <1>0, <2>1, <2>2 DEF Kinds
<1>4. ASSUME NEW w \in Workers, NEW names \in SUBSET Names, NEW cmd \in Commands,
             BeginBulkAction(w, names, cmd)
      PROVE  SomeBegun
  <2> DEFINE p == [n \in Names |-> IF n \in names THEN cmd ELSE "none"]
  <2>1. p \in [Names -> PlansOf("bulkAction")]
    BY DEF PlansOf
  <2>2. Begun(w, "bulkAction", p)
    BY <1>4 DEF BeginBulkAction, Begun
  <2> HIDE DEF p
  <2> QED
    BY <1>0, <2>1, <2>2 DEF Kinds
<1>5. ASSUME NEW w \in Workers, BeginRepair(w) PROVE SomeBegun
  <2>1. PICK k \in RepairKinds : Lock(w, k, Drift)
    BY <1>5 DEF BeginRepair
  <2>2. Drift \in [Names -> PlansOf(k)]
    BY DEF Drift, PlansOf
  <2>3. Begun(w, k, Drift)
    BY <2>1 DEF Begun
  <2> QED
    BY <1>0, <2>2, <2>3 DEF Kinds
<1>6. ASSUME BeginPolicy PROVE SomeBegun
  <2>1. Limited \in [Names -> PlansOf("policy")]
    BY DEF Limited, PlansOf
  <2>2. PolicyLoop \in Workers /\ Begun(PolicyLoop, "policy", Limited)
    BY <1>6 DEF BeginPolicy, Begun, Workers
  <2> QED
    BY <1>0, <2>1, <2>2 DEF Kinds
<1>7. RepairLoop \in Workers /\ Requests \subseteq Workers
  BY DEF Workers
<1> HIDE DEF Commands
<1> QED
  BY <1>1, <1>2, <1>3, <1>4, <1>5, <1>6, <1>7 DEF CreateBegins, RequestBegins

\* The beginning of an operation keeps types and shape.
LEMMA BeginsTyped ==
    ASSUME Typed, CreateBegins \/ RequestBegins \/ BeginRepair(RepairLoop) \/ BeginPolicy
    PROVE  Typed'
BY BeginsLock, LockTyped DEF SomeBegun, Begun

\* So do the turn to the next name,
LEMMA TakeNameTyped ==
    ASSUME Typed, NEW w \in Workers, TakeName(w) PROVE Typed'
<1> DEFINE first(p) == CASE p = "create" -> "init" [] p = "check" -> "check" [] OTHER -> "command"
<1>1. PICK n \in Names : /\ plan[w][n] # "none"
                         /\ item' = [item EXCEPT ![w] = n]
                         /\ Go(w, first(plan[w][n]))
  BY DEF TakeName
<1>2. /\ step[w] = "next" /\ kind' = kind
      /\ UNCHANGED <<world, batch, section, plan, ctx, log>>
  BY DEF TakeName, section
<1>3. TypeOK'
  BY <1>1, <1>2 DEF Typed, TypeOK, Go, Steps, world, batch, section
<1>4. plan[w][n] \in PlansOf(kind[w])
  BY DEF Typed, Shape, WellFormed
<1>5. \/ plan[w][n] = "create" /\ kind[w] \in CreateKinds /\ Go(w, "init")
      \/ plan[w][n] = "check" /\ kind[w] \in ItemKinds /\ Go(w, "check")
      \/ plan[w][n] \in Commands /\ kind[w] \in ItemKinds /\ Go(w, "command")
  BY <1>1, <1>4 DEF PlansOf
<1>6. Shape'
  BY <1>1, <1>2, <1>5 DEF Typed, Shape, TypeOK, Go, Plans, WellFormed, NamedSteps, PlansAt
<1> QED
  BY <1>3, <1>6 DEF Typed

\* the end of the list,
LEMMA NoNameLeftTyped ==
    ASSUME Typed, NEW w \in Workers, NoNameLeft(w) PROVE Typed'
<1> USE DEF Typed, NoNameLeft
<1>1. TypeOK'
  BY GoTyped DEF TypeOK, Steps, world, batch, section
<1>2. Shape'
  BY DEF Shape, TypeOK, Go, section, WellFormed, NamedSteps
<1> QED
  BY <1>1, <1>2

\* the end of the operation,
LEMMA UnlockTyped ==
    ASSUME Typed, NEW w \in Workers, Unlock(w) PROVE Typed'
<1> USE DEF Typed, Unlock
<1>1. NoPlan \in [Names -> Plans]
  BY DEF NoPlan, Plans
<1>2. TypeOK'
  BY <1>1 DEF TypeOK, Kinds, Steps, Contexts, world
<1>3. Shape'
  BY DEF Shape, TypeOK, NoPlan, WellFormed, NamedSteps, PlansOf
<1> QED
  BY <1>2, <1>3

\* What an action keeps when it changes no worker's place.
LEMMA StillShaped ==
    ASSUME Shape, UNCHANGED <<kind, step, item, plan>> PROVE Shape'
BY DEF Shape, WellFormed

\* and whatever happens around Natbox.
LEMMA EnvironmentTyped ==
    ASSUME Typed, RowChange \/ Disturbance \/ CalmDown
    PROVE  Typed'
<1> USE DEF Typed, world, batch, section
<1>1. ASSUME NEW n \in Names, Operator(n) PROVE Typed'
  BY <1>1, StillShaped DEF Operator, TypeOK, InstanceStates, Makers, Limits
<1>2. ASSUME NEW n \in Names, Address(n) PROVE Typed'
  BY <1>2, StillShaped DEF Address, TypeOK, InstanceStates
<1>3. ASSUME NEW n \in Names, ReachLimit(n) PROVE Typed'
  BY <1>3, StillShaped DEF ReachLimit, TypeOK, Limits
<1>4. ASSUME NEW w \in Workers, HangUp(w) PROVE Typed'
  BY <1>4, StillShaped DEF HangUp, TypeOK
<1>5. ASSUME Crash PROVE Typed'
  <2>1. TypeOK'
    BY <1>5 DEF Crash, TypeOK, Kinds, Steps, Contexts, NoPlan, Plans
  <2>2. Shape'
    BY <1>5 DEF Crash, Shape, WellFormed, NamedSteps, PlansOf, NoPlan
  <2> QED
    BY <2>1, <2>2
<1>6. ASSUME CalmDown PROVE Typed'
  BY <1>6, StillShaped DEF CalmDown, TypeOK
<1>7. ASSUME RestoreBackup PROVE Typed'
  BY <1>7, StillShaped DEF RestoreBackup, RestoredRows, TypeOK, Limits
<1>8. ASSUME NEW n \in Names, UpdatePolicy(n) PROVE Typed'
  BY <1>8, StillShaped DEF UpdatePolicy, TypeOK, Limits
<1> QED
  BY <1>1, <1>2, <1>3, <1>4, <1>5, <1>6, <1>7, <1>8 DEF RowChange, Disturbance

-----------------------------------------------------------------------------

\* All the steps of a worker together.
LEMMA WorkTyped ==
    ASSUME Typed, NEW w \in Workers, Work(w) \/ WaitBreaks(w)
    PROVE  Typed'
<1>1. CASE CreateStep(w)
  BY <1>1, InitInstanceTyped, ConfigureTyped, LaunchTyped, UnwindTyped, HaveAddressTyped,
     NoAddressTyped, InstallKeyTyped, PersistTyped, CreatedTyped, AllocateSSHTyped,
     CleanupTyped, CleanedUpTyped, ReportTyped DEF CreateStep
<1>2. CASE ItemStep(w)
  BY <1>2, CheckQuotaTyped, RunCommandTyped, StartedTyped, WaitTimesOutTyped, RecordTyped,
     ForgetTyped, AuditTyped DEF ItemStep
<1> QED
  BY <1>1, <1>2, TakeNameTyped, NoNameLeftTyped, UnlockTyped, WaitBreaksTyped DEF Work

\* The service starts typed and in shape.
LEMMA TypedInit == Init => Typed
<1> SUFFICES ASSUME Init PROVE Typed
  OBVIOUS
<1>1. TypeOK
  BY DEF Init, TypeOK, InstanceStates, Makers, DesiredStates, Limits, Kinds, Steps,
         Contexts, NoPlan, Plans, Present
<1>2. Shape
  BY DEF Init, Shape, WellFormed, NamedSteps, PlansOf, NoPlan
<1> QED
  BY <1>1, <1>2 DEF Typed

\* Every step keeps it so.
LEMMA TypedStep == Typed /\ [Next]_vars => Typed'
<1> SUFFICES ASSUME Typed, [Next]_vars PROVE Typed'
  OBVIOUS
<1>1. CASE CreateBegins \/ RequestBegins \/ BeginRepair(RepairLoop) \/ BeginPolicy
  BY <1>1, BeginsTyped
<1>2. CASE RowChange \/ Disturbance \/ CalmDown
  BY <1>2, EnvironmentTyped
<1>3. CASE \E w \in Workers : Work(w) \/ WaitBreaks(w)
  BY <1>3, WorkTyped
<1>4. CASE UNCHANGED vars
  BY <1>4, StillShaped DEF Typed, TypeOK, vars, world, batch, section
<1> QED
  BY <1>1, <1>2, <1>3, <1>4 DEF Next

\* The inductive invariant: every variable has its type, and every worker is at
\* a step that its operation and its plan can have brought it to.
THEOREM AlwaysTyped == Spec => []Typed
BY TypedInit, TypedStep, PTL DEF Spec

\* Type correctness, of any number of names and requests and under any faults.
THEOREM TypeCorrect == Spec => []TypeOK
<1>1. Typed => TypeOK
  BY DEF Typed
<1> QED
  BY AlwaysTyped, <1>1, PTL

=============================================================================

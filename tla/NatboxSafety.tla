---------------------------- MODULE NatboxSafety ----------------------------
(***************************************************************************)
(* The safety of the service, for any sets of names and requests and any   *)
(* combination of faults: the mutex, the rollback, the rows, the plans and *)
(* the agreement between rows and runtime.                                 *)
(***************************************************************************)
EXTENDS NatboxTyping

-----------------------------------------------------------------------------
(* The parts of the inductive invariant.                                   *)

\* A worker that creates nothing has nothing created, made or to undo, and an
\* idle one has no failure either.
Clean(w) ==
    /\ kind[w] \notin CreateKinds => created[w] = {} /\ made[w] = {} /\ undo[w] = {}
    /\ kind[w] = "idle" => failed[w] = "idle"

\* From init to the SSH port the name in hand is one the operation made.
Building(w) ==
    \/ step[w] \in {"configure", "launch", "unwind", "key", "persist", "created", "sshport"}
    \/ step[w] = "wait" /\ kind[w] \in CreateKinds
    \/ step[w] = "report" /\ failed[w] = "sshport"

Own(w) ==
    /\ created[w] \subseteq made[w]
    /\ undo[w] \subseteq made[w]
    /\ Building(w) => item[w] \in made[w]
    /\ step[w] = "unwind" => failed[w] # "sshport"

\* The rows of what a create has completed so far.
Recorded(w) ==
    kind[w] \in CreateKinds =>
        /\ failed[w] = "idle" => \A n \in created[w] : managed[n] = "running"
        /\ step[w] \in {"created", "sshport"} => managed[item[w]] = "running"

\* A name whose row and instance an operation is about to bring together.
InHand(w, n) ==
    /\ item[w] = n
    /\ \/ step[w] \in {"configure", "launch", "unwind", "wait", "key", "persist", "record", "forget"}
       \/ step[w] = "cleanup" /\ n \in undo[w]

\* Any other name agrees with its row, unless it was disturbed.
RestAgrees ==
    \A n \in Names \ disturbed :
        Managed(n) /\ Present(n) /\ (\A w \in Workers : ~InHand(w, n)) => Agrees(n)

\* What the commands of an operation have achieved for the name in hand.
Achieved(w) ==
    item[w] \in Names \ disturbed =>
        /\ step[w] = "wait" => Up(item[w])
        /\ step[w] \in {"key", "persist"} => Up(item[w])
        /\ step[w] = "record" => (Up(item[w]) <=> plan[w][item[w]] # "stop")
        /\ step[w] = "forget" => ~Present(item[w])

\* PlansAreCurrent and RowOutlivesInstance, worker by worker.
Current(w) ==
    \A n \in Names : plan[w][n] # "none" =>
        /\ kind[w] \in RepairKinds => managed[n] = Desired(plan[w][n])
        /\ kind[w] = "policy" => Managed(n) /\ limit[n] # "none"

Forgetting(w) == step[w] = "forget" => ~Present(item[w]) \/ maker[item[w]] = "operator"

Sound(w) == Clean(w) /\ Own(w) /\ Recorded(w) /\ Current(w) /\ Achieved(w) /\ Forgetting(w)

Safe ==
    /\ MutationsAreSerialised
    /\ RestAgrees
    /\ \A w \in Workers : Sound(w)

-----------------------------------------------------------------------------
(* Who does what.                                                          *)

USE DEF CreateKinds, ActionKinds, RepairKinds, ItemKinds, CreateSteps, ItemSteps, Commands

\* The worker of an operation is the only one that executes any.
LEMMA Alone ==
    ASSUME Typed, MutationsAreSerialised, NEW w \in Workers, kind[w] # "idle",
           NEW v \in Workers \ {w}
    PROVE  kind[v] = "idle" /\ step[v] = "idle"
BY DEF MutationsAreSerialised, Typed, Shape, WellFormed

\* A worker's step changes only its own place.
LEMMA OthersKeepTheirPlace ==
    ASSUME Typed, NEW w \in Workers, Work(w) \/ WaitBreaks(w), NEW v \in Workers \ {w}
    PROVE  /\ kind'[v] = kind[v] /\ step'[v] = step[v] /\ item'[v] = item[v]
           /\ plan'[v] = plan[v] /\ failed'[v] = failed[v]
           /\ created'[v] = created[v] /\ undo'[v] = undo[v] /\ made'[v] = made[v]
<1> USE DEF Typed, TypeOK
<1>1. CASE InitInstance(w)
  BY <1>1 DEF InitInstance, Go, Fail, section, batch
<1>2. CASE Configure(w)
  BY <1>2 DEF Configure, Go, Fail, section, batch
<1>3. CASE Launch(w)
  BY <1>3 DEF Launch, Go, Fail, section, batch
<1>4. CASE Unwind(w)
  BY <1>4 DEF Unwind, Go, Fail, section, batch
<1>5. CASE HaveAddress(w)
  BY <1>5 DEF HaveAddress, Go, Fail, section, batch
<1>6. CASE NoAddress(w)
  BY <1>6 DEF NoAddress, Go, Fail, section, batch
<1>7. CASE InstallKey(w)
  BY <1>7 DEF InstallKey, Go, Fail, section, batch
<1>8. CASE Persist(w)
  BY <1>8 DEF Persist, Go, Fail, section, batch
<1>9. CASE Created(w)
  BY <1>9 DEF Created, Complete, Go, Fail, section, batch
<1>10. CASE AllocateSSH(w)
  BY <1>10 DEF AllocateSSH, Complete, Go, Fail, section, batch
<1>11. CASE Cleanup(w)
  BY <1>11 DEF Cleanup, Go, Fail, section, batch
<1>12. CASE CleanedUp(w)
  BY <1>12 DEF CleanedUp, Go, Fail, section, batch
<1>13. CASE Report(w)
  BY <1>13 DEF Report, StillToUndo, Go, Fail, section, batch
<1>14. CASE CheckQuota(w)
  BY <1>14 DEF CheckQuota, Go, Fail, section, batch
<1>15. CASE RunCommand(w)
  BY <1>15 DEF RunCommand, Go, Fail, section, batch
<1>16. CASE Started(w)
  BY <1>16 DEF Started, Go, Fail, section, batch
<1>17. CASE WaitTimesOut(w)
  BY <1>17 DEF WaitTimesOut, GiveUpWaiting, Go, Fail, section, batch
<1>18. CASE Record(w)
  BY <1>18 DEF Record, Go, Fail, section, batch
<1>19. CASE Forget(w)
  BY <1>19 DEF Forget, Go, Fail, section, batch
<1>20. CASE Audit(w)
  BY <1>20 DEF Audit, Go, Fail, section, batch
<1>21. CASE TakeName(w)
  BY <1>21 DEF TakeName, Go, Fail, section, batch
<1>22. CASE NoNameLeft(w)
  BY <1>22 DEF NoNameLeft, Go, Fail, section, batch
<1>23. CASE Unlock(w)
  BY <1>23 DEF Unlock, Go, Fail, section, batch
<1>24. CASE WaitBreaks(w)
  BY <1>24 DEF WaitBreaks, GiveUpWaiting, Go, Fail, section, batch
<1> QED
  BY <1>1, <1>2, <1>3, <1>4, <1>5, <1>6, <1>7, <1>8, <1>9, <1>10, <1>11, <1>12, <1>13, <1>14,
     <1>15, <1>16, <1>17, <1>18, <1>19, <1>20, <1>21, <1>22, <1>23, <1>24 DEF Work, CreateStep, ItemStep

\* Inside the critical section the mutex, the operation and the client stay.
LEMMA SectionKept ==
    ASSUME NEW w \in Workers, Work(w) \/ WaitBreaks(w), ~Unlock(w)
    PROVE  UNCHANGED section
<1>1. CASE InitInstance(w)
  BY <1>1 DEF InitInstance
<1>2. CASE Configure(w)
  BY <1>2 DEF Configure
<1>3. CASE Launch(w)
  BY <1>3 DEF Launch
<1>4. CASE Unwind(w)
  BY <1>4 DEF Unwind
<1>5. CASE HaveAddress(w)
  BY <1>5 DEF HaveAddress
<1>6. CASE NoAddress(w)
  BY <1>6 DEF NoAddress
<1>7. CASE InstallKey(w)
  BY <1>7 DEF InstallKey
<1>8. CASE Persist(w)
  BY <1>8 DEF Persist
<1>9. CASE Created(w)
  BY <1>9 DEF Created, Complete
<1>10. CASE AllocateSSH(w)
  BY <1>10 DEF AllocateSSH, Complete
<1>11. CASE Cleanup(w)
  BY <1>11 DEF Cleanup
<1>12. CASE CleanedUp(w)
  BY <1>12 DEF CleanedUp
<1>13. CASE Report(w)
  BY <1>13 DEF Report, StillToUndo
<1>14. CASE CheckQuota(w)
  BY <1>14 DEF CheckQuota
<1>15. CASE RunCommand(w)
  BY <1>15 DEF RunCommand
<1>16. CASE Started(w)
  BY <1>16 DEF Started
<1>17. CASE WaitTimesOut(w)
  BY <1>17 DEF WaitTimesOut, GiveUpWaiting
<1>18. CASE Record(w)
  BY <1>18 DEF Record
<1>19. CASE Forget(w)
  BY <1>19 DEF Forget
<1>20. CASE Audit(w)
  BY <1>20 DEF Audit
<1>21. CASE TakeName(w)
  BY <1>21 DEF TakeName
<1>22. CASE NoNameLeft(w)
  BY <1>22 DEF NoNameLeft
<1>23. CASE WaitBreaks(w)
  BY <1>23 DEF WaitBreaks, GiveUpWaiting
<1> QED
  BY <1>1, <1>2, <1>3, <1>4, <1>5, <1>6, <1>7, <1>8, <1>9, <1>10, <1>11, <1>12, <1>13, <1>14,
     <1>15, <1>16, <1>17, <1>18, <1>19, <1>20, <1>21, <1>22, <1>23 DEF Work, CreateStep, ItemStep

\* Only an operation's own steps, never those of another worker, are past idle.
LEMMA WorkerIsBusy ==
    ASSUME Typed, NEW w \in Workers, Work(w) \/ WaitBreaks(w)
    PROVE  kind[w] # "idle"
<1> USE DEF Typed, Shape, WellFormed
<1>1. CASE InitInstance(w)
  BY <1>1 DEF InitInstance
<1>2. CASE Configure(w)
  BY <1>2 DEF Configure
<1>3. CASE Launch(w)
  BY <1>3 DEF Launch
<1>4. CASE Unwind(w)
  BY <1>4 DEF Unwind
<1>5. CASE HaveAddress(w)
  BY <1>5 DEF HaveAddress
<1>6. CASE NoAddress(w)
  BY <1>6 DEF NoAddress
<1>7. CASE InstallKey(w)
  BY <1>7 DEF InstallKey
<1>8. CASE Persist(w)
  BY <1>8 DEF Persist
<1>9. CASE Created(w)
  BY <1>9 DEF Created, Complete
<1>10. CASE AllocateSSH(w)
  BY <1>10 DEF AllocateSSH, Complete
<1>11. CASE Cleanup(w)
  BY <1>11 DEF Cleanup
<1>12. CASE CleanedUp(w)
  BY <1>12 DEF CleanedUp
<1>13. CASE Report(w)
  BY <1>13 DEF Report, StillToUndo
<1>14. CASE CheckQuota(w)
  BY <1>14 DEF CheckQuota
<1>15. CASE RunCommand(w)
  BY <1>15 DEF RunCommand
<1>16. CASE Started(w)
  BY <1>16 DEF Started
<1>17. CASE WaitTimesOut(w)
  BY <1>17 DEF WaitTimesOut, GiveUpWaiting
<1>18. CASE Record(w)
  BY <1>18 DEF Record
<1>19. CASE Forget(w)
  BY <1>19 DEF Forget
<1>20. CASE Audit(w)
  BY <1>20 DEF Audit
<1>21. CASE TakeName(w)
  BY <1>21 DEF TakeName
<1>22. CASE NoNameLeft(w)
  BY <1>22 DEF NoNameLeft
<1>23. CASE Unlock(w)
  BY <1>23 DEF Unlock
<1>24. CASE WaitBreaks(w)
  BY <1>24 DEF WaitBreaks, GiveUpWaiting
<1> QED
  BY <1>1, <1>2, <1>3, <1>4, <1>5, <1>6, <1>7, <1>8, <1>9, <1>10, <1>11, <1>12, <1>13, <1>14,
     <1>15, <1>16, <1>17, <1>18, <1>19, <1>20, <1>21, <1>22, <1>23, <1>24 DEF Work, CreateStep, ItemStep

\* Three steps write rows.
LEMMA RowsKept ==
    ASSUME NEW w \in Workers, Work(w) \/ WaitBreaks(w), ~Persist(w), ~Record(w), ~Forget(w)
    PROVE  managed' = managed
<1>1. CASE InitInstance(w)
  BY <1>1 DEF InitInstance, world
<1>2. CASE Configure(w)
  BY <1>2 DEF Configure, world
<1>3. CASE Launch(w)
  BY <1>3 DEF Launch, world
<1>4. CASE Unwind(w)
  BY <1>4 DEF Unwind, world
<1>5. CASE HaveAddress(w)
  BY <1>5 DEF HaveAddress, world
<1>6. CASE NoAddress(w)
  BY <1>6 DEF NoAddress, world
<1>7. CASE InstallKey(w)
  BY <1>7 DEF InstallKey, world
<1>8. CASE Created(w)
  BY <1>8 DEF Created, Complete, world
<1>9. CASE AllocateSSH(w)
  BY <1>9 DEF AllocateSSH, Complete, world
<1>10. CASE Cleanup(w)
  BY <1>10 DEF Cleanup, world
<1>11. CASE CleanedUp(w)
  BY <1>11 DEF CleanedUp, world
<1>12. CASE Report(w)
  BY <1>12 DEF Report, StillToUndo, world
<1>13. CASE CheckQuota(w)
  BY <1>13 DEF CheckQuota, world
<1>14. CASE RunCommand(w)
  BY <1>14 DEF RunCommand, world
<1>15. CASE Started(w)
  BY <1>15 DEF Started, world
<1>16. CASE WaitTimesOut(w)
  BY <1>16 DEF WaitTimesOut, GiveUpWaiting, world
<1>17. CASE Audit(w)
  BY <1>17 DEF Audit, world
<1>18. CASE TakeName(w)
  BY <1>18 DEF TakeName, world
<1>19. CASE NoNameLeft(w)
  BY <1>19 DEF NoNameLeft, world
<1>20. CASE Unlock(w)
  BY <1>20 DEF Unlock, world
<1>21. CASE WaitBreaks(w)
  BY <1>21 DEF WaitBreaks, GiveUpWaiting, world
<1> QED
  BY <1>1, <1>2, <1>3, <1>4, <1>5, <1>6, <1>7, <1>8, <1>9, <1>10, <1>11, <1>12, <1>13, <1>14,
     <1>15, <1>16, <1>17, <1>18, <1>19, <1>20, <1>21 DEF Work, CreateStep, ItemStep

\* The mutex and the operations stay together.
LEMMA SerialisedStep ==
    ASSUME Typed, MutationsAreSerialised, [Next]_vars
    PROVE  MutationsAreSerialised'
<1> USE DEF Typed, TypeOK, MutationsAreSerialised
<1>1. ASSUME NEW w \in Workers, NEW k \in Kinds \ {"idle"}, NEW p \in [Names -> PlansOf(k)], Lock(w, k, p)
      PROVE  MutationsAreSerialised'
  BY <1>1, DistinctNoOne DEF Lock
<1>2. CASE CreateBegins \/ RequestBegins \/ BeginRepair(RepairLoop) \/ BeginPolicy
  BY <1>1, <1>2, BeginsLock DEF SomeBegun, Begun
<1>3. ASSUME NEW w \in Workers, Work(w) \/ WaitBreaks(w) PROVE MutationsAreSerialised'
  <2>1. CASE Unlock(w)
    BY <1>3, <2>1, WorkerIsBusy, DistinctNoOne DEF Unlock
  <2>2. CASE ~Unlock(w)
    BY <1>3, <2>2, SectionKept DEF section
  <2> QED
    BY <2>1, <2>2
<1>4. CASE Crash
  BY <1>4, DistinctNoOne DEF Crash
<1>5. CASE RowChange \/ CalmDown \/ (Disturbance /\ ~Crash)
  BY <1>5 DEF RowChange, RestoreBackup, RestoredRows, UpdatePolicy, CalmDown, Disturbance, Operator, Address,
     ReachLimit, HangUp, section
<1>6. CASE UNCHANGED vars
  BY <1>6 DEF vars, section
<1> QED
  BY <1>2, <1>3, <1>4, <1>5, <1>6 DEF Next

\* Where a command leads.
LEMMA RunCommandGoes ==
    ASSUME Typed, NEW w \in Workers, RunCommand(w)
    PROVE  \E s \in {"audit", "wait", "record", "forget"} : step' = [step EXCEPT ![w] = s]
<1>1. PICK r \in CommandResults(plan[w][item[w]], instance[item[w]], ctx[w]) :
         IF r.err THEN Fail(w, "command", "audit") ELSE Go(w, AfterCommand(plan[w][item[w]]))
  BY DEF RunCommand
<1>2. r.err \in BOOLEAN
  BY ResultsTyped
<1>3. CASE r.err
  BY <1>1, <1>3 DEF Fail
<1>4. CASE ~r.err
  <2>1. AfterCommand(plan[w][item[w]]) \in {"wait", "record", "forget"}
    BY DEF AfterCommand
  <2> QED
    BY <1>1, <1>4, <2>1 DEF Go
<1> QED
  BY <1>2, <1>3, <1>4

\* A worker's own rollback stays within what it made.
LEMMA OwnStep ==
    ASSUME Typed, NEW w \in Workers, Clean(w), Own(w), Work(w) \/ WaitBreaks(w)
    PROVE  Clean(w)' /\ Own(w)'
<1> USE DEF Typed, TypeOK, Shape, WellFormed, Clean, Own, Building
<1>1. CASE InitInstance(w)
  <2>1. kind' = kind /\ item' = item /\ created' = created /\ undo' = undo
    BY <1>1 DEF InitInstance, section
  <2>2. PICK r \in CommandResults("init", instance[item[w]], ctx[w]) :
          /\ made' = IF r.state = instance[item[w]] THEN made
                     ELSE [made EXCEPT ![w] = @ \cup {item[w]}]
          /\ IF r.err THEN Fail(w, "init", "report") ELSE Go(w, "configure")
    BY <1>1 DEF InitInstance
  <2>3. ~r.err => r.state # instance[item[w]]
    BY DEF CommandResults, Accepted, Outcome
  <2>4. made[w] \subseteq made'[w] /\ (~r.err => item[w] \in made'[w])
    BY <2>2, <2>3
  <2>5. kind[w] \in CreateKinds
    BY <1>1 DEF InitInstance
  <2>6. \/ r.err /\ step'[w] = "report" /\ failed'[w] = "init"
        \/ ~r.err /\ step'[w] = "configure"
    BY <2>2, ResultsTyped DEF Go, Fail
  <2> QED
    BY <2>1, <2>4, <2>5, <2>6
<1>2. CASE Configure(w)
  BY <1>2 DEF Configure, Go, Fail, section, batch
<1>3. CASE Launch(w)
  BY <1>3 DEF Launch, Go, Fail, section, batch
<1>4. CASE Unwind(w)
  BY <1>4 DEF Unwind, Go, Fail, section, batch
<1>5. CASE HaveAddress(w)
  BY <1>5 DEF HaveAddress, Go, Fail, section, batch
<1>6. CASE NoAddress(w)
  BY <1>6 DEF NoAddress, Go, Fail, section, batch
<1>7. CASE InstallKey(w)
  BY <1>7 DEF InstallKey, Go, Fail, section, batch
<1>8. CASE Persist(w)
  BY <1>8 DEF Persist, Go, Fail, section, batch
<1>9. CASE Created(w)
  BY <1>9 DEF Created, Complete, Go, Fail, section, batch
<1>10. CASE AllocateSSH(w)
  BY <1>10 DEF AllocateSSH, Complete, Go, Fail, section, batch
<1>11. CASE Cleanup(w)
  BY <1>11 DEF Cleanup, Go, Fail, section, batch
<1>12. CASE CleanedUp(w)
  BY <1>12 DEF CleanedUp, Go, Fail, section, batch
<1>13. CASE Report(w)
  BY <1>13 DEF Report, StillToUndo, Go, Fail, section, batch
<1>14. CASE CheckQuota(w)
  BY <1>14 DEF CheckQuota, Go, Fail, section, batch
<1>15. CASE RunCommand(w)
  <2>1. UNCHANGED <<kind, item, created, undo, made>> /\ kind[w] \in ItemKinds
    BY <1>15 DEF RunCommand, section, batch
  <2>2. \E s \in {"audit", "wait", "record", "forget"} : step' = [step EXCEPT ![w] = s]
    BY <1>15, RunCommandGoes
  <2> QED
    BY <2>1, <2>2
<1>16. CASE Started(w)
  BY <1>16 DEF Started, Go, Fail, section, batch
<1>17. CASE WaitTimesOut(w)
  BY <1>17 DEF WaitTimesOut, GiveUpWaiting, Go, Fail, section, batch
<1>18. CASE Record(w)
  BY <1>18 DEF Record, Go, Fail, section, batch
<1>19. CASE Forget(w)
  BY <1>19 DEF Forget, Go, Fail, section, batch
<1>20. CASE Audit(w)
  BY <1>20 DEF Audit, Go, Fail, section, batch
<1>21. CASE TakeName(w)
  BY <1>21 DEF TakeName, Go, Fail, section, batch
<1>22. CASE NoNameLeft(w)
  BY <1>22 DEF NoNameLeft, Go, Fail, section, batch
<1>23. CASE Unlock(w)
  BY <1>23 DEF Unlock, Go, Fail, section, batch
<1>24. CASE WaitBreaks(w)
  BY <1>24 DEF WaitBreaks, GiveUpWaiting, Go, Fail, section, batch
<1> QED
  BY <1>1, <1>2, <1>3, <1>4, <1>5, <1>6, <1>7, <1>8, <1>9, <1>10, <1>11, <1>12, <1>13, <1>14,
     <1>15, <1>16, <1>17, <1>18, <1>19, <1>20, <1>21, <1>22, <1>23, <1>24 DEF Work, CreateStep, ItemStep

\* The rows of a create's containers: written by its own steps only.
LEMMA RecordedStep ==
    ASSUME Typed, NEW w \in Workers, Recorded(w), Work(w) \/ WaitBreaks(w)
    PROVE  Recorded(w)'
<1> USE DEF Typed, TypeOK, Shape, WellFormed, NamedSteps, Recorded
<1>1. CASE InitInstance(w)
  BY <1>1 DEF InitInstance, Go, Fail, section, batch, world
<1>2. CASE Configure(w)
  BY <1>2 DEF Configure, Go, Fail, section, batch, world
<1>3. CASE Launch(w)
  BY <1>3 DEF Launch, Go, Fail, section, batch, world
<1>4. CASE Unwind(w)
  BY <1>4 DEF Unwind, Go, Fail, section, batch, world
<1>5. CASE HaveAddress(w)
  BY <1>5 DEF HaveAddress, Go, Fail, section, batch, world
<1>6. CASE NoAddress(w)
  BY <1>6 DEF NoAddress, Go, Fail, section, batch, world
<1>7. CASE InstallKey(w)
  BY <1>7 DEF InstallKey, Go, Fail, section, batch, world
<1>8. CASE Persist(w)
  BY <1>8 DEF Persist, Go, Fail, section, batch, world
<1>9. CASE Created(w)
  BY <1>9 DEF Created, Complete, Go, Fail, section, batch, world
<1>10. CASE AllocateSSH(w)
  BY <1>10 DEF AllocateSSH, Complete, Go, Fail, section, batch, world
<1>11. CASE Cleanup(w)
  BY <1>11 DEF Cleanup, Go, Fail, section, batch, world
<1>12. CASE CleanedUp(w)
  BY <1>12 DEF CleanedUp, Go, Fail, section, batch, world
<1>13. CASE Report(w)
  BY <1>13 DEF Report, StillToUndo, Go, Fail, section, batch, world
<1>14. CASE CheckQuota(w)
  BY <1>14 DEF CheckQuota, Go, Fail, section, batch, world
<1>15. CASE RunCommand(w)
  BY <1>15 DEF RunCommand, Go, Fail, section, batch, world
<1>16. CASE Started(w)
  BY <1>16 DEF Started, Go, Fail, section, batch, world
<1>17. CASE WaitTimesOut(w)
  BY <1>17 DEF WaitTimesOut, GiveUpWaiting, Go, Fail, section, batch, world
<1>18. CASE Record(w)
  BY <1>18 DEF Record, Go, Fail, section, batch, world
<1>19. CASE Forget(w)
  BY <1>19 DEF Forget, Go, Fail, section, batch, world
<1>20. CASE Audit(w)
  BY <1>20 DEF Audit, Go, Fail, section, batch, world
<1>21. CASE TakeName(w)
  BY <1>21 DEF TakeName, Go, Fail, section, batch, world
<1>22. CASE NoNameLeft(w)
  BY <1>22 DEF NoNameLeft, Go, Fail, section, batch, world
<1>23. CASE Unlock(w)
  BY <1>23 DEF Unlock, Go, Fail, section, batch, world
<1>24. CASE WaitBreaks(w)
  BY <1>24 DEF WaitBreaks, GiveUpWaiting, Go, Fail, section, batch, world
<1> QED
  BY <1>1, <1>2, <1>3, <1>4, <1>5, <1>6, <1>7, <1>8, <1>9, <1>10, <1>11, <1>12, <1>13, <1>14,
     <1>15, <1>16, <1>17, <1>18, <1>19, <1>20, <1>21, <1>22, <1>23, <1>24 DEF Work, CreateStep, ItemStep

\* A row that has a limit keeps one through every command.
LEMMA RuntimeKeepsLimits ==
    ASSUME TypeOK, NEW n, NEW cmd, NEW s, Runtime(n, cmd, s), NEW m \in Names, limit[m] # "none"
    PROVE  limit'[m] # "none"
BY DEF TypeOK, Runtime

\* What a command leaves, when it succeeds.
LEMMA CommandSucceeds ==
    ASSUME NEW cmd, NEW s, NEW c, NEW r \in CommandResults(cmd, s, c), ~r.err
    PROVE  r.state = Outcome(cmd, s)
BY DEF CommandResults

\* What a repair or a policy pass has yet to do follows from the rows.
LEMMA CurrentStep ==
    ASSUME Typed, NEW w \in Workers, Current(w), Work(w) \/ WaitBreaks(w)
    PROVE  Current(w)'
<1> USE DEF Typed, TypeOK, Shape, WellFormed, NamedSteps, PlansAt, PlansOf, Current, Managed, Desired
<1>1. CASE InitInstance(w)
  BY <1>1 DEF InitInstance, Go, Fail, section, batch, world
<1>2. CASE Configure(w)
  BY <1>2 DEF Configure, Go, Fail, section, batch, world
<1>3. CASE Launch(w)
  BY <1>3 DEF Launch, Go, Fail, section, batch, world
<1>4. CASE Unwind(w)
  BY <1>4 DEF Unwind, Go, Fail, section, batch, world
<1>5. CASE HaveAddress(w)
  BY <1>5 DEF HaveAddress, Go, Fail, section, batch, world
<1>6. CASE NoAddress(w)
  BY <1>6 DEF NoAddress, Go, Fail, section, batch, world
<1>7. CASE InstallKey(w)
  BY <1>7 DEF InstallKey, Go, Fail, section, batch, world
<1>8. CASE Persist(w)
  BY <1>8 DEF Persist, Go, Fail, section, batch, world
<1>9. CASE Created(w)
  BY <1>9 DEF Created, Complete, Go, Fail, section, batch, world
<1>10. CASE AllocateSSH(w)
  BY <1>10 DEF AllocateSSH, Complete, Go, Fail, section, batch, world
<1>11. CASE Cleanup(w)
  BY <1>11 DEF Cleanup, Go, Fail, section, batch, world
<1>12. CASE CleanedUp(w)
  BY <1>12 DEF CleanedUp, Go, Fail, section, batch, world
<1>13. CASE Report(w)
  BY <1>13 DEF Report, StillToUndo, Go, Fail, section, batch, world
<1>14. CASE CheckQuota(w)
  <2>1. item[w] \in Names /\ plan[w][item[w]] = "check"
    BY <1>14 DEF CheckQuota
  <2>2. UNCHANGED <<kind, managed, limit>> /\ kind[w] = "policy"
    BY <2>1 , <1>14 DEF CheckQuota, section, world
  <2>3. \E p \in {"stop", "none"} : plan' = [plan EXCEPT ![w][item[w]] = p]
    BY <1>14 DEF CheckQuota
  <2> QED
    BY <2>1, <2>2, <2>3
<1>15. CASE RunCommand(w)
  <2>1. UNCHANGED <<kind, managed, plan>>
    BY <1>15 DEF RunCommand, section
  <2>2. \A m \in Names : limit[m] # "none" => limit'[m] # "none"
    BY <1>15, RuntimeKeepsLimits DEF RunCommand
  <2> QED
    BY <2>1, <2>2
<1>16. CASE Started(w)
  BY <1>16 DEF Started, Go, Fail, section, batch, world
<1>17. CASE WaitTimesOut(w)
  BY <1>17 DEF WaitTimesOut, GiveUpWaiting, Go, Fail, section, batch, world
<1>18. CASE Record(w)
  BY <1>18 DEF Record, Go, Fail, section, batch, world
<1>19. CASE Forget(w)
  BY <1>19 DEF Forget, Go, Fail, section, batch, world
<1>20. CASE Audit(w)
  BY <1>20 DEF Audit, Go, Fail, section, batch, world
<1>21. CASE TakeName(w)
  BY <1>21 DEF TakeName, Go, Fail, section, batch, world
<1>22. CASE NoNameLeft(w)
  BY <1>22 DEF NoNameLeft, Go, Fail, section, batch, world
<1>23. CASE Unlock(w)
  BY <1>23 DEF Unlock, Go, Fail, section, batch, world
<1>24. CASE WaitBreaks(w)
  BY <1>24 DEF WaitBreaks, GiveUpWaiting, Go, Fail, section, batch, world
<1> QED
  BY <1>1, <1>2, <1>3, <1>4, <1>5, <1>6, <1>7, <1>8, <1>9, <1>10, <1>11, <1>12, <1>13, <1>14,
     <1>15, <1>16, <1>17, <1>18, <1>19, <1>20, <1>21, <1>22, <1>23, <1>24 DEF Work, CreateStep, ItemStep

\* What the commands achieve for the name in hand.
LEMMA AchievedStep ==
    ASSUME Typed, NEW w \in Workers, Achieved(w), Forgetting(w), Work(w) \/ WaitBreaks(w)
    PROVE  Achieved(w)' /\ Forgetting(w)'
<1> USE DEF Typed, TypeOK, Shape, WellFormed, NamedSteps, PlansAt, Achieved, Forgetting, Up, Present
<1>1. CASE InitInstance(w)
  BY <1>1 DEF InitInstance, Go, Fail, section, batch, world
<1>2. CASE Configure(w)
  BY <1>2 DEF Configure, Go, Fail, section, batch, world
<1>3. CASE Launch(w)
  <2> DEFINE n == item[w]
  <2>1. n \in Names /\ item' = item
    BY <1>3 DEF Launch
  <2>2. PICK r \in CommandResults("start", instance[n], ctx[w]) :
          /\ Runtime(n, "start", r.state)
          /\ disturbed' = IF r.err THEN disturbed ELSE disturbed \ {n}
          /\ IF r.err THEN Fail(w, "launch", "unwind") ELSE Go(w, "wait")
    BY <1>3 DEF Launch
  <2>3. CASE r.err
    <3>1. Fail(w, "launch", "unwind")
      BY <2>2, <2>3
    <3> QED
      BY <2>1, <3>1 DEF Fail
  <2>4. CASE ~r.err
    <3>1. Go(w, "wait") /\ r.state = "running"
      BY <2>2, <2>4, CommandSucceeds DEF Outcome
    <3>2. Up(n)'
      BY <2>1, <2>2, <3>1 DEF Runtime
    <3> QED
      BY <2>1, <3>1, <3>2 DEF Go
  <2> QED
    BY <2>3, <2>4
<1>4. CASE Unwind(w)
  BY <1>4 DEF Unwind, Go, Fail, section, batch, world
<1>5. CASE HaveAddress(w)
  BY <1>5 DEF HaveAddress, Go, Fail, section, batch, world
<1>6. CASE NoAddress(w)
  BY <1>6 DEF NoAddress, Go, Fail, section, batch, world
<1>7. CASE InstallKey(w)
  BY <1>7 DEF InstallKey, Go, Fail, section, batch, world
<1>8. CASE Persist(w)
  BY <1>8 DEF Persist, Go, Fail, section, batch, world
<1>9. CASE Created(w)
  BY <1>9 DEF Created, Complete, Go, Fail, section, batch, world
<1>10. CASE AllocateSSH(w)
  BY <1>10 DEF AllocateSSH, Complete, Go, Fail, section, batch, world
<1>11. CASE Cleanup(w)
  BY <1>11 DEF Cleanup, Go, Fail, section, batch, world
<1>12. CASE CleanedUp(w)
  BY <1>12 DEF CleanedUp, Go, Fail, section, batch, world
<1>13. CASE Report(w)
  BY <1>13 DEF Report, StillToUndo, Go, Fail, section, batch, world
<1>14. CASE CheckQuota(w)
  BY <1>14 DEF CheckQuota, Go, Fail, section, batch, world
<1>15. CASE RunCommand(w)
  <2> DEFINE n == item[w]
             cmd == plan[w][n]
  <2>1. n \in Names /\ cmd \in Commands /\ item' = item /\ plan' = plan
    BY <1>15 DEF RunCommand
  <2>2. PICK r \in CommandResults(cmd, instance[n], ctx[w]) :
          /\ Runtime(n, cmd, r.state)
          /\ IF r.err THEN Fail(w, "command", "audit") ELSE Go(w, AfterCommand(cmd))
    BY <1>15 DEF RunCommand
  <2>3. CASE r.err
    <3>1. Fail(w, "command", "audit")
      BY <2>2, <2>3
    <3> QED
      BY <2>1, <3>1 DEF Fail
  <2>4. CASE ~r.err
    <3>1. Go(w, AfterCommand(cmd)) /\ r.state = Outcome(cmd, instance[n])
      BY <2>2, <2>4, CommandSucceeds
    <3>2. instance'[n] = Outcome(cmd, instance[n])
      BY <2>1, <2>2, <3>1 DEF Runtime
    <3>3. CASE cmd \in {"start", "restart"}
      BY <2>1, <3>1, <3>2, <3>3 DEF Go, AfterCommand, Outcome
    <3>4. CASE cmd = "stop"
      BY <2>1, <3>1, <3>2, <3>4 DEF Go, AfterCommand, Outcome
    <3>5. CASE cmd = "delete"
      BY <2>1, <3>1, <3>2, <3>5 DEF Go, AfterCommand, Outcome
    <3> QED
      BY <2>1, <3>3, <3>4, <3>5
  <2> QED
    BY <2>3, <2>4
<1>16. CASE Started(w)
  <2>1. item[w] \in Names /\ plan[w][item[w]] # "stop" /\ Up(item[w])
    BY <1>16 DEF Started
  <2>2. UNCHANGED <<instance, item, plan>> /\ Go(w, "record")
    BY <1>16 DEF Started, world
  <2> QED
    BY <2>1, <2>2 DEF Go
<1>17. CASE WaitTimesOut(w)
  BY <1>17 DEF WaitTimesOut, GiveUpWaiting, Go, Fail, section, batch, world
<1>18. CASE Record(w)
  BY <1>18 DEF Record, Go, Fail, section, batch, world
<1>19. CASE Forget(w)
  BY <1>19 DEF Forget, Go, Fail, section, batch, world
<1>20. CASE Audit(w)
  BY <1>20 DEF Audit, Go, Fail, section, batch, world
<1>21. CASE TakeName(w)
  BY <1>21 DEF TakeName, Go, Fail, section, batch, world
<1>22. CASE NoNameLeft(w)
  BY <1>22 DEF NoNameLeft, Go, Fail, section, batch, world
<1>23. CASE Unlock(w)
  BY <1>23 DEF Unlock, Go, Fail, section, batch, world
<1>24. CASE WaitBreaks(w)
  BY <1>24 DEF WaitBreaks, GiveUpWaiting, Go, Fail, section, batch, world
<1> QED
  BY <1>1, <1>2, <1>3, <1>4, <1>5, <1>6, <1>7, <1>8, <1>9, <1>10, <1>11, <1>12, <1>13, <1>14,
     <1>15, <1>16, <1>17, <1>18, <1>19, <1>20, <1>21, <1>22, <1>23, <1>24 DEF Work, CreateStep, ItemStep

-----------------------------------------------------------------------------
(* Rows and runtime.                                                       *)

\* Of the names outside every operation only w's own can come or go.
LEMMA OthersHoldNothing ==
    ASSUME Typed, MutationsAreSerialised, NEW w \in Workers, Work(w) \/ WaitBreaks(w),
           NEW v \in Workers \ {w}, NEW m
    PROVE  ~InHand(v, m) /\ ~InHand(v, m)'
<1>1. step[v] = "idle" /\ step'[v] = "idle"
  BY Alone, WorkerIsBusy, OthersKeepTheirPlace
<1> QED
  BY <1>1 DEF InHand

\* A command on one instance leaves the others alone.
LEMMA RuntimeElsewhere ==
    ASSUME TypeOK, NEW n \in Names, NEW cmd, NEW s, Runtime(n, cmd, s), NEW m \in Names \ {n}
    PROVE  instance'[m] = instance[m] /\ maker'[m] = maker[m]
BY DEF TypeOK, Runtime

\* One step of an operation, seen from a name that is in nobody's hand after it.
LEMMA RestStepAt ==
    ASSUME Typed, NEW w \in Workers, Achieved(w), Work(w) \/ WaitBreaks(w),
           NEW m \in Names \ disturbed', Managed(m)', Present(m)', ~InHand(w, m)',
           m \notin disturbed /\ Managed(m) /\ Present(m) /\ ~InHand(w, m) => Agrees(m)
    PROVE  Agrees(m)'
<1> USE DEF Typed, TypeOK, Shape, WellFormed, NamedSteps, PlansAt, Achieved, InHand
<1> USE DEF Managed, Present, Agrees, Up
<1>1. CASE InitInstance(w)
  <2>1. item[w] \in Names /\ UNCHANGED <<item, managed>> /\ step[w] = "init"
    BY <1>1 DEF InitInstance
  <2>2. PICK r \in CommandResults("init", instance[item[w]], ctx[w]) :
          /\ Runtime(item[w], "init", r.state)
          /\ disturbed' = IF r.err /\ r.state # instance[item[w]] THEN disturbed \cup {item[w]}
                          ELSE disturbed
          /\ IF r.err THEN Fail(w, "init", "report") ELSE Go(w, "configure")
    BY <1>1 DEF InitInstance
  <2>3. CASE m # item[w]
    BY <2>1, <2>2, <2>3, RuntimeElsewhere
  <2>4. CASE m = item[w] /\ ~r.err
    <3>1. Go(w, "configure")
      BY <2>2, <2>4
    <3> QED
      BY <2>1, <2>4, <3>1 DEF Go
  <2>5. CASE m = item[w] /\ r.err
    <3>1. r.state = instance[m] /\ m \notin disturbed
      BY <2>2, <2>5
    <3>2. instance'[m] = instance[m]
      BY <2>1, <2>2, <2>5, <3>1 DEF Runtime
    <3> QED
      BY <2>1, <2>5, <3>1, <3>2
  <2> QED
    BY <2>3, <2>4, <2>5
<1>2. CASE Configure(w)
  BY <1>2 DEF Configure, Go, Fail, section, batch, world
<1>3. CASE Launch(w)
  <2>1. item[w] \in Names /\ UNCHANGED <<item, managed>>
    BY <1>3 DEF Launch
  <2>2. PICK r \in CommandResults("start", instance[item[w]], ctx[w]) :
          /\ Runtime(item[w], "start", r.state)
          /\ disturbed' = IF r.err THEN disturbed ELSE disturbed \ {item[w]}
          /\ IF r.err THEN Fail(w, "launch", "unwind") ELSE Go(w, "wait")
    BY <1>3 DEF Launch
  <2>3. step'[w] \in {"unwind", "wait"}
    BY <2>2 DEF Go, Fail
  <2>4. m # item[w]
    BY <2>1, <2>3
  <2> QED
    BY <2>1, <2>2, <2>4, RuntimeElsewhere
<1>4. CASE Unwind(w)
  <2>1. item[w] \in Names /\ UNCHANGED <<item, managed>>
    BY <1>4 DEF Unwind
  <2>2. PICK r \in CommandResults("delete", instance[item[w]], "live") :
          /\ Runtime(item[w], "delete", r.state)
          /\ disturbed' = IF r.state = "absent" THEN disturbed ELSE disturbed \cup {item[w]}
    BY <1>4 DEF Unwind
  <2>3. m # item[w]
    BY <2>1, <2>2 DEF Runtime
  <2> QED
    BY <2>1, <2>2, <2>3, RuntimeElsewhere
<1>5. CASE HaveAddress(w)
  BY <1>5 DEF HaveAddress, Go, Fail, section, batch, world
<1>6. CASE NoAddress(w)
  BY <1>6 DEF NoAddress, Go, Fail, section, batch, world
<1>7. CASE InstallKey(w)
  BY <1>7 DEF InstallKey, Go, Fail, section, batch, world
<1>8. CASE Persist(w)
  BY <1>8 DEF Persist, Go, Fail, section, batch, world
<1>9. CASE Created(w)
  BY <1>9 DEF Created, Complete, Go, Fail, section, batch, world
<1>10. CASE AllocateSSH(w)
  BY <1>10 DEF AllocateSSH, Complete, Go, Fail, section, batch, world
<1>11. CASE Cleanup(w)
  <2>1. PICK n \in undo[w] :
          /\ item[w] \in undo[w] => n = item[w]
          /\ undo' = [undo EXCEPT ![w] = @ \ {n}]
          /\ \E r \in CommandResults("delete", instance[n], ctx[w]) :
                /\ Runtime(n, "delete", r.state)
                /\ ctx' = [ctx EXCEPT ![w] = r.ctx]
                /\ disturbed' = IF r.state = "absent" THEN disturbed ELSE disturbed \cup {n}
                /\ \E result \in AuditResults(CleanupResult(r.err), TRUE) :
                      log' = [log EXCEPT ![w] = @ \cup {Event("cleanup", n, result)}]
    BY <1>11 DEF Cleanup
  <2>2. PICK r \in CommandResults("delete", instance[n], ctx[w]) :
          /\ Runtime(n, "delete", r.state)
          /\ disturbed' = IF r.state = "absent" THEN disturbed ELSE disturbed \cup {n}
    BY <2>1
  <2>3. n \in Names /\ UNCHANGED <<item, managed, step>> /\ step[w] = "cleanup"
    BY <2>1, <1>11 DEF Cleanup
  <2>4. m # n
    BY <2>2, <2>3 DEF Runtime
  <2>5. ~InHand(w, m)
    BY <2>1, <2>3, <2>4
  <2>6. instance'[m] = instance[m] /\ m \notin disturbed
    BY <2>2, <2>3, <2>4, RuntimeElsewhere
  <2> QED
    BY <2>3, <2>5, <2>6
<1>12. CASE CleanedUp(w)
  BY <1>12 DEF CleanedUp, Go, Fail, section, batch, world
<1>13. CASE Report(w)
  BY <1>13 DEF Report, StillToUndo, Go, Fail, section, batch, world
<1>14. CASE CheckQuota(w)
  BY <1>14 DEF CheckQuota, Go, Fail, section, batch, world
<1>15. CASE RunCommand(w)
  <2>1. item[w] \in Names /\ UNCHANGED <<item, managed>>
    BY <1>15 DEF RunCommand
  <2>2. PICK r \in CommandResults(plan[w][item[w]], instance[item[w]], ctx[w]) :
          /\ Runtime(item[w], plan[w][item[w]], r.state)
          /\ disturbed' = IF r.err THEN disturbed \cup {item[w]} ELSE disturbed \ {item[w]}
          /\ IF r.err THEN Fail(w, "command", "audit") ELSE Go(w, AfterCommand(plan[w][item[w]]))
    BY <1>15 DEF RunCommand
  <2>3. CASE m = item[w]
    <3>1. ~r.err
      BY <2>2, <2>3
    <3>2. step'[w] \in {"wait", "record", "forget"}
      BY <2>2, <3>1 DEF Go, AfterCommand
    <3> QED
      BY <2>1, <2>3, <3>2
  <2>4. CASE m # item[w]
    BY <2>1, <2>2, <2>4, RuntimeElsewhere
  <2> QED
    BY <2>3, <2>4
<1>16. CASE Started(w)
  BY <1>16 DEF Started, Go, Fail, section, batch, world
<1>17. CASE WaitTimesOut(w)
  BY <1>17 DEF WaitTimesOut, GiveUpWaiting, Go, Fail, section, batch, world
<1>18. CASE Record(w)
  <2>1. /\ item[w] \in Names /\ UNCHANGED <<item, instance>>
        /\ plan[w][item[w]] \in {"start", "restart", "stop"} /\ step[w] = "record"
    BY <1>18 DEF Record
  <2>2. PICK r \in StatementResults(ctx[w]) :
          /\ managed' = IF r.err \/ ~Managed(item[w]) THEN managed
                        ELSE [managed EXCEPT ![item[w]] = Desired(plan[w][item[w]])]
          /\ disturbed' = IF r.err THEN disturbed \cup {item[w]} ELSE disturbed
    BY <1>18 DEF Record
  <2>3. CASE m # item[w]
    BY <2>1, <2>2, <2>3
  <2>4. CASE m = item[w]
    <3>1. ~r.err /\ m \notin disturbed /\ managed[m] # "none"
      BY <2>2, <2>4
    <3>2. managed'[m] = Desired(plan[w][m])
      BY <2>1, <2>2, <2>4, <3>1
    <3>3. Up(m) <=> plan[w][m] # "stop"
      BY <2>1, <2>4, <3>1
    <3> QED
      BY <2>1, <2>4, <3>2, <3>3 DEF Desired
  <2> QED
    BY <2>3, <2>4
<1>19. CASE Forget(w)
  BY <1>19 DEF Forget, Go, Fail, section, batch, world
<1>20. CASE Audit(w)
  BY <1>20 DEF Audit, Go, Fail, section, batch, world
<1>21. CASE TakeName(w)
  BY <1>21 DEF TakeName, Go, Fail, section, batch, world
<1>22. CASE NoNameLeft(w)
  BY <1>22 DEF NoNameLeft, Go, Fail, section, batch, world
<1>23. CASE Unlock(w)
  BY <1>23 DEF Unlock, Go, Fail, section, batch, world
<1>24. CASE WaitBreaks(w)
  BY <1>24 DEF WaitBreaks, GiveUpWaiting, Go, Fail, section, batch, world
<1> QED
  BY <1>1, <1>2, <1>3, <1>4, <1>5, <1>6, <1>7, <1>8, <1>9, <1>10, <1>11, <1>12, <1>13, <1>14,
     <1>15, <1>16, <1>17, <1>18, <1>19, <1>20, <1>21, <1>22, <1>23, <1>24 DEF Work, CreateStep, ItemStep

-----------------------------------------------------------------------------
(* The invariant.                                                          *)

\* A worker's step leaves every name at rest in agreement.
LEMMA RestAgreesStep ==
    ASSUME Typed, Safe, NEW w \in Workers, Work(w) \/ WaitBreaks(w)
    PROVE  RestAgrees'
<1> SUFFICES ASSUME NEW m \in Names \ disturbed', Managed(m)', Present(m)',
                    \A v \in Workers : ~InHand(v, m)'
             PROVE  Agrees(m)'
  BY DEF RestAgrees
<1>1. \A v \in Workers \ {w} : ~InHand(v, m)
  BY OthersHoldNothing DEF Safe
<1>2. m \notin disturbed /\ Managed(m) /\ Present(m) /\ ~InHand(w, m) => Agrees(m)
  BY <1>1 DEF Safe, RestAgrees
<1> QED
  BY <1>2, RestStepAt DEF Safe, Sound

\* A worker that does nothing afterwards is sound afterwards.
LEMMA IdleIsSound ==
    ASSUME Typed', NEW v \in Workers, kind'[v] = "idle", Clean(v)'
    PROVE  Sound(v)'
<1>1. step'[v] = "idle" /\ \A n \in Names : plan'[v][n] = "none"
  BY DEF Typed, Shape, WellFormed, PlansOf
<1> QED
  BY <1>1 DEF Sound, Own, Building, Recorded, Current, Achieved, Forgetting, Clean

\* The steps of a worker keep the invariant.
LEMMA WorkIsSafe ==
    ASSUME Typed, Safe, NEW w \in Workers, Work(w) \/ WaitBreaks(w)
    PROVE  Safe'
<1>1. Typed' /\ MutationsAreSerialised'
  BY TypedStep, SerialisedStep DEF Safe, Next
<1>2. Sound(w)'
  BY OwnStep, RecordedStep, CurrentStep, AchievedStep DEF Safe, Sound
<1>3. ASSUME NEW v \in Workers \ {w} PROVE Sound(v)'
  <2>1. kind'[v] = "idle"
    BY Alone, WorkerIsBusy, OthersKeepTheirPlace DEF Safe
  <2>2. Clean(v)'
    BY <2>1, OthersKeepTheirPlace DEF Safe, Sound, Clean
  <2> QED
    BY <1>1, <2>1, <2>2, IdleIsSound
<1> QED
  BY <1>1, <1>2, <1>3, RestAgreesStep DEF Safe

\* An operation begins: what it plans is what the rows say, and no name is in
\* its hand yet.
LEMMA BeginIsSafe ==
    ASSUME Typed, Safe, NEW w \in Workers, NEW k \in Kinds \ {"idle"},
           NEW p \in [Names -> PlansOf(k)], Begun(w, k, p), Typed', MutationsAreSerialised'
    PROVE  Safe'
<1> USE DEF Begun, Lock
<1>1. \A v \in Workers : kind[v] = "idle" /\ step[v] = "idle"
  BY DistinctNoOne DEF Safe, MutationsAreSerialised, Typed, Shape, WellFormed
<1>2. /\ step'[w] = "next" /\ plan'[w] = p /\ kind'[w] = k
      /\ \A v \in Workers \ {w} : kind'[v] = "idle" /\ step'[v] = "idle"
      /\ UNCHANGED <<instance, maker, managed, limit, disturbed, created, undo, made, item, failed>>
  BY <1>1 DEF Typed, TypeOK, world, batch
<1>3. Sound(w)'
  <2>1. Clean(w)' /\ Own(w)' /\ Recorded(w)'
    BY <1>1, <1>2 DEF Safe, Sound, Clean, Own, Building, Recorded
  <2>2. Achieved(w)' /\ Forgetting(w)'
    BY <1>2 DEF Achieved, Forgetting
  <2>3. Current(w)'
    <3>1. k \in RepairKinds => \A n \in Names : p[n] # "none" => managed[n] = Desired(p[n])
      BY DEF Drift, Managed, Desired, Typed, TypeOK, DesiredStates
    <3>2. k = "policy" => \A n \in Names : p[n] # "none" => Managed(n) /\ limit[n] # "none"
      BY DEF Limited
    <3> QED
      BY <1>2, <3>1, <3>2 DEF Current, Managed
  <2> QED
    BY <2>1, <2>2, <2>3 DEF Sound
<1>4. ASSUME NEW v \in Workers \ {w} PROVE Sound(v)'
  <2>1. Clean(v)'
    BY <1>1, <1>2 DEF Safe, Sound, Clean
  <2> QED
    BY <1>2, <2>1, IdleIsSound
<1>5. RestAgrees'
  BY <1>1, <1>2 DEF Safe, RestAgrees, InHand, Managed, Present, Agrees, Up
<1> QED
  BY <1>3, <1>4, <1>5 DEF Safe

\* Nobody works while the mutex is free.
LEMMA NobodyWorks ==
    ASSUME Typed, MutationsAreSerialised, mutationMu = NoOne, NEW v \in Workers
    PROVE  kind[v] = "idle"
BY DistinctNoOne DEF MutationsAreSerialised

\* So does whatever happens around Natbox, the death of the process included.
LEMMA EnvironmentIsSafe ==
    ASSUME Typed, Safe, RowChange \/ Disturbance \/ CalmDown, Typed', MutationsAreSerialised'
    PROVE  Safe'
<1> USE DEF world, batch, section
<1>1. ASSUME NEW n \in Names, Operator(n) PROVE Safe'
  <2>1. ASSUME NEW v \in Workers PROVE Sound(v)'
    <3>1. Clean(v)' /\ Own(v)' /\ Recorded(v)'
      BY <1>1 DEF Operator, Safe, Sound, Clean, Own, Building, Recorded
    <3>2. Current(v)'
      BY <1>1 DEF Operator, Safe, Sound, Current, Managed, Typed, TypeOK
    <3>3. Achieved(v)'
      BY <1>1 DEF Operator, Safe, Sound, Achieved, Up, Present, Typed, TypeOK
    <3>4. Forgetting(v)'
      <4>1. step[v] = "forget" => item[v] \in Names
        BY DEF Typed, Shape, WellFormed, NamedSteps
      <4> QED
        BY <1>1, <4>1 DEF Operator, Safe, Sound, Forgetting, Present, Typed, TypeOK
    <3> QED
      BY <3>1, <3>2, <3>3, <3>4 DEF Sound
  <2>2. RestAgrees'
    BY <1>1 DEF Operator, Safe, RestAgrees, InHand, Managed, Present, Agrees, Up, Typed, TypeOK
  <2> QED
    BY <2>1, <2>2 DEF Safe
<1>2. ASSUME NEW n \in Names, Address(n) PROVE Safe'
  <2>1. \A m \in Names : (Up(m)' <=> Up(m)) /\ (Present(m)' <=> Present(m))
    BY <1>2 DEF Address, Up, Present, Typed, TypeOK
  <2>2. ASSUME NEW v \in Workers PROVE Sound(v)'
    <3>1. Clean(v)' /\ Own(v)' /\ Recorded(v)' /\ Current(v)'
      BY <1>2 DEF Address, Safe, Sound, Clean, Own, Building, Recorded, Current, Managed
    <3>2. Achieved(v)'
      BY <1>2, <2>1 DEF Address, Safe, Sound, Achieved
    <3>3. Forgetting(v)'
      <4>1. step[v] = "forget" => item[v] \in Names
        BY DEF Typed, Shape, WellFormed, NamedSteps
      <4> QED
        BY <1>2, <2>1, <4>1 DEF Address, Safe, Sound, Forgetting
    <3> QED
      BY <3>1, <3>2, <3>3 DEF Sound
  <2>3. RestAgrees'
    BY <1>2, <2>1 DEF Address, Safe, RestAgrees, InHand, Managed, Agrees
  <2> QED
    BY <2>2, <2>3 DEF Safe
<1>3. ASSUME NEW n \in Names, ReachLimit(n) PROVE Safe'
  <2>1. \A m \in Names : limit[m] # "none" => limit'[m] # "none"
    BY <1>3 DEF ReachLimit, Typed, TypeOK
  <2>2. ASSUME NEW v \in Workers PROVE Sound(v)'
    BY <1>3, <2>1 DEF ReachLimit, Safe, Sound, Clean, Own, Building, Recorded, Current, Managed,
       Achieved, Forgetting, Up, Present
  <2>3. RestAgrees'
    BY <1>3 DEF ReachLimit, Safe, RestAgrees, InHand, Managed, Present, Agrees, Up
  <2> QED
    BY <2>2, <2>3 DEF Safe
<1>4. ASSUME UNCHANGED <<world, batch, kind, step, item, plan, failed>> PROVE Safe'
  <2>1. ASSUME NEW v \in Workers PROVE Sound(v)'
    BY <1>4 DEF Safe, Sound, Clean, Own, Building, Recorded, Current, Managed,
       Achieved, Forgetting, Up, Present
  <2>2. RestAgrees'
    BY <1>4 DEF Safe, RestAgrees, InHand, Managed, Present, Agrees, Up
  <2> QED
    BY <2>1, <2>2 DEF Safe
<1>5. ASSUME Crash PROVE Safe'
  <2>1. ASSUME NEW v \in Workers PROVE Sound(v)'
    <3>1. kind'[v] = "idle" /\ Clean(v)'
      BY <1>5 DEF Crash, Clean
    <3> QED
      BY <3>1, IdleIsSound
  <2>2. RestAgrees'
    BY <1>5 DEF Crash, Safe, RestAgrees, InHand, Managed, Present, Agrees, Up
  <2> QED
    BY <2>1, <2>2 DEF Safe
<1>6. ASSUME RowChange PROVE Safe'
  <2>1. /\ mutationMu = NoOne
        /\ UNCHANGED <<instance, kind, step, item, created, made, undo, failed>>
        /\ disturbed' = Names \/ UNCHANGED <<managed, disturbed>>
    BY <1>6 DEF RowChange, RestoreBackup, RestoredRows, UpdatePolicy
  <2>2. ASSUME NEW v \in Workers PROVE Sound(v)'
    <3>1. kind'[v] = "idle" /\ Clean(v)'
      BY <2>1, NobodyWorks DEF Safe, Sound, Clean
    <3> QED
      BY <3>1, IdleIsSound
  <2>3. RestAgrees'
    BY <2>1 DEF Safe, RestAgrees, InHand, Managed, Present, Agrees, Up
  <2> QED
    BY <2>2, <2>3 DEF Safe
<1>7. CASE CalmDown \/ \E w \in Workers : HangUp(w)
  BY <1>4, <1>7 DEF CalmDown, HangUp
<1> QED
  BY <1>1, <1>2, <1>3, <1>5, <1>6, <1>7 DEF Disturbance

\* The invariant holds of an idle service.
LEMMA SafeInit == Init => Safe
<1> SUFFICES ASSUME Init PROVE Safe
  OBVIOUS
<1>1. MutationsAreSerialised
  BY DistinctNoOne DEF Init, MutationsAreSerialised
<1>2. RestAgrees
  BY DEF Init, RestAgrees, Managed
<1>3. ASSUME NEW v \in Workers PROVE Sound(v)
  BY DEF Init, NoPlan, Sound, Clean, Own, Building, Recorded, Current, Achieved, Forgetting
<1> QED
  BY <1>1, <1>2, <1>3 DEF Safe

\* And every step keeps it.
LEMMA SafeStep == Typed /\ Safe /\ [Next]_vars => Safe'
<1> SUFFICES ASSUME Typed, Safe, [Next]_vars PROVE Safe'
  OBVIOUS
<1>1. Typed' /\ MutationsAreSerialised'
  BY TypedStep, SerialisedStep DEF Safe
<1>2. CASE CreateBegins \/ RequestBegins \/ BeginRepair(RepairLoop) \/ BeginPolicy
  BY <1>1, <1>2, BeginsLock, BeginIsSafe DEF SomeBegun
<1>3. CASE RowChange \/ Disturbance \/ CalmDown
  BY <1>1, <1>3, EnvironmentIsSafe
<1>4. CASE \E w \in Workers : Work(w) \/ WaitBreaks(w)
  BY <1>4, WorkIsSafe
<1>5. CASE UNCHANGED vars
  <2>1. ASSUME NEW v \in Workers PROVE Sound(v)'
    BY <1>5 DEF vars, world, batch, section, Safe, Sound, Clean, Own, Building, Recorded,
       Current, Managed, Achieved, Forgetting, Up, Present
  <2>2. RestAgrees'
    BY <1>5 DEF vars, world, batch, section, Safe, RestAgrees, InHand, Managed, Present, Agrees, Up
  <2> QED
    BY <1>1, <2>1, <2>2 DEF Safe
<1> QED
  BY <1>2, <1>3, <1>4, <1>5 DEF Next

\* The inductive invariant of the service.
THEOREM AlwaysSafe == Spec => [](Typed /\ Safe)
<1>1. Init => Typed /\ Safe
  BY TypedInit, SafeInit
<1>2. Typed /\ Safe /\ [Next]_vars => (Typed /\ Safe)'
  BY TypedStep, SafeStep
<1> QED
  BY <1>1, <1>2, PTL DEF Spec

-----------------------------------------------------------------------------
(* What follows.                                                           *)

\* The mutex is held exactly by the worker that is executing a mutation: never
\* two at once, and never nobody's work under a mutex that stays taken.
THEOREM Serialised == Spec => []MutationsAreSerialised
<1>1. Safe => MutationsAreSerialised
  BY DEF Safe
<1> QED
  BY AlwaysSafe, <1>1, PTL

\* No rollback, of one create or of a batch, deletes an instance that the
\* operation did not make.
THEOREM RollbackIsOwn == Spec => []RollbackOnlyOwn
<1>1. Safe => RollbackOnlyOwn
  BY DEF Safe, Sound, Own, Building, RollbackOnlyOwn, RollbackTargets
<1> QED
  BY AlwaysSafe, <1>1, PTL

\* What a create has completed is declared running for as long as it runs.
THEOREM CreatedManaged == Spec => []CreatedAreManaged
<1>1. Safe => CreatedAreManaged
  BY DEF Safe, Sound, Recorded, CreatedAreManaged
<1> QED
  BY AlwaysSafe, <1>1, PTL

\* A repair and a policy pass act on rows that still say what they read.
THEOREM PlansCurrent == Spec => []PlansAreCurrent
<1>1. Safe => PlansAreCurrent
  BY DEF Safe, Sound, Current, PlansAreCurrent
<1> QED
  BY AlwaysSafe, <1>1, PTL

\* A row is only deleted after its instance.
THEOREM RowsOutlive == Spec => []RowOutlivesInstance
<1>1. Safe => RowOutlivesInstance
  BY DEF Safe, Sound, Forgetting, RowOutlivesInstance
<1> QED
  BY AlwaysSafe, <1>1, PTL

\* With the mutex free, every managed instance that nothing outside a
\* successful operation touched is in its declared state.
THEOREM AgreeAtRest == Spec => []AgreementAtRest
<1>1. Typed /\ Safe => AgreementAtRest
  <2> SUFFICES ASSUME Typed, Safe, mutationMu = NoOne, NEW n \in Names \ disturbed,
                      Managed(n), Present(n)
               PROVE  Agrees(n)
    BY DEF AgreementAtRest
  <2>1. \A w \in Workers : ~InHand(w, n)
    BY NobodyWorks DEF Safe, Typed, Shape, WellFormed, InHand
  <2> QED
    BY <2>1 DEF Safe, RestAgrees
<1> QED
  BY AlwaysSafe, <1>1, PTL

\* Nothing changes a row while a repair holds the mutex: what a repair records
\* is what the row says.
LEMMA RepairKeepsRows ==
    ASSUME Typed, Safe, [Next]_vars, NEW w \in Workers, mutationMu = w, kind[w] \in RepairKinds
    PROVE  managed' = managed
<1>1. CASE CreateBegins \/ RequestBegins \/ BeginRepair(RepairLoop) \/ BeginPolicy
  BY <1>1, BeginsLock DEF SomeBegun, Begun, Lock, world
<1>2. CASE RowChange \/ Disturbance \/ CalmDown
  BY <1>2, DistinctNoOne DEF RowChange, RestoreBackup, RestoredRows, UpdatePolicy, Disturbance, Operator,
     Address, ReachLimit, HangUp, Crash, CalmDown, world
<1>3. ASSUME NEW v \in Workers, Work(v) \/ WaitBreaks(v) PROVE managed' = managed
  <2>1. v = w
    BY <1>3, WorkerIsBusy DEF Safe, MutationsAreSerialised
  <2>2. CASE Record(w)
    <3>1. item[w] \in Names /\ plan[w][item[w]] # "none"
      BY <2>2 DEF Record, Typed, Shape, WellFormed, NamedSteps, PlansAt
    <3>2. managed[item[w]] = Desired(plan[w][item[w]])
      BY <3>1 DEF Safe, Sound, Current
    <3> QED
      BY <2>2, <3>1, <3>2 DEF Record, Typed, TypeOK
  <2>3. ~Persist(w) /\ ~Forget(w)
    BY DEF Persist, Forget, Typed, Shape, WellFormed, NamedSteps, PlansAt, PlansOf
  <2> QED
    BY <1>3, <2>1, <2>2, <2>3, RowsKept
<1>4. CASE UNCHANGED vars
  BY <1>4 DEF vars, world
<1> QED
  BY <1>1, <1>2, <1>3, <1>4 DEF Next

\* A repair changes no declaration.
THEOREM RepairsKeepDeclarations == Spec => RepairKeepsDeclarations
<1> DEFINE Kept == \A w \in Workers : mutationMu = w /\ kind[w] \in RepairKinds => managed' = managed
<1>1. Typed /\ Safe /\ [Next]_vars => Kept
  BY RepairKeepsRows
<1>2. Typed /\ Safe /\ [Next]_vars => [Kept]_vars
  BY <1>1
<1>3. [][Kept]_vars <=> RepairKeepsDeclarations
  BY DEF RepairKeepsDeclarations
<1> HIDE DEF Kept
<1> QED
  BY AlwaysSafe, <1>2, <1>3, PTL DEF Spec

\* The command of a repair leaves its instance as it was, or as the row declares
\* it: a report that has grown stale is refused or is true again.
LEMMA RepairCommandRepairs ==
    ASSUME Typed, Safe, NEW w \in Workers, kind[w] \in RepairKinds, RunCommand(w)
    PROVE  Drifted' \subseteq Drifted
<1> DEFINE n == item[w]
           cmd == plan[w][n]
<1>1. n \in Names /\ cmd \in {"start", "stop"}
  BY DEF RunCommand, Typed, Shape, WellFormed, NamedSteps, PlansAt, PlansOf
<1>2. managed[n] = Desired(cmd) /\ managed' = managed
  BY <1>1 DEF Safe, Sound, Current, RunCommand
<1>3. PICK r \in CommandResults(cmd, instance[n], ctx[w]) : Runtime(n, cmd, r.state)
  BY DEF RunCommand
<1>4. r.state = instance[n] \/ r.state = (IF cmd = "start" THEN "running" ELSE "stopped")
  BY <1>1 DEF CommandResults, Leftovers, Outcome
<1> HIDE DEF n, cmd
<1>5. instance' = [instance EXCEPT ![n] = r.state] /\ instance \in [Names -> InstanceStates]
  BY <1>3 DEF Runtime, Typed, TypeOK
<1>6. ASSUME NEW m \in Names \ {n} PROVE m \in Drifted' <=> m \in Drifted
  BY <1>2, <1>5 DEF Drifted, Managed, Present, Agrees, Up
<1>7. n \in Drifted' => n \in Drifted
  BY <1>1, <1>2, <1>4, <1>5 DEF Drifted, Managed, Present, Agrees, Up, Desired
<1> QED
  BY <1>6, <1>7 DEF Drifted

\* No step of a repair, whatever it read and whatever fails, takes an instance
\* out of its declared state: drift only shrinks in its hands.
THEOREM RepairsRepair == Spec => RepairsOnlyRepair
<1> DEFINE Mended ==
      \A w \in Workers : kind[w] \in RepairKinds /\ Work(w) => Drifted' \subseteq Drifted
<1>1. Typed /\ Safe /\ [Next]_vars => Mended
  <2> SUFFICES ASSUME Typed, Safe, [Next]_vars,
                      NEW w \in Workers, kind[w] \in RepairKinds, Work(w)
               PROVE  Drifted' \subseteq Drifted
    OBVIOUS
  <2>1. mutationMu = w
    BY DEF Safe, MutationsAreSerialised
  <2>2. managed' = managed
    BY <2>1, RepairKeepsRows
  <2>3. CASE RunCommand(w)
    BY <2>3, RepairCommandRepairs
  <2>4. CASE ~RunCommand(w)
    <3>1. step[w] \notin CreateSteps
      BY DEF Typed, Shape, WellFormed
    <3>2. ~CreateStep(w)
      BY <3>1 DEF CreateStep, InitInstance, Configure, Launch, Unwind, HaveAddress, NoAddress, InstallKey,
         Persist, Created, AllocateSSH, Cleanup, CleanedUp, Report
    <3>3. UNCHANGED instance
      BY <2>4, <3>2 DEF Work, ItemStep, CheckQuota, Started, WaitTimesOut, GiveUpWaiting, Record, Forget,
         Audit, TakeName, NoNameLeft, Unlock, world
    <3> QED
      BY <2>2, <3>3 DEF Drifted, Managed, Present, Agrees, Up
  <2> QED
    BY <2>3, <2>4
<1>2. Typed /\ Safe /\ [Next]_vars => [Mended]_vars
  BY <1>1
<1>3. [][Mended]_vars <=> RepairsOnlyRepair
  BY DEF RepairsOnlyRepair
<1> HIDE DEF Mended
<1> QED
  BY AlwaysSafe, <1>2, <1>3, PTL DEF Spec

\* The two loops do one thing each.
Posted == kind[PolicyLoop] \in {"idle", "policy"} /\ kind[RepairLoop] \in {"idle", "autoRepair"}

LEMMA PostedStep == Typed /\ Posted /\ [Next]_vars => Posted'
<1> SUFFICES ASSUME Typed, Posted, [Next]_vars PROVE Posted'
  OBVIOUS
<1> USE DistinctLoops DEF Posted
<1>1. ASSUME NEW w \in Workers, NEW k, NEW p, Lock(w, k, p),
             w = PolicyLoop => k = "policy", w = RepairLoop => k = "autoRepair"
      PROVE  Posted'
  BY <1>1 DEF Lock, Workers, Typed, TypeOK
<1>2. CASE CreateBegins
  BY <1>1, <1>2 DEF CreateBegins, BeginCreate, BeginBulkCreate, Workers
<1>3. CASE RequestBegins
  <2>1. PICK w \in Requests :
           \/ \E n \in Names, cmd \in Commands : BeginAction(w, n, cmd)
           \/ \E names \in (SUBSET Names) \ {{}}, cmd \in Commands : BeginBulkAction(w, names, cmd)
           \/ BeginRepair(w)
    BY <1>3 DEF RequestBegins
  <2>2. w \in Workers /\ w # PolicyLoop /\ w # RepairLoop
    BY DEF Workers
  <2>3. \E k, p : Lock(w, k, p)
    BY <2>1 DEF BeginAction, BeginBulkAction, BeginRepair
  <2> QED
    BY <1>1, <2>2, <2>3
<1>4. CASE BeginRepair(RepairLoop) \/ BeginPolicy
  BY <1>1, <1>4 DEF BeginRepair, BeginPolicy, Workers
<1>5. CASE \E w \in Workers : Work(w) \/ WaitBreaks(w)
  <2>1. PICK w \in Workers : Work(w) \/ WaitBreaks(w)
    BY <1>5
  <2>2. CASE Unlock(w)
    BY <2>2 DEF Unlock, Workers, Typed, TypeOK
  <2>3. CASE ~Unlock(w)
    BY <2>1, <2>3, SectionKept DEF section
  <2> QED
    BY <2>2, <2>3
<1>6. CASE RowChange \/ Disturbance \/ CalmDown
  BY <1>6 DEF RowChange, RestoreBackup, UpdatePolicy, Disturbance, Operator, Address, ReachLimit, HangUp,
     Crash, CalmDown, section, Workers
<1>7. CASE UNCHANGED vars
  BY <1>7 DEF vars, section
<1> QED
  BY <1>2, <1>3, <1>4, <1>5, <1>6, <1>7 DEF Next

\* What a step of a loop does to one container, once it is alone.
LEMMA LoopSettles ==
    ASSUME Typed, Safe, [Next]_vars, NEW w \in Workers, Work(w) \/ WaitBreaks(w),
           kind[w] \in {"policy", "autoRepair"}, NEW n \in Names
    PROVE  /\ managed'[n] = managed[n] \/ (managed[n] = "running" /\ managed'[n] = "stopped")
           /\ ~Up(n) /\ Up(n)' => managed[n] = "running"
<1> USE DEF Typed
<1>1. step[w] \notin CreateSteps
  BY DEF Shape, WellFormed
<1>2. ~CreateStep(w)
  BY <1>1 DEF CreateStep, InitInstance, Configure, Launch, Unwind, HaveAddress, NoAddress, InstallKey,
     Persist, Created, AllocateSSH, Cleanup, CleanedUp, Report
<1>3. managed'[n] = managed[n] \/ (managed[n] = "running" /\ managed'[n] = "stopped")
  <2>1. CASE Record(w)
    <3>1. /\ item[w] \in Names /\ plan[w][item[w]] \in {"start", "stop"}
          /\ kind[w] = "policy" => plan[w][item[w]] = "stop"
      BY <2>1 DEF Record, Shape, WellFormed, NamedSteps, PlansAt, PlansOf
    <3>2. kind[w] = "autoRepair" => managed[item[w]] = Desired(plan[w][item[w]])
      BY <3>1 DEF Safe, Sound, Current
    <3>3. \/ managed' = managed
          \/ /\ Managed(item[w])
             /\ managed' = [managed EXCEPT ![item[w]] = Desired(plan[w][item[w]])]
      BY <2>1 DEF Record
    <3>4. managed' = managed \/ (Managed(item[w]) /\ managed' = [managed EXCEPT ![item[w]] = "stopped"])
      <4>1. CASE kind[w] = "autoRepair"
        <5>1. [managed EXCEPT ![item[w]] = managed[item[w]]] = managed
          BY DEF TypeOK
        <5> QED
          BY <3>2, <3>3, <4>1, <5>1
      <4>2. CASE kind[w] = "policy"
        <5>1. Desired(plan[w][item[w]]) = "stopped"
          BY <3>1, <4>2 DEF Desired
        <5> QED
          BY <3>3, <5>1
      <4> QED
        BY <4>1, <4>2
    <3> QED
      BY <3>1, <3>4 DEF TypeOK, DesiredStates, Managed
  <2>2. ~Forget(w) /\ ~Persist(w)
    BY <1>2 DEF Forget, CreateStep, Shape, WellFormed, NamedSteps, PlansAt, PlansOf
  <2> QED
    BY <2>1, <2>2, RowsKept
<1>4. ~Up(n) /\ Up(n)' => managed[n] = "running"
  <2>1. CASE RunCommand(w)
    <3> DEFINE m == item[w]
               cmd == plan[w][m]
    <3>1. m \in Names /\ cmd \in {"start", "stop"} /\ (kind[w] = "policy" => cmd = "stop")
      BY <2>1 DEF RunCommand, Shape, WellFormed, NamedSteps, PlansAt, PlansOf
    <3>2. kind[w] = "autoRepair" => managed[m] = Desired(cmd)
      BY <3>1 DEF Safe, Sound, Current
    <3>3. PICK r \in CommandResults(cmd, instance[m], ctx[w]) : Runtime(m, cmd, r.state)
      BY <2>1 DEF RunCommand
    <3>4. r.state = instance[m] \/ r.state = (IF cmd = "start" THEN "running" ELSE "stopped")
      BY <3>1 DEF CommandResults, Leftovers, Outcome
    <3> HIDE DEF m, cmd
    <3>5. instance' = [instance EXCEPT ![m] = r.state] /\ instance \in [Names -> InstanceStates]
      BY <3>3 DEF Runtime, TypeOK
    <3>6. ~Up(n) /\ Up(n)' => m = n /\ cmd = "start"
      BY <3>1, <3>4, <3>5 DEF Up
    <3> QED
      BY <3>1, <3>2, <3>6 DEF Desired
  <2>2. CASE ~RunCommand(w)
    <3>1. UNCHANGED instance
      BY <2>2, <1>2 DEF Work, ItemStep, CheckQuota, Started, WaitTimesOut, WaitBreaks, GiveUpWaiting,
         Record, Forget, Audit, TakeName, NoNameLeft, Unlock, world
    <3> QED
      BY <3>1 DEF Up
  <2> QED
    BY <2>1, <2>2
<1> QED
  BY <1>3, <1>4

\* Left alone, policy and repair do not undo each other's work: a row only ever
\* turns from running to stopped, and only what is declared running is started,
\* so that no stop, once recorded, is undone.
THEOREM LoopsAgree == Spec => LoopsSettle
<1> DEFINE Settles ==
      calm /\ mutationMu \notin Requests =>
         \A n \in Names :
            /\ managed'[n] = managed[n] \/ (managed[n] = "running" /\ managed'[n] = "stopped")
            /\ ~Up(n) /\ Up(n)' => managed[n] = "running"
<1>1. Init => Posted
  BY DEF Init, Posted, Workers
<1>2. Typed /\ Safe /\ Posted /\ [Next]_vars => Settles
  <2> SUFFICES ASSUME Typed, Safe, Posted, [Next]_vars, calm, mutationMu \notin Requests, NEW n \in Names
               PROVE  /\ managed'[n] = managed[n] \/ (managed[n] = "running" /\ managed'[n] = "stopped")
                      /\ ~Up(n) /\ Up(n)' => managed[n] = "running"
    OBVIOUS
  <2>1. CASE CreateBegins \/ RequestBegins \/ BeginRepair(RepairLoop) \/ BeginPolicy
    BY <2>1, BeginsLock DEF SomeBegun, Begun, Lock, world, Up
  <2>2. CASE RowChange \/ Disturbance \/ CalmDown
    BY <2>2 DEF RowChange, RestoreBackup, UpdatePolicy, Disturbance, Operator, Possible, Address,
       ReachLimit, HangUp, Crash, CalmDown, world, Up, Typed, TypeOK
  <2>3. ASSUME NEW w \in Workers, Work(w) \/ WaitBreaks(w) PROVE kind[w] \in {"policy", "autoRepair"}
    <3>1. kind[w] # "idle" /\ mutationMu = w
      BY <2>3, WorkerIsBusy DEF Safe, MutationsAreSerialised
    <3> QED
      BY <3>1 DEF Posted, Workers
  <2>4. CASE UNCHANGED vars
    BY <2>4 DEF vars, world, Up
  <2> QED
    BY <2>1, <2>2, <2>3, <2>4, LoopSettles DEF Next
<1>3. Typed /\ Safe /\ Posted /\ [Next]_vars => [Settles]_vars
  BY <1>2
<1>4. [][Settles]_vars <=> LoopsSettle
  BY DEF LoopsSettle
<1> HIDE DEF Settles
<1> QED
  BY AlwaysSafe, PostedStep, <1>1, <1>3, <1>4, PTL DEF Spec

=============================================================================

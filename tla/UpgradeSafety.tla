---------------------------- MODULE UpgradeSafety ----------------------------
(***************************************************************************)
(* An upgrade happens or does not, and never loses the programs it found,  *)
(* for any number of attempts.                                             *)
(***************************************************************************)
EXTENDS Upgrade, TLAPS

\* The temporary files of an attempt are looked at in every step that ends one.
USE DEF Own

\* Steps with the programs untouched, with one replaced, with both replaced,
\* and those of the roll back.
Preparing == {"fetch", "save", "saveHash", "stop", "stage", "place"}
HalfWay   == {"stageHash", "placeHash"}
Replaced  == {"start", "health"}
Undoing   == {"restore", "restart", "restoreHash"}

NotYetSaved(p) == step \in {"fetch", "save"} \/ (step = "saveHash" /\ p = "natbox-hash")
IsSaved(p) ==
    \/ step \in {"stop", "stage", "place"} \cup HalfWay \cup Replaced \cup Undoing
    \/ step = "saveHash" /\ p = "natbox"

\* The backup of an attempt is empty until it is written, and then what the
\* attempt found.
Backups ==
    /\ step # "ended" => attempt \in Attempts
    /\ \A p \in Programs :
          /\ \A i \in Attempts : i > attempt => saved[i][p] = "absent"
          /\ NotYetSaved(p) => saved[attempt][p] = "absent"
          /\ IsSaved(p) => saved[attempt][p] = before.file[p]

\* What is installed at each step.
Installed ==
    /\ step \in Preparing => file = before.file
    /\ step \in HalfWay => file["natbox"] = "new" /\ file["natbox-hash"] = before.file["natbox-hash"]
    /\ step \in Replaced => file["natbox"] = "new" /\ file["natbox-hash"] = "new"
    /\ step \in Undoing => \A p \in Programs : file[p] \in {"new", before.file[p]}
    /\ step \in {"restart", "restoreHash"} => file["natbox"] = before.file["natbox"]

\* What runs: the old program until the stop, the new one while its health is
\* asked for, and after the roll back what was found.
Served ==
    /\ step \in {"fetch", "save", "saveHash", "stop"} => running = before.running
    /\ step = "health" => running \in {"absent", "new"}
    /\ step = "restoreHash" /\ slipped \subseteq {"cleanup"} /\ Runnable(before.file["natbox"]) =>
           running # "absent"

Inv == TypeOK /\ Backups /\ Installed /\ Served /\ AllOrNothing /\ ServiceComesBack

\* The old program is somewhere.
Kept(p) == file[p] = "old" \/ \E i \in Attempts : saved[i][p] = "old"

-----------------------------------------------------------------------------

LEMMA UpgradeInit == Init => Inv
<1> SUFFICES ASSUME Init PROVE Inv
  OBVIOUS
<1> USE AttemptsAreNumbered DEF Init
<1>1. TypeOK
  <2>1. file["natbox"] \in {"old", "absent"}
    BY DEF Programs
  <2>2. running \in {"absent", "old", "new"}
    BY <2>1
  <2>3. file \in [Programs -> Contents]
    BY DEF Contents
  <2>4. saved \in [Attempts -> [Programs -> Contents]]
    BY DEF Contents
  <2> QED
    BY <2>2, <2>3, <2>4 DEF TypeOK, Steps
<1>2. Backups
  BY DEF Backups, NotYetSaved, IsSaved, HalfWay, Replaced, Undoing, Programs
<1>3. Installed /\ Served
  BY DEF Installed, Served, Preparing, HalfWay, Replaced, Undoing
<1>4. AllOrNothing /\ ServiceComesBack
  BY DEF AllOrNothing, ServiceComesBack
<1> QED
  BY <1>1, <1>2, <1>3, <1>4 DEF Inv

-----------------------------------------------------------------------------
(* One lemma for each kind of step.                                        *)

LEMMA BeginSafe ==
    ASSUME Inv, Begin
    PROVE  Inv' /\ \A p \in Programs : Kept(p) => Kept(p)'
<1> USE AttemptsAreNumbered DEF Inv, Begin
<1>1. attempt' \in Attempts /\ attempt' > attempt
  BY DEF TypeOK, Attempts
<1>2. TypeOK'
  BY <1>1 DEF TypeOK, Attempts, Steps
<1>3. Backups'
  BY <1>1 DEF Backups, TypeOK, Attempts, NotYetSaved, IsSaved, HalfWay, Replaced, Undoing
<1>4. Installed' /\ Served'
  BY DEF Installed, Served, Preparing, HalfWay, Replaced, Undoing
<1>5. AllOrNothing' /\ ServiceComesBack'
  BY DEF AllOrNothing, ServiceComesBack
<1> QED
  BY <1>2, <1>3, <1>4, <1>5 DEF Kept

LEMMA FetchSafe ==
    ASSUME Inv, Fetch
    PROVE  Inv' /\ \A p \in Programs : Kept(p) => Kept(p)'
<1> USE DEF Inv, Fetch, GoTo, Exit, script
<1>1. TypeOK'
  BY DEF TypeOK, Steps
<1>2. Backups'
  BY DEF Backups, NotYetSaved, IsSaved, HalfWay, Replaced, Undoing
<1>3. Installed' /\ Served'
  BY DEF Installed, Served, Preparing, HalfWay, Replaced, Undoing
<1>4. AllOrNothing' /\ ServiceComesBack'
  BY DEF AllOrNothing, ServiceComesBack, Installed, Served, Preparing
<1> QED
  BY <1>1, <1>2, <1>3, <1>4 DEF Kept

LEMMA SaveSafe ==
    ASSUME Inv, NEW p \in Programs, Save(p)
    PROVE  Inv' /\ \A q \in Programs : Kept(q) => Kept(q)'
<1> USE DEF Inv, GoTo, Exit, script
<1>1. /\ step = IF p = "natbox" THEN "save" ELSE "saveHash"
      /\ file' = file /\ running' = running
      /\ attempt' = attempt /\ before' = before
  BY DEF Save
<1>2. PICK c \in Contents :
         /\ saved' = [saved EXCEPT ![attempt][p] = c]
         /\ \/ c = file[p] /\ step' = (IF p = "natbox" THEN "saveHash" ELSE "stop")
               /\ temporaries' = temporaries /\ outcome' = outcome /\ slipped' = slipped
            \/ step' = "ended" /\ Exit("failure", slipped)
  <2>1. file[p] \in Contents /\ Remains("absent") \subseteq Contents
    BY DEF TypeOK, Remains, Contents
  <2> QED
    BY <2>1 DEF Save
<1>3. attempt \in Attempts /\ saved[attempt][p] = "absent" /\ file = before.file
  BY <1>1 DEF Backups, Installed, Preparing, NotYetSaved, Programs
<1>4. /\ saved' \in [Attempts -> [Programs -> Contents]]
      /\ saved'[attempt][p] = c
      /\ \A i \in Attempts, q \in Programs : i # attempt \/ q # p => saved'[i][q] = saved[i][q]
  BY <1>2, <1>3 DEF TypeOK
<1>5. TypeOK'
  BY <1>1, <1>2, <1>4 DEF TypeOK, Steps
<1>6. Backups'
  BY <1>1, <1>2, <1>3, <1>4 DEF Backups, NotYetSaved, IsSaved, HalfWay, Replaced, Undoing,
                                Programs, TypeOK, Attempts
<1>7. Installed' /\ Served'
  BY <1>1, <1>2, <1>3 DEF Installed, Served, Preparing, HalfWay, Replaced, Undoing, Programs
<1>8. AllOrNothing' /\ ServiceComesBack'
  BY <1>1, <1>2, <1>3 DEF AllOrNothing, ServiceComesBack, Served, Programs
<1>9. \A q \in Programs : Kept(q) => Kept(q)'
  BY <1>1, <1>3, <1>4 DEF Kept
<1> QED
  BY <1>5, <1>6, <1>7, <1>8, <1>9

LEMMA StopSafe ==
    ASSUME Inv, StopService
    PROVE  Inv' /\ \A p \in Programs : Kept(p) => Kept(p)'
<1> USE DEF Inv, StopService, GoTo, Exit, script
<1>1. TypeOK'
  BY DEF TypeOK, Steps
<1>2. Backups'
  BY DEF Backups, NotYetSaved, IsSaved, HalfWay, Replaced, Undoing
<1>3. Installed' /\ Served'
  BY DEF Installed, Served, Preparing, HalfWay, Replaced, Undoing
<1>4. AllOrNothing' /\ ServiceComesBack'
  BY DEF AllOrNothing, ServiceComesBack, Installed, Preparing
<1> QED
  BY <1>1, <1>2, <1>3, <1>4 DEF Kept

LEMMA StageSafe ==
    ASSUME Inv, NEW p \in Programs, Stage(p)
    PROVE  Inv' /\ \A q \in Programs : Kept(q) => Kept(q)'
<1> USE DEF Inv, Stage, script
<1>0. attempt \in Attempts
  BY DEF Backups
<1>1. TypeOK'
  BY <1>0 DEF TypeOK, Steps
<1>2. Backups'
  BY DEF Backups, NotYetSaved, IsSaved, HalfWay, Replaced, Undoing
<1>3. Installed'
  BY DEF Installed, Preparing, HalfWay, Replaced, Undoing, Programs
<1>4. Served' /\ AllOrNothing' /\ ServiceComesBack'
  BY DEF AllOrNothing, ServiceComesBack, Served
<1> QED
  BY <1>1, <1>2, <1>3, <1>4 DEF Kept

LEMMA PlaceSafe ==
    ASSUME Inv, NEW p \in Programs, Place(p)
    PROVE  Inv' /\ \A q \in Programs : Kept(q) => Kept(q)'
<1> USE DEF Inv, Place, script
<1>1. TypeOK'
  BY DEF TypeOK, Steps, Contents
<1>2. Backups'
  BY DEF Backups, NotYetSaved, IsSaved, HalfWay, Replaced, Undoing
<1>3. Installed'
  BY DEF Installed, Preparing, HalfWay, Replaced, Undoing, Programs, TypeOK
<1>4. Served' /\ AllOrNothing' /\ ServiceComesBack'
  BY DEF AllOrNothing, ServiceComesBack, Served
<1>5. attempt \in Attempts /\ saved[attempt][p] = before.file[p] /\ before.file[p] = file[p]
  BY DEF Backups, IsSaved, Installed, Preparing, HalfWay, Programs
<1>6. \A q \in Programs : Kept(q) => Kept(q)'
  BY <1>5 DEF Kept, TypeOK
<1> QED
  BY <1>1, <1>2, <1>3, <1>4, <1>6

LEMMA ServiceSafe ==
    ASSUME Inv, StartService \/ Healthy \/ Unhealthy
    PROVE  Inv' /\ \A p \in Programs : Kept(p) => Kept(p)'
<1> USE DEF Inv, StartService, Healthy, Unhealthy, GoTo, Exit, script
<1>0. file["natbox"] = "new" /\ file["natbox-hash"] = "new" /\ Started = "new"
  BY DEF Installed, Replaced, Started, Runnable
<1>1. TypeOK'
  BY <1>0 DEF TypeOK, Steps
<1>2. Backups'
  BY DEF Backups, NotYetSaved, IsSaved, HalfWay, Replaced, Undoing
<1>3. Installed'
  BY DEF Installed, Preparing, HalfWay, Replaced, Undoing, Programs
<1>4. Served'
  BY <1>0 DEF Served
<1>5. AllOrNothing' /\ ServiceComesBack'
  BY <1>0 DEF AllOrNothing, ServiceComesBack, Served, Programs
<1> QED
  BY <1>1, <1>2, <1>3, <1>4, <1>5 DEF Kept

\* What a restoration writes, or leaves, does not lose what is in the backup.
LEMMA RestoreKeeps ==
    ASSUME Inv, NEW p \in Programs, NEW c,
           step = (IF p = "natbox" THEN "restore" ELSE "restoreHash"),
           file' = [file EXCEPT ![p] = c], saved' = saved
    PROVE  \A q \in Programs : Kept(q) => Kept(q)'
<1>1. attempt \in Attempts /\ saved[attempt][p] = before.file[p] /\ file[p] \in {"new", before.file[p]}
  BY DEF Inv, Backups, IsSaved, Installed, Undoing, Programs
<1> QED
  BY <1>1 DEF Kept, Inv, TypeOK

LEMMA CutOffIsContents ==
    ASSUME TypeOK, NEW p \in Programs
    PROVE  CutOff(p) \subseteq Contents
BY DEF CutOff, Remains, Contents, TypeOK

LEMMA RestoreSafe ==
    ASSUME Inv, NEW p \in Programs, Restore(p)
    PROVE  Inv' /\ \A q \in Programs : Kept(q) => Kept(q)'
<1> USE DEF GoTo, Exit, script
<1>1. /\ attempt \in Attempts
      /\ \A q \in Programs : saved[attempt][q] = before.file[q] /\ file[q] \in {"new", before.file[q]}
      /\ p = "natbox-hash" => file["natbox"] = before.file["natbox"]
      /\ saved[attempt][p] \in Contents
  BY DEF Restore, Inv, Backups, IsSaved, Installed, Undoing, Programs, TypeOK
<1>2. CASE /\ file' = [file EXCEPT ![p] = saved[attempt][p]]
           /\ IF p = "natbox-hash" THEN Exit("failure", slipped)
              ELSE /\ GoTo(IF saved[attempt][p] = "absent" THEN "restoreHash" ELSE "restart")
                   /\ slipped' = slipped
  <2> USE <1>1, <1>2 DEF Restore
  <2>1. file'[p] = before.file[p] /\ \A q \in Programs : q # p => file'[q] = file[q]
    BY DEF Inv, TypeOK
  <2>2. TypeOK'
    BY DEF Inv, TypeOK, Steps
  <2>3. Backups'
    BY DEF Inv, Backups, NotYetSaved, IsSaved, HalfWay, Replaced, Undoing
  <2>4. Installed'
    BY <2>1 DEF Installed, Preparing, HalfWay, Replaced, Undoing, Programs
  <2>5. Served'
    BY DEF Served, Runnable, Inv, Programs
  <2>6. p = "natbox-hash" => file' = before.file
    BY <2>1 DEF Inv, TypeOK, Programs
  <2>7. AllOrNothing' /\ ServiceComesBack'
    BY <2>6 DEF AllOrNothing, ServiceComesBack, Served, Inv, Programs
  <2>8. \A q \in Programs : Kept(q) => Kept(q)'
    BY RestoreKeeps
  <2> QED
    BY <2>2, <2>3, <2>4, <2>5, <2>7, <2>8 DEF Inv
<1>3. ASSUME NEW c \in CutOff(p), file' = [file EXCEPT ![p] = c],
             Exit("failure", slipped \cup {"files"})
      PROVE  Inv' /\ \A q \in Programs : Kept(q) => Kept(q)'
  <2> USE <1>1, <1>3 DEF Restore
  <2>1. TypeOK'
    BY CutOffIsContents DEF Inv, TypeOK, Steps
  <2>2. Backups'
    BY DEF Inv, Backups, NotYetSaved, IsSaved, HalfWay, Replaced, Undoing
  <2>3. Installed' /\ Served'
    BY DEF Installed, Served, Preparing, HalfWay, Replaced, Undoing
  <2>4. AllOrNothing' /\ ServiceComesBack'
    BY DEF AllOrNothing, ServiceComesBack
  <2>5. \A q \in Programs : Kept(q) => Kept(q)'
    BY RestoreKeeps
  <2> QED
    BY <2>1, <2>2, <2>3, <2>4, <2>5 DEF Inv
<1> QED
  BY <1>2, <1>3 DEF Restore

LEMMA RestartSafe ==
    ASSUME Inv, Restart
    PROVE  Inv' /\ \A p \in Programs : Kept(p) => Kept(p)'
<1> USE DEF Inv, Restart, GoTo, script
<1>1. Started \in {"absent", "old", "new"}
  BY DEF Started, Runnable
<1>2. TypeOK'
  BY <1>1 DEF TypeOK, Steps
<1>3. Backups'
  BY DEF Backups, NotYetSaved, IsSaved, HalfWay, Replaced, Undoing
<1>4. Installed'
  BY DEF Installed, Preparing, HalfWay, Replaced, Undoing
<1>5. Served'
  BY DEF Served, Installed, Started, Runnable
<1>6. AllOrNothing' /\ ServiceComesBack'
  BY DEF AllOrNothing, ServiceComesBack
<1> QED
  BY <1>2, <1>3, <1>4, <1>5, <1>6 DEF Kept

\* A step that is killed leaves the backups it has not begun, and the program it
\* has not begun to restore.
LEMMA KillSafe ==
    ASSUME Inv, Kill
    PROVE  Inv' /\ \A q \in Programs : Kept(q) => Kept(q)'
<1> DEFINE p == IF step \in {"saveHash", "stageHash", "restoreHash"} THEN "natbox-hash" ELSE "natbox"
<1> USE DEF Kill, script
<1>1. attempt \in Attempts /\ p \in Programs
  BY DEF Inv, Backups, Programs
<1>2. CASE step \in {"restore", "restoreHash"}
  <2>1. PICK c \in CutOff(p) : file' = [file EXCEPT ![p] = c]
    BY <1>2
  <2>2. saved' = saved /\ step = (IF p = "natbox" THEN "restore" ELSE "restoreHash")
    BY <1>2
  <2>3. /\ file' \in [Programs -> Contents]
        /\ \A q \in Programs : Kept(q) => Kept(q)'
    BY <1>1, <2>1, <2>2, RestoreKeeps, CutOffIsContents DEF Inv, TypeOK
  <2> QED
    BY <1>1, <2>2, <2>3 DEF Inv, TypeOK, Steps, Backups, Installed, Served, AllOrNothing,
        ServiceComesBack, NotYetSaved, IsSaved, Preparing, HalfWay, Replaced, Undoing
<1>3. CASE step \in {"save", "saveHash"} /\ file[p] # "absent"
  <2>1. PICK c \in Remains("absent") : saved' = [saved EXCEPT ![attempt][p] = c]
    BY <1>3
  <2>2. file' = file /\ saved[attempt][p] = "absent"
    BY <1>1, <1>3 DEF Inv, Backups, NotYetSaved, Programs
  <2>3. /\ saved' \in [Attempts -> [Programs -> Contents]]
        /\ \A i \in Attempts, q \in Programs : i # attempt \/ q # p => saved'[i][q] = saved[i][q]
    BY <1>1, <2>1 DEF Inv, TypeOK, Remains, Contents
  <2>4. \A q \in Programs : Kept(q) => Kept(q)'
    BY <2>2, <2>3 DEF Kept
  <2> QED
    BY <1>1, <2>2, <2>3, <2>4 DEF Inv, TypeOK, Steps, Attempts, Backups, Installed, Served, AllOrNothing,
        ServiceComesBack, NotYetSaved, IsSaved, Preparing, HalfWay, Replaced, Undoing
<1>4. CASE ~(step \in {"restore", "restoreHash"}) /\ ~(step \in {"save", "saveHash"} /\ file[p] # "absent")
  <2>1. file' = file /\ saved' = saved
    BY <1>4
  <2> QED
    BY <1>1, <2>1 DEF Inv, TypeOK, Steps, Backups, Installed, Served, AllOrNothing, Kept,
        ServiceComesBack, NotYetSaved, IsSaved, Preparing, HalfWay, Replaced, Undoing
<1> QED
  BY <1>2, <1>3, <1>4

LEMMA BootSafe ==
    ASSUME Inv, Boot
    PROVE  Inv' /\ \A p \in Programs : Kept(p) => Kept(p)'
<1> USE DEF Inv, Boot, script
<1>1. Started \in {"absent", "old", "new"}
  BY DEF Started, Runnable
<1>2. TypeOK' /\ Backups' /\ Installed' /\ Served'
  BY <1>1 DEF TypeOK, Backups, Installed, Served, NotYetSaved, IsSaved, Preparing, HalfWay,
              Replaced, Undoing
<1>3. AllOrNothing'
  BY DEF AllOrNothing, Started, Runnable, Programs
<1>4. ServiceComesBack'
  BY DEF AllOrNothing, ServiceComesBack, Started, Runnable
<1> QED
  BY <1>2, <1>3, <1>4 DEF Kept

LEMMA UpgradeStep ==
    Inv /\ [Next]_vars => Inv' /\ \A p \in Programs : Kept(p) => Kept(p)'
<1> SUFFICES ASSUME Inv, [Next]_vars
             PROVE  Inv' /\ \A p \in Programs : Kept(p) => Kept(p)'
  OBVIOUS
<1>1. CASE UNCHANGED vars
  BY <1>1 DEF vars, script, Inv, TypeOK, Backups, Installed, Served, AllOrNothing, Kept,
              ServiceComesBack, NotYetSaved, IsSaved, Preparing, HalfWay, Replaced, Undoing
<1> QED
  BY <1>1, BeginSafe, FetchSafe, SaveSafe, StopSafe, StageSafe, PlaceSafe, ServiceSafe,
     RestoreSafe, RestartSafe, KillSafe, BootSafe DEF Next, Rollback

LEMMA UpgradeInvariant == Spec => []Inv
<1>1. Inv /\ [Next]_vars => Inv'
  BY UpgradeStep
<1> QED
  BY <1>1, UpgradeInit, PTL DEF Spec

-----------------------------------------------------------------------------

\* The files, backups and steps keep their types.
THEOREM UpgradeTyped == Spec => []TypeOK
<1>1. Inv => TypeOK
  BY DEF Inv
<1> QED
  BY <1>1, UpgradeInvariant, PTL

\* An attempt that ran to its end has replaced both programs or, where its roll
\* back did not fail, neither.
THEOREM UpgradeIsAtomic == Spec => []AllOrNothing
<1>1. Inv => AllOrNothing
  BY DEF Inv
<1> QED
  BY <1>1, UpgradeInvariant, PTL

\* A failed attempt leaves the service up that it found up, where its roll back
\* did not fail and the old program starts.
THEOREM ServiceIsBack == Spec => []ServiceComesBack
<1>1. Inv => ServiceComesBack
  BY DEF Inv
<1> QED
  BY <1>1, UpgradeInvariant, PTL

\* However often the script is killed, fails and is run again, no program that
\* was there is lost.
THEOREM OldIsKept == Spec => OldIsRecoverable
<1>1. Inv /\ [Next]_vars =>
         [\A p \in Programs :
             file[p] = "old" \/ (\E i \in Attempts : saved[i][p] = "old") =>
                 file'[p] = "old" \/ \E i \in Attempts : saved'[i][p] = "old"]_vars
  BY UpgradeStep DEF Kept
<1> QED
  BY <1>1, UpgradeInvariant, PTL DEF Spec, OldIsRecoverable

=============================================================================

----------------------------- MODULE Snapshots -----------------------------
(***************************************************************************)
(* The automatic snapshots of the database: one goroutine that writes a    *)
(* copy under a temporary name, renames it, and removes the copies beyond  *)
(* the retention, oldest name first.  A name is the time of the pass.      *)
(*                                                                         *)
(* The directory outlives the process, which nobody keeps from ending in   *)
(* the middle of a pass; the clock may be set back; the operator may keep  *)
(* copies of his own in the directory.                                     *)
(***************************************************************************)
EXTENDS Integers, FiniteSets

CONSTANTS ConfiguredRetention, \* NATBOX_BACKUP_RETENTION
          Faults,              \* what may go wrong, a subset of FaultKinds
          MaxClock,            \* bound: the last instant
          MaxPublished,        \* bound: snapshots ever published
          MaxCopies            \* bound: the operator's own copies

FaultKinds == {"files", "clock", "death"}

ASSUME RetentionIsANumber == ConfiguredRetention \in Int
ASSUME FaultsAreKnown == Faults \subseteq FaultKinds
ASSUME BoundsAreNumbers == MaxClock \in Nat /\ MaxPublished \in Nat /\ MaxCopies \in Nat

Retention == IF ConfiguredRetention < 1 THEN 1 ELSE ConfiguredRetention

VARIABLES clock,
          setBack,     \* ghost: the clock has been set back
          files,       \* what natbox-*.db matches
          temporaries, \* natbox-*.db.tmp-*, which it does not
          service,     \* the process: "down", "up", "stopping" after SIGTERM
          step,        \* where the goroutine is in a pass
          name,        \* the name of this pass
          victims,     \* the names this pass has yet to remove
          spoiled,     \* ghost: this pass could not remove one, or a copy came between
          published,   \* ghost: how many snapshots there have been
          copies,      \* ghost: how many files the operator added
          lost         \* ghost: how many temporaries nobody will remove

pass == <<step, name, victims, spoiled>>
vars == <<clock, setBack, files, temporaries, service, pass, published, copies, lost>>

Instants == 0..MaxClock

\* A copy by hand, natbox-before-upgrade.db, sorts after every date.
CopyNames == (MaxClock + 1)..(MaxClock + MaxCopies)

\* `born' (a ghost) is the order in which files came, `whole' whether the file
\* holds a complete database.
Files == [name : Instants \cup CopyNames, born : 0..MaxPublished, whole : BOOLEAN]
Temporaries == [name : Instants, whole : BOOLEAN]
Steps == {"idle", "begin", "vacuum", "protect", "publish", "scan", "remove"}

\* The temporary file of this pass.
InHand == {t \in temporaries : t.name = name}

\* Between the first byte of the temporary file and its rename.
Writing == step \in {"vacuum", "protect", "publish"}

TypeOK ==
    /\ clock \in Instants
    /\ setBack \in BOOLEAN
    /\ files \in SUBSET Files
    /\ temporaries \in SUBSET Temporaries
    /\ service \in {"down", "up", "stopping"}
    /\ step \in Steps
    /\ name \in Instants
    /\ victims \in SUBSET (Instants \cup CopyNames)
    /\ spoiled \in BOOLEAN
    /\ published \in 0..MaxPublished
    /\ copies \in 0..MaxCopies
    /\ lost \in Nat
    /\ Writing => InHand # {}
    /\ step = "remove" <=> victims # {}

Init ==
    /\ clock = 0 /\ setBack = FALSE
    /\ files = {} /\ temporaries = {}
    /\ service = "down"
    /\ step = "idle" /\ name = 0 /\ victims = {} /\ spoiled = FALSE
    /\ published = 0 /\ copies = 0 /\ lost = 0

Possible(fault) == fault \in Faults

-----------------------------------------------------------------------------
(* A pass: backupOnce, BackupDatabase, pruneBackups.                       *)

GoTo(s) == step' = s /\ UNCHANGED <<name, victims, spoiled>>

\* A pass is the first thing a process does, then one by the ticker; when the
\* ticker and the end of the context are both ready, select takes either.
Start ==
    /\ service = "down"
    /\ service' = "up"
    /\ GoTo("begin")
    /\ UNCHANGED <<clock, setBack, files, temporaries, published, copies, lost>>

Tick ==
    /\ service # "down" /\ step = "idle"
    /\ GoTo("begin")
    /\ UNCHANGED <<clock, setBack, files, temporaries, service, published, copies, lost>>

\* The name carries nanoseconds, so none is given twice.
BeginVacuum ==
    /\ step = "begin" /\ service = "up"
    /\ published < MaxPublished
    /\ \A f \in files \cup temporaries : f.name # clock
    /\ name' = clock
    /\ temporaries' = temporaries \cup {[name |-> clock, whole |-> FALSE]}
    /\ step' = "vacuum"
    /\ UNCHANGED <<clock, setBack, files, service, victims, spoiled, published, copies, lost>>

\* MkdirAll fails; under a cancelled context VACUUM INTO does not begin.
BeginFails ==
    /\ step = "begin"
    /\ service = "stopping" \/ Possible("files")
    /\ GoTo("idle")
    /\ UNCHANGED <<clock, setBack, files, temporaries, service, published, copies, lost>>

VacuumEnds ==
    /\ step = "vacuum"
    /\ temporaries' = (temporaries \ InHand) \cup {[name |-> name, whole |-> TRUE]}
    /\ GoTo("protect")
    /\ UNCHANGED <<clock, setBack, files, service, published, copies, lost>>

Protect ==
    /\ step = "protect"
    /\ GoTo("publish")
    /\ UNCHANGED <<clock, setBack, files, temporaries, service, published, copies, lost>>

\* What remains of the temporary file once os.Remove, whose error is dropped,
\* has been tried.
RemoveTemporary ==
    \/ temporaries' = temporaries \ InHand /\ UNCHANGED lost
    \/ Possible("files") /\ lost' = lost + 1 /\ UNCHANGED temporaries

\* Mutant: the temporary file is not removed.
GiveUpLeavingIt ==
    /\ Writing
    /\ Possible("files") \/ (service = "stopping" /\ step = "vacuum")
    /\ GoTo("idle")
    /\ UNCHANGED <<clock, setBack, files, temporaries, service, published, copies, lost>>

\* Mutant: after the removal the pass goes on.
GiveUpAndGoOn ==
    /\ Writing
    /\ Possible("files") \/ (service = "stopping" /\ step = "vacuum")
    /\ RemoveTemporary
    /\ GoTo(IF step = "vacuum" THEN "protect" ELSE "publish")
    /\ UNCHANGED <<clock, setBack, files, service, published, copies>>

\* VACUUM INTO, which the end of the context interrupts, chmod or rename fails.
GiveUp ==
    /\ Writing
    /\ Possible("files") \/ (service = "stopping" /\ step = "vacuum")
    /\ RemoveTemporary
    /\ GoTo("idle")
    /\ UNCHANGED <<clock, setBack, files, service, published, copies>>

\* Mutant: a VACUUM INTO that failed is not noticed before the rename.
PublishAnything ==
    /\ step \in {"vacuum", "publish"}
    /\ files' = files \cup {[name |-> name, born |-> published + 1, whole |-> t.whole] : t \in InHand}
    /\ temporaries' = temporaries \ InHand
    /\ published' = published + 1
    /\ GoTo("scan")
    /\ UNCHANGED <<clock, setBack, service, copies, lost>>

\* The rename and the audit event.
Publish ==
    /\ step = "publish"
    /\ files' = files \cup {[name |-> name, born |-> published + 1, whole |-> t.whole] : t \in InHand}
    /\ temporaries' = temporaries \ InHand
    /\ published' = published + 1
    /\ GoTo("scan")
    /\ UNCHANGED <<clock, setBack, service, copies, lost>>

\* The files of which at least r sort after them: paths[:len(paths)-r].
AllBut(r) == {f \in files : Cardinality({g \in files : g.name > f.name}) >= r}

\* Mutants: the slice is one too long; it is taken from a list sorted the other
\* way round; only the first file of it is removed.
ExcessOffByOne == AllBut(Retention - 1)
ExcessNewest == {f \in files : Cardinality({g \in files : g.name < f.name}) >= Retention}
ExcessOldestOnly ==
    {f \in AllBut(Retention) : \A g \in files : g.name >= f.name}

Excess == AllBut(Retention)

\* Glob and sort.
Scan ==
    /\ step = "scan"
    /\ victims' = {f.name : f \in Excess}
    /\ step' = IF Excess = {} THEN "idle" ELSE "remove"
    /\ spoiled' = FALSE
    /\ UNCHANGED <<clock, setBack, files, temporaries, service, name, published, copies, lost>>

\* One after the other, oldest name first; a file that cannot be removed is
\* logged and the next is tried.
Remove ==
    /\ step = "remove"
    /\ \E v \in victims :
          /\ \A u \in victims : v <= u
          /\ \/ files' = {f \in files : f.name # v} /\ UNCHANGED spoiled
             \/ Possible("files") /\ spoiled' = TRUE /\ UNCHANGED files
          /\ victims' = victims \ {v}
          /\ step' = IF victims = {v} THEN "idle" ELSE "remove"
    /\ UNCHANGED <<clock, setBack, temporaries, service, name, published, copies, lost>>

-----------------------------------------------------------------------------
(* The world around it.                                                    *)

\* SIGTERM cancels runContext; main returns without waiting for the goroutine.
Terminate ==
    /\ service = "up"
    /\ service' = "stopping"
    /\ UNCHANGED <<clock, setBack, files, temporaries, pass, published, copies, lost>>

\* The process ends, whatever the pass is doing.
End ==
    /\ service = "stopping" \/ (service = "up" /\ Possible("death"))
    /\ service' = "down"
    /\ lost' = IF Writing THEN lost + 1 ELSE lost
    /\ step' = "idle"
    /\ victims' = {}
    /\ UNCHANGED <<clock, setBack, files, temporaries, name, spoiled, published, copies>>

Advance ==
    /\ clock < MaxClock
    /\ clock' = clock + 1
    /\ UNCHANGED <<setBack, files, temporaries, service, pass, published, copies, lost>>

SetBack ==
    /\ Possible("clock")
    /\ clock' \in 0..(clock - 1)
    /\ setBack' = TRUE
    /\ UNCHANGED <<files, temporaries, service, pass, published, copies, lost>>

\* The operator puts a copy of the database beside the snapshots.
Copy ==
    /\ copies < MaxCopies
    /\ copies' = copies + 1
    /\ files' = files \cup {[name |-> MaxClock + copies + 1, born |-> 0, whole |-> TRUE]}
    /\ spoiled' = TRUE
    /\ UNCHANGED <<clock, setBack, temporaries, service, step, name, victims, published, lost>>

BackupOnce ==
    \/ BeginVacuum \/ BeginFails \/ VacuumEnds \/ Protect \/ Publish \/ GiveUp
    \/ Scan \/ Remove

Next ==
    \/ Start \/ Tick \/ BackupOnce \/ Terminate \/ End
    \/ Advance \/ SetBack \/ Copy

Spec == Init /\ [][Next]_vars

-----------------------------------------------------------------------------
(* What must hold.                                                         *)

\* Whatever fails and whenever the process ends, a file under the name of a
\* snapshot is a complete database: BackupDatabase writes beside it and renames.
SnapshotsAreWhole == \A f \in files : f.whole

\* Pruning never goes below the retention, with a clock that was set back and
\* with foreign files as well: README.md, "keeps NATBOX_BACKUP_RETENTION files".
RetentionIsKept ==
    LET ever == published + copies
    IN  Cardinality(files) >= IF ever < Retention THEN ever ELSE Retention

\* Names stand for ages only while the clock has not been set back and nobody
\* keeps other files in the directory.  While that is so, a snapshot is removed
\* only when as many as the retention came after it.
NewestAreKept ==
    [][\A f \in files \ files' :
           ~setBack /\ copies = 0 =>
               Cardinality({g \in files' : g.born > f.born}) >= Retention]_vars

\* A pass removes all that earlier ones left, cut off by the end of the process
\* or refused by the file system: when one ends in which every removal worked,
\* no more files are there than the retention.
ExcessIsRemoved ==
    [][step' = "idle" /\ step \in {"scan", "remove"} /\ service' # "down" /\ ~spoiled' =>
           Cardinality(files') <= Retention]_vars

\* A temporary file outlives its pass only when the process ended in the middle
\* or its own removal failed: no error path forgets it.
TemporariesAreExplained ==
    Cardinality(temporaries) <= lost + (IF Writing THEN 1 ELSE 0)

Store == INSTANCE SnapshotStore WITH snapshots <- files

\* Seen from outside, the passes, cut off or not, and the copies by hand do
\* nothing but that: no pass shows half a file, replaces one, or removes two at
\* once.
SnapshotsAreStored == Store!Spec

=============================================================================

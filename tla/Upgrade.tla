------------------------------ MODULE Upgrade ------------------------------
(***************************************************************************)
(* upgrade.sh: the two installed programs are saved and replaced, the      *)
(* service is restarted and asked for its health, and what was saved is    *)
(* put back when that fails.                                               *)
(*                                                                         *)
(* The script runs under `set -e': a command that fails ends it, in the    *)
(* middle of its own roll back as well.  It may be killed at any point and *)
(* run again; in between the host may boot.                                *)
(***************************************************************************)
EXTENDS Integers

CONSTANTS Faults,     \* what may go wrong, a subset of FaultKinds
          MaxAttempts \* bound: how often the script is run

FaultKinds == {"release", "files", "systemctl", "health", "kill"}

ASSUME FaultsAreKnown == Faults \subseteq FaultKinds
ASSUME AttemptsAreNumbered == MaxAttempts \in Nat

Programs == {"natbox", "natbox-hash"}

\* What a file holds; "torn" is the part that was written when a copy ended.
Contents == {"absent", "old", "new", "torn"}
Runnable(c) == c \in {"old", "new"}

VARIABLES file,        \* the installed programs
          saved,       \* natbox-$timestamp of each attempt in backup_dir
          temporaries, \* $binary.tmp.$$ and $hash_binary.tmp.$$
          running,     \* the program the service runs, "absent" when it is down
          step,        \* where the script is, "ended" between two attempts
          attempt,     \* how often it has been begun
          outcome,     \* how the last attempt ended
          before,      \* ghost: programs and service when it began
          slipped      \* ghost: where its way out failed: in files, service or cleanup

script == <<attempt, before>>
vars   == <<file, saved, temporaries, running, step, outcome, slipped, script>>

Attempts == 1..MaxAttempts
Steps == {"ended", "fetch", "save", "saveHash", "stop", "stage", "place", "stageHash",
          "placeHash", "start", "health", "restore", "restart", "restoreHash"}

TypeOK ==
    /\ file \in [Programs -> Contents]
    /\ saved \in [Attempts -> [Programs -> Contents]]
    /\ temporaries \in SUBSET (Attempts \X Programs)
    /\ running \in {"absent", "old", "new"}
    /\ step \in Steps
    /\ attempt \in 0..MaxAttempts
    /\ outcome \in {"none", "success", "failure", "killed"}
    /\ before \in [file : [Programs -> Contents], running : {"absent", "old", "new"}]
    /\ slipped \in SUBSET {"files", "service", "cleanup"}

\* An installation, with or without natbox-hash, up or down; or none yet.
Init ==
    /\ file \in [Programs -> {"old", "absent"}]
    /\ running \in {"absent", file["natbox"]}
    /\ saved = [i \in Attempts |-> [p \in Programs |-> "absent"]]
    /\ temporaries = {}
    /\ step = "ended" /\ attempt = 0 /\ outcome = "none"
    /\ before = [file |-> file, running |-> running]
    /\ slipped = {}

Possible(fault) == fault \in Faults

\* What a copy that fails leaves of its target: `install' removes it first.
Remains(c) == {c, "absent", "torn"}

\* What the service runs when it is started.
Started == IF Runnable(file["natbox"]) THEN file["natbox"] ELSE "absent"

GoTo(s) == step' = s /\ UNCHANGED <<temporaries, outcome>>

\* The temporary files of this attempt.
Own == {t \in temporaries : t[1] = attempt}

\* exit, and the trap that removes the temporary files, or fails to.
Exit(result, slips) ==
    /\ step' = "ended"
    /\ outcome' = result
    /\ \/ temporaries' = temporaries \ Own /\ slipped' = slips
       \/ /\ Possible("files") /\ Own # {}
          /\ slipped' = slips \cup {"cleanup"}
          /\ UNCHANGED temporaries

-----------------------------------------------------------------------------
(* Before anything is changed.                                             *)

Begin ==
    /\ step = "ended" /\ attempt < MaxAttempts
    /\ attempt' = attempt + 1
    /\ before' = [file |-> file, running |-> running]
    /\ slipped' = {}
    /\ step' = "fetch" /\ outcome' = "none"
    /\ UNCHANGED <<file, saved, temporaries, running>>

\* Three downloads and two checksums, in a directory of their own.
Fetch ==
    /\ step = "fetch"
    /\ \/ GoTo("save") /\ UNCHANGED slipped
       \/ Possible("release") /\ Exit("failure", slipped)
    /\ UNCHANGED <<file, saved, running, script>>

\* Mutant: one backup, whose name does not say when.
SaveUnderOneName(p) ==
    /\ saved' = [i \in Attempts |-> [saved[i] EXCEPT ![p] = file[p]]]
    /\ GoTo(IF p = "natbox" THEN "saveHash" ELSE "stop")
    /\ step = IF p = "natbox" THEN "save" ELSE "saveHash"
    /\ UNCHANGED <<file, running, slipped, script>>

\* A program that is not there leaves no backup.  Attempts are a second apart,
\* so each has a name of its own.
Save(p) ==
    /\ step = IF p = "natbox" THEN "save" ELSE "saveHash"
    /\ \/ /\ saved' = [saved EXCEPT ![attempt][p] = file[p]]
          /\ GoTo(IF p = "natbox" THEN "saveHash" ELSE "stop")
          /\ UNCHANGED slipped
       \/ /\ Possible("files") /\ file[p] # "absent"
          /\ \E c \in Remains("absent") : saved' = [saved EXCEPT ![attempt][p] = c]
          /\ Exit("failure", slipped)
    /\ UNCHANGED <<file, running, script>>

-----------------------------------------------------------------------------
(* Replacing.                                                              *)

StopService ==
    /\ step = "stop"
    /\ \/ running' = "absent" /\ GoTo("stage") /\ UNCHANGED slipped
       \/ /\ Possible("systemctl")
          /\ running' \in {running, "absent"}
          /\ Exit("failure", {"service"})
    /\ UNCHANGED <<file, saved, script>>

\* The new program is written beside the old one.
Stage(p) ==
    /\ step = IF p = "natbox" THEN "stage" ELSE "stageHash"
    /\ \/ /\ temporaries' = temporaries \cup {<<attempt, p>>}
          /\ step' = IF p = "natbox" THEN "place" ELSE "placeHash"
       \/ /\ Possible("files")
          /\ temporaries' \in {temporaries, temporaries \cup {<<attempt, p>>}}
          /\ step' = "restore"
    /\ UNCHANGED <<file, saved, running, outcome, slipped, script>>

\* Mutant: the second program may fail alone.
PlaceOrGoOn(p) ==
    /\ step = IF p = "natbox" THEN "place" ELSE "placeHash"
    /\ \/ /\ file' = [file EXCEPT ![p] = "new"]
          /\ temporaries' = temporaries \ {<<attempt, p>>}
       \/ Possible("files") /\ UNCHANGED <<file, temporaries>>
    /\ step' = IF p = "natbox" THEN "stageHash" ELSE "start"
    /\ UNCHANGED <<saved, running, outcome, slipped, script>>

\* mv within one directory.
Place(p) ==
    /\ step = IF p = "natbox" THEN "place" ELSE "placeHash"
    /\ \/ /\ file' = [file EXCEPT ![p] = "new"]
          /\ temporaries' = temporaries \ {<<attempt, p>>}
          /\ step' = IF p = "natbox" THEN "stageHash" ELSE "start"
       \/ /\ Possible("files")
          /\ step' = "restore"
          /\ UNCHANGED <<file, temporaries>>
    /\ UNCHANGED <<saved, running, outcome, slipped, script>>

\* The unit is of type simple: it counts as started though the program may end
\* at once.
StartService ==
    /\ step = "start"
    /\ \/ running' = Started /\ GoTo("health")
       \/ Possible("health") /\ running' = "absent" /\ GoTo("health")
       \/ Possible("systemctl") /\ running' \in {"absent", Started} /\ GoTo("restore")
    /\ UNCHANGED <<file, saved, slipped, script>>

\* One of ten questions is answered.
Healthy ==
    /\ step = "health"
    /\ running # "absent"
    /\ Exit("success", slipped)
    /\ UNCHANGED <<file, saved, running, script>>

\* None is; an error of the stop is ignored.
Unhealthy ==
    /\ step = "health"
    /\ Possible("health")
    /\ running' \in {"absent"} \cup (IF Possible("systemctl") THEN {running} ELSE {})
    /\ GoTo("restore")
    /\ UNCHANGED <<file, saved, slipped, script>>

-----------------------------------------------------------------------------
(* rollback.                                                               *)

\* What a restoration that does not end leaves of the installed program.
CutOff(p) == IF saved[attempt][p] = "absent" THEN {file[p]} ELSE Remains(file[p])

\* Mutant: the service is not restarted once its program is back.
RestoreQuietly(p) ==
    /\ step = IF p = "natbox" THEN "restore" ELSE "restoreHash"
    /\ file' = [file EXCEPT ![p] = saved[attempt][p]]
    /\ IF p = "natbox-hash" THEN Exit("failure", slipped)
       ELSE GoTo("restoreHash") /\ UNCHANGED slipped
    /\ UNCHANGED <<saved, running, script>>

\* `install' from the backup, or rm -f when there was none; only in the first
\* case is the service restarted.  A failure ends the script here.
Restore(p) ==
    LET back == saved[attempt][p] IN
    /\ step = IF p = "natbox" THEN "restore" ELSE "restoreHash"
    /\ \/ /\ file' = [file EXCEPT ![p] = back]
          /\ IF p = "natbox-hash" THEN Exit("failure", slipped)
             ELSE GoTo(IF back = "absent" THEN "restoreHash" ELSE "restart") /\ UNCHANGED slipped
       \/ /\ Possible("files") /\ ~(back = "absent" /\ file[p] = "absent")
          /\ \E c \in CutOff(p) : file' = [file EXCEPT ![p] = c]
          /\ Exit("failure", slipped \cup {"files"})
    /\ UNCHANGED <<saved, running, script>>

\* Mutant: whatever has been put back is taken to run.
RestartAnything ==
    /\ step = "restart"
    /\ running' = file["natbox"]
    /\ GoTo("restoreHash")
    /\ UNCHANGED <<file, saved, slipped, script>>

\* An error is ignored, and so is a program that ends at once.
Restart ==
    /\ step = "restart"
    /\ \/ running' = Started /\ UNCHANGED slipped
       \/ /\ \/ Possible("systemctl") /\ running' \in {running, "absent"}
             \/ Possible("health") /\ running' = "absent"
          /\ slipped' = slipped \cup {"service"}
    /\ GoTo("restoreHash")
    /\ UNCHANGED <<file, saved, script>>

-----------------------------------------------------------------------------
(* The world around it.                                                    *)

\* The script is killed: a copy under way is cut off, and the trap may not run.
Kill ==
    /\ Possible("kill") /\ step # "ended"
    /\ step' = "ended" /\ outcome' = "killed"
    /\ LET p == IF step \in {"saveHash", "stageHash", "restoreHash"} THEN "natbox-hash" ELSE "natbox"
           staged == IF step \in {"stage", "stageHash"} THEN {<<attempt, p>>} ELSE {}
       IN
       /\ temporaries' \in {temporaries, temporaries \cup staged,
                temporaries \ Own}
       /\ IF step \in {"restore", "restoreHash"}
          THEN \E c \in CutOff(p) : file' = [file EXCEPT ![p] = c]
          ELSE UNCHANGED file
       /\ IF step \in {"save", "saveHash"} /\ file[p] # "absent"
          THEN \E c \in Remains("absent") : saved' = [saved EXCEPT ![attempt][p] = c]
          ELSE UNCHANGED saved
    /\ UNCHANGED <<running, slipped, script>>

\* The host boots, or the operator starts the service.
Boot ==
    /\ step = "ended"
    /\ running' = Started
    /\ running' # running
    /\ UNCHANGED <<file, saved, temporaries, step, outcome, slipped, script>>

Rollback == (\E p \in Programs : Restore(p)) \/ Restart

Next ==
    \/ Begin \/ Fetch \/ StopService \/ StartService \/ Healthy \/ Unhealthy
    \/ \E p \in Programs : Save(p) \/ Stage(p) \/ Place(p)
    \/ Rollback \/ Kill \/ Boot

Spec == Init /\ [][Next]_vars

-----------------------------------------------------------------------------
(* What must hold.                                                         *)

\* Whatever is killed or fails, and however often the script is run again, each
\* program that was there at first still is, installed or in a backup.
OldIsRecoverable ==
    [][\A p \in Programs :
           file[p] = "old" \/ (\E i \in Attempts : saved[i][p] = "old") =>
               file'[p] = "old" \/ \E i \in Attempts : saved'[i][p] = "old"]_vars

\* An attempt that ran to its end has replaced both programs and the service runs
\* the new one, or has left both as they were; and it has left no temporary file
\* beside them.  The exceptions are a roll back, and a removal of the temporary
\* file, that failed themselves.
AllOrNothing ==
    step = "ended" =>
        /\ outcome = "success" => /\ \A p \in Programs : file[p] = "new"
                                  /\ running = "new"
        /\ outcome = "failure" /\ "files" \notin slipped => file = before.file
        /\ outcome \in {"success", "failure"} /\ "cleanup" \notin slipped => Own = {}

\* A failed attempt does not leave the service down that it found up, unless a
\* command of its roll back failed, or the old program no longer starts:
\* README.md, "restores the previous binary if startup or health verification
\* fails".
ServiceComesBack ==
    step = "ended" /\ outcome = "failure" /\ slipped \subseteq {"cleanup"}
        /\ before.running # "absent" /\ Runnable(before.file["natbox"]) =>
            running # "absent"

=============================================================================

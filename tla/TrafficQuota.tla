---------------------------- MODULE TrafficQuota ----------------------------
(***************************************************************************)
(* The quota and the expiry of one container, in numbers.                  *)
(*                                                                         *)
(* Natbox keeps no account of traffic.  A policy records what the runtime's *)
(* counters showed when it was set, its baselines; a pass once a minute    *)
(* compares them with what the counters show now.  The counters begin at   *)
(* zero whenever the instance starts, the policy may come from a backup    *)
(* taken long ago, and the instance carries on while a request or a pass   *)
(* is between its reads and what it does with them.  Containers share      *)
(* nothing here but the mutex.                                             *)
(***************************************************************************)
EXTENDS Integers

CONSTANTS Quotas,    \* the values of quotaBytes that requests ask for
          Baselines, \* those of the baselines in a backup that was edited
          NoPolicy,
          MaxTotal   \* bound: the traffic of a behaviour

ASSUME QuotasAreIntegers == Quotas \subseteq Int
ASSUME BaselinesAreNatural == Baselines \subseteq Nat
ASSUME TotalIsBounded == MaxTotal \in Nat

VARIABLES status,  \* of the instance
          rx, tx,  \* its counters
          late,    \* whether it is past the time policies may expire at
          row,     \* the policy in the container's row, NoPolicy without one
          backup,  \* that of an exported backup
          update,  \* the policy a request or a create is about to write
          item,    \* the policy as the pass has read it
          pass,    \* where the pass is: "idle", "stats" or "stop"
          mutationMu,
          total    \* ghost: the traffic carried in all

vars == <<status, rx, tx, late, row, backup, update, item, pass, mutationMu, total>>

-----------------------------------------------------------------------------
(* Policies and counters.                                                  *)

\* An expiry is a time like any other, none, or text no pass can parse.
Expiries == {"never", "noon", "odd"}

\* The fields after expires are ghosts: the traffic up to the moment at which
\* the counters showed the baselines (of a row that was edited, the traffic up to
\* its restore but for what it charged then), whether the counters have run on
\* ever since they showed the baselines, and if so the traffic up to the last pass
\* that found the quota not reached.
Policies == [quota : Nat, rxBaseline : Nat, txBaseline : Nat, expires : Expiries,
             since : Nat, sampled : Nat, unbroken : BOOLEAN]

ASSUME NoPolicyIsNone == NoPolicy \notin Policies

\* counterDelta.
Delta(current, baseline) == IF current <= baseline THEN 0 ELSE current - baseline

Used(p) == Delta(rx, p.rxBaseline) + Delta(tx, p.txBaseline)

\* Mutant: a container that has carried its quota to the byte goes on.
ExceededOnly(p) == Used(p) > p.quota

Reached(p) == Used(p) >= p.quota

\* Mutant: what the container has sent is charged from the beginning.
FromNowReceived(quota, expires) ==
    [quota |-> quota, rxBaseline |-> rx, txBaseline |-> 0, expires |-> expires,
     since |-> total, sampled |-> total, unbroken |-> TRUE]

\* A policy whose baselines are what the counters show.
FromNow(quota, expires) ==
    [quota |-> quota, rxBaseline |-> rx, txBaseline |-> tx, expires |-> expires,
     since |-> total, sampled |-> total, unbroken |-> TRUE]

\* The row of a new container (persistManaged): no limits, no baselines.
Unlimited ==
    [quota |-> 0, rxBaseline |-> 0, txBaseline |-> 0, expires |-> "never",
     since |-> total - (rx + tx), sampled |-> total, unbroken |-> TRUE]

\* The row of a backup that was edited: whatever it says is taken to be so.
Declared(quota, r, t, expires) ==
    [quota |-> quota, rxBaseline |-> r, txBaseline |-> t, expires |-> expires,
     since |-> total - (Delta(rx, r) + Delta(tx, t)), sampled |-> 0, unbroken |-> FALSE]

Expired(p) == p.expires = "noon" /\ late
Limited(p) == p.quota > 0 \/ p.expires # "never"

\* What has become of a policy when the counters begin again.
Broken(p) == IF p = NoPolicy THEN p ELSE [p EXCEPT !.unbroken = FALSE, !.sampled = 0]

TypeOK ==
    /\ status \in {"absent", "stopped", "running"}
    /\ rx \in Nat /\ tx \in Nat /\ total \in Nat
    /\ late \in BOOLEAN
    /\ {row, backup, update, item} \subseteq Policies \cup {NoPolicy}
    /\ pass \in {"idle", "stats", "stop"}
    /\ mutationMu \in {"nobody", "policy", "update", "create"}

\* A managed container without limits that has carried nothing.
Init ==
    /\ status = "running"
    /\ rx = 0 /\ tx = 0 /\ total = 0
    /\ late = FALSE
    /\ row = Unlimited
    /\ backup = NoPolicy /\ update = NoPolicy /\ item = NoPolicy
    /\ pass = "idle"
    /\ mutationMu = "nobody"

-----------------------------------------------------------------------------
(* The instance.                                                           *)

\* The counters begin at zero, whoever stopped or deleted the instance.
CountersEnd ==
    /\ rx' = 0 /\ tx' = 0
    /\ row' = Broken(row)
    /\ backup' = Broken(backup)
    /\ update' = Broken(update)
    /\ item' = Broken(item)
    /\ UNCHANGED total

Carry ==
    /\ status = "running"
    /\ total < MaxTotal
    /\ \/ rx' = rx + 1 /\ UNCHANGED tx
       \/ tx' = tx + 1 /\ UNCHANGED rx
    /\ total' = total + 1
    /\ UNCHANGED <<status, late, row, backup, update, item, pass, mutationMu>>

\* By the command line or by Natbox; the operator heeds no mutex.
StopInstance ==
    /\ status = "running"
    /\ status' = "stopped"
    /\ CountersEnd
    /\ UNCHANGED <<late, pass, mutationMu>>

StartInstance ==
    /\ status = "stopped"
    /\ status' = "running"
    /\ UNCHANGED <<rx, tx, late, row, backup, update, item, pass, mutationMu, total>>

\* The operator deletes the instance, or Natbox does and DeleteContainer fails:
\* the row stays.
DeleteByHand ==
    /\ status # "absent"
    /\ status' = "absent"
    /\ CountersEnd
    /\ UNCHANGED <<late, pass, mutationMu>>

Noon ==
    /\ ~late
    /\ late' = TRUE
    /\ UNCHANGED <<status, rx, tx, row, backup, update, item, pass, mutationMu, total>>

-----------------------------------------------------------------------------
(* Requests.                                                               *)

\* The instance of a create; its row is written when it has an address.
CreateInstance ==
    /\ mutationMu = "nobody"
    /\ status = "absent"
    /\ mutationMu' = "create"
    /\ status' = "running"
    /\ UNCHANGED <<rx, tx, late, row, backup, update, item, pass, total>>

\* UpsertContainer leaves the policy of a row that is there as it was.
PersistManaged ==
    /\ mutationMu = "create"
    /\ mutationMu' = "nobody"
    /\ row' = IF row = NoPolicy THEN Unlimited ELSE row
    /\ UNCHANGED <<status, rx, tx, late, backup, update, item, pass, total>>

\* The create fails, and its instance is deleted.
RollBack ==
    /\ mutationMu = "create"
    /\ mutationMu' = "nobody"
    /\ status' = "absent"
    /\ CountersEnd
    /\ UNCHANGED <<late, pass>>

\* The create fails, and so does its cleanup: an instance without a row.
CleanupFails ==
    /\ mutationMu = "create"
    /\ mutationMu' = "nobody"
    /\ UNCHANGED <<status, rx, tx, late, row, backup, update, item, pass, total>>

\* Delete succeeds, and after it DeleteContainer.
Delete ==
    /\ mutationMu = "nobody"
    /\ status # "absent"
    /\ status' = "absent"
    /\ rx' = 0 /\ tx' = 0
    /\ row' = NoPolicy
    /\ backup' = Broken(backup)
    /\ UNCHANGED <<late, update, item, pass, mutationMu, total>>

\* Mutant: a negative quota is not refused.
BeginUpdateUnchecked ==
    /\ mutationMu = "nobody"
    /\ status # "absent"
    /\ mutationMu' = "update"
    /\ \E q \in Quotas, e \in Expiries \ {"odd"} : update' = FromNow(q, e)
    /\ UNCHANGED <<status, rx, tx, late, row, backup, item, pass, total>>

\* Mutant: the request takes the mutex though a pass holds it.
BeginUpdateUnlocked ==
    /\ mutationMu \in {"nobody", "policy"}
    /\ status # "absent"
    /\ mutationMu' = "update"
    /\ \E q \in Quotas, e \in Expiries \ {"odd"} :
           q >= 0 /\ update' = FromNow(q, e)
    /\ UNCHANGED <<status, rx, tx, late, row, backup, item, pass, total>>

\* updatePolicy takes the counters as they are now ...
BeginUpdate ==
    /\ mutationMu = "nobody"
    /\ status # "absent"
    /\ mutationMu' = "update"
    /\ \E q \in Quotas, e \in Expiries \ {"odd"} :
           q >= 0 /\ update' = FromNow(q, e)
    /\ UNCHANGED <<status, rx, tx, late, row, backup, item, pass, total>>

\* ... and writes them, if there is a row and the statement succeeds.
WriteUpdate ==
    /\ mutationMu = "update"
    /\ mutationMu' = "nobody"
    /\ update' = NoPolicy
    /\ row' = IF row = NoPolicy THEN row ELSE update
    /\ UNCHANGED <<status, rx, tx, late, backup, item, pass, total>>

UpdateFails ==
    /\ mutationMu = "update"
    /\ mutationMu' = "nobody"
    /\ update' = NoPolicy
    /\ UNCHANGED <<status, rx, tx, late, row, backup, item, pass, total>>

\* A backup holds the policy and takes no mutex.
Export ==
    /\ backup' = row
    /\ UNCHANGED <<status, rx, tx, late, row, update, item, pass, mutationMu, total>>

\* Restore checks that quota and baselines are not negative and takes them, and
\* any text for an expiry, as they are: those of an exported backup, or those of
\* a file that was edited, where a baseline that is left out is zero.
Restore ==
    /\ mutationMu = "nobody"
    /\ \/ row' = backup
       \/ backup # NoPolicy /\ row' = [backup EXCEPT !.expires = "odd"]
       \/ \E q \in Quotas, r \in Baselines, t \in Baselines, e \in Expiries :
              q >= 0 /\ row' = Declared(q, r, t, e)
    /\ UNCHANGED <<status, rx, tx, late, backup, update, item, pass, mutationMu, total>>

-----------------------------------------------------------------------------
(* The pass.                                                               *)

PassEnds == pass' = "idle" /\ item' = NoPolicy /\ mutationMu' = "nobody"

\* enforcePolicyPass reads rows, instances and clock.  An expired container
\* is stopped without a look at its counters.
BeginPass ==
    /\ mutationMu = "nobody"
    /\ row # NoPolicy /\ Limited(row)
    /\ status = "running"
    /\ mutationMu' = "policy"
    /\ item' = row
    /\ \/ Expired(row) /\ pass' = "stop"
       \/ ~Expired(row) /\ row.quota > 0 /\ pass' = "stats"
    /\ UNCHANGED <<status, rx, tx, late, row, backup, update, total>>

\* The quota is not reached: the container stays as it is.
Sample ==
    /\ pass = "stats" /\ status # "absent"
    /\ ~Reached(item)
    /\ PassEnds
    /\ row' = IF row.unbroken THEN [row EXCEPT !.sampled = total] ELSE row
    /\ UNCHANGED <<status, rx, tx, late, backup, update, total>>

QuotaReached ==
    /\ pass = "stats" /\ status # "absent"
    /\ Reached(item)
    /\ pass' = "stop"
    /\ UNCHANGED <<status, rx, tx, late, row, backup, update, item, mutationMu, total>>

\* Stats fails; the container is left running.
StatsFails ==
    /\ pass = "stats"
    /\ PassEnds
    /\ UNCHANGED <<status, rx, tx, late, row, backup, update, total>>

StopLimited ==
    /\ pass = "stop" /\ status = "running"
    /\ status' = "stopped"
    /\ rx' = 0 /\ tx' = 0
    /\ row' = Broken(row)
    /\ backup' = Broken(backup)
    /\ PassEnds
    /\ UNCHANGED <<late, update, total>>

\* The command fails, or somebody stopped or deleted the instance before it.
StopFails ==
    /\ pass = "stop"
    /\ PassEnds
    /\ UNCHANGED <<status, rx, tx, late, row, backup, update, total>>

-----------------------------------------------------------------------------
Next ==
    \/ Carry \/ StopInstance \/ StartInstance \/ DeleteByHand \/ Noon
    \/ CreateInstance \/ PersistManaged \/ RollBack \/ CleanupFails \/ Delete
    \/ BeginUpdate \/ WriteUpdate \/ UpdateFails \/ Export \/ Restore
    \/ BeginPass \/ Sample \/ QuotaReached \/ StatsFails \/ StopLimited \/ StopFails

Spec == Init /\ [][Next]_vars

-----------------------------------------------------------------------------
(* Safety.                                                                 *)

\* What a policy charges was carried since its baselines were read.
Fair(p) == p # NoPolicy => Used(p) <= total - p.since

\* Earlier traffic is never charged to a policy, wherever it is: in the row, in
\* a backup restored long after, in the hands of a request or of the pass, and
\* however often the counters have begun again.
NeverOvercharged == Fair(row) /\ Fair(backup) /\ Fair(update) /\ Fair(item)

\* A pass stops a container only for the policy in force: one that has expired,
\* or one whose quota was carried since it was set.
PolicyStopsAreDeserved ==
    pass = "stop" =>
        /\ row # NoPolicy
        /\ \/ Expired(row)
           \/ row.quota > 0 /\ total - row.since >= row.quota

\* The quota is a soft limit: as long as the counters run on, what a container
\* carries beyond its quota is less than what it has carried since the last
\* pass that let it be (or, before that, since the policy was set).
OverageIsBounded ==
    row # NoPolicy /\ row.quota > 0 /\ row.unbroken =>
        total - row.since < row.quota + (total - row.sampled)
=============================================================================

------------------------------ MODULE MCNatbox ------------------------------
(***************************************************************************)
(* Instances of the service small enough for TLC.                          *)
(***************************************************************************)
EXTENDS Natbox, TLC

\* Names differ only by name, and so do requests.
Symmetry == Permutations(Names) \cup Permutations(Requests)

\* Provisioning alone, with the whole environment.
ProvisioningNext ==
    \/ CreateBegins
    \/ \E w \in Requests : CreateStep(w) \/ TakeName(w) \/ NoNameLeft(w) \/ Unlock(w)
    \/ Disturbance

ProvisioningSpec == Init /\ [][ProvisioningNext]_vars

\* Lifecycle, repair and policy over rows that a restore put in place.
LifecycleNext ==
    \/ RequestBegins \/ RowChange
    \/ BeginRepair(RepairLoop) \/ BeginPolicy
    \/ \E w \in Workers : ItemStep(w) \/ WaitBreaks(w) \/ TakeName(w) \/ NoNameLeft(w) \/ Unlock(w)
    \/ Disturbance

LifecycleSpec == Init /\ [][LifecycleNext]_vars

\* The same until faults and requests cease, under the fairness of the service.
SettlingSpec == Init /\ [][LifecycleNext \/ CalmDown]_vars /\ Fairness

=============================================================================

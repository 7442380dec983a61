--------------------------- MODULE TrafficSafety ---------------------------
(***************************************************************************)
(* What a policy charges and whom a pass stops, for any quotas and any     *)
(* amount of traffic.                                                      *)
(***************************************************************************)
EXTENDS TrafficQuota, TLAPS

-----------------------------------------------------------------------------
(* The inductive invariant.                                                *)

\* Of a policy, with counters r and t after n units of traffic: it charges
\* nothing that was carried before it.  While the counters run on it charges
\* all that was carried since, and a pass that let the container be found less
\* than the quota.
SoundAt(p, r, t, n) ==
    p # NoPolicy =>
        /\ Delta(r, p.rxBaseline) + Delta(t, p.txBaseline) <= n - p.since
        /\ p.unbroken =>
            /\ r >= p.rxBaseline /\ t >= p.txBaseline
            /\ (r - p.rxBaseline) + (t - p.txBaseline) = n - p.since
            /\ p.quota > 0 => p.sampled - p.since < p.quota

Sound ==
    /\ SoundAt(row, rx, tx, total)
    /\ SoundAt(backup, rx, tx, total)
    /\ SoundAt(update, rx, tx, total)
    /\ SoundAt(item, rx, tx, total)

\* The row a pass has read stays as it is until the pass ends.
PassIsCurrent ==
    pass # "idle" =>
        /\ mutationMu = "policy"
        /\ row # NoPolicy /\ item = row
        /\ pass = "stats" => row.quota > 0
        /\ pass = "stop" => Expired(row) \/ (row.quota > 0 /\ total - row.since >= row.quota)

\* What is in hand belongs to the holder of the mutex.
InHand ==
    /\ update # NoPolicy => mutationMu = "update"
    /\ item # NoPolicy => pass # "idle"

Inv == TypeOK /\ InHand /\ rx + tx <= total /\ Sound /\ PassIsCurrent

-----------------------------------------------------------------------------
(* Policies and counters.                                                  *)

\* A policy stays a policy, and says the same, when the counters begin again.
LEMMA BrokenPolicy ==
    ASSUME NEW p \in Policies \cup {NoPolicy}
    PROVE  /\ Broken(p) \in Policies \cup {NoPolicy}
           /\ (Broken(p) = NoPolicy) <=> (p = NoPolicy)
           /\ p # NoPolicy =>
                /\ Broken(p).quota = p.quota /\ Broken(p).expires = p.expires
                /\ Broken(p).since = p.since /\ Broken(p).unbroken = FALSE
                /\ Broken(p).rxBaseline = p.rxBaseline
                /\ Broken(p).txBaseline = p.txBaseline
<1>1. CASE p = NoPolicy
  BY <1>1 DEF Broken
<1>2. CASE p # NoPolicy
  <2>1. Broken(p) = [p EXCEPT !.unbroken = FALSE, !.sampled = 0] /\ p \in Policies
    BY <1>2 DEF Broken
  <2>2. Broken(p) \in Policies
    <3> DEFINE q == [p EXCEPT !.unbroken = FALSE]
    <3>1. q \in Policies
      BY <2>1 DEF Policies
    <3>2. Broken(p) = [q EXCEPT !.sampled = 0]
      BY <2>1
    <3> HIDE DEF q
    <3> QED
      BY <3>1, <3>2 DEF Policies
  <2>3. Broken(p) # NoPolicy
    BY <2>2, NoPolicyIsNone
  <2> QED
    BY <1>2, <2>1, <2>2, <2>3 DEF Policies
<1> QED
  BY <1>1, <1>2

\* The counters have begun at zero: a policy charges nothing.
LEMMA BrokenSound ==
    ASSUME NEW p \in Policies \cup {NoPolicy},
           NEW r \in Nat, NEW t \in Nat, NEW n \in Nat,
           SoundAt(p, r, t, n)
    PROVE  SoundAt(Broken(p), 0, 0, n)
<1>1. CASE p = NoPolicy
  BY <1>1, BrokenPolicy DEF SoundAt
<1>2. CASE p # NoPolicy
  <2>1. p \in Policies
    BY <1>2
  <2>2. p.rxBaseline \in Nat /\ p.txBaseline \in Nat /\ p.since \in Nat
    BY <2>1 DEF Policies
  <2>3. 0 <= n - p.since
    BY <1>2, <2>2 DEF SoundAt, Delta
  <2>4. Broken(p).rxBaseline \in Nat /\ Broken(p).txBaseline \in Nat
        /\ Broken(p).since = p.since /\ ~Broken(p).unbroken
    BY <1>2, <2>2, BrokenPolicy
  <2> QED
    BY <2>2, <2>3, <2>4 DEF SoundAt, Delta
<1> QED
  BY <1>1, <1>2

\* A unit of traffic counts once, in one of the counters.
LEMMA CarriedSound ==
    ASSUME NEW p \in Policies \cup {NoPolicy},
           NEW r \in Nat, NEW t \in Nat, NEW n \in Nat,
           SoundAt(p, r, t, n)
    PROVE  SoundAt(p, r + 1, t, n + 1) /\ SoundAt(p, r, t + 1, n + 1)
<1>1. CASE p = NoPolicy
  BY <1>1 DEF SoundAt
<1>2. CASE p # NoPolicy
  <2>1. p.rxBaseline \in Nat /\ p.txBaseline \in Nat /\ p.since \in Nat
    BY <1>2 DEF Policies
  <2> QED
    BY <1>2, <2>1 DEF SoundAt, Delta
<1> QED
  BY <1>1, <1>2

\* A new policy charges nothing.
LEMMA FromNowSound ==
    ASSUME TypeOK, NEW q \in Nat, NEW e \in Expiries
    PROVE  FromNow(q, e) \in Policies /\ SoundAt(FromNow(q, e), rx, tx, total)
BY DEF TypeOK, FromNow, Policies, SoundAt, Delta

\* The row of a new container charges nothing but what the instance carried.
LEMMA UnlimitedSound ==
    ASSUME TypeOK, rx + tx <= total
    PROVE  Unlimited \in Policies /\ SoundAt(Unlimited, rx, tx, total)
<1>1. total - (rx + tx) \in Nat
  BY DEF TypeOK
<1>2. Unlimited \in Policies
  BY <1>1 DEF TypeOK, Unlimited, Policies, Expiries
<1>3. Delta(rx, 0) = rx /\ Delta(tx, 0) = tx
  BY DEF TypeOK, Delta
<1> QED
  BY <1>1, <1>2, <1>3 DEF TypeOK, Unlimited, SoundAt

\* A row that was edited charges what its baselines say of the counters now.
LEMMA DeclaredSound ==
    ASSUME TypeOK, rx + tx <= total, NEW q \in Nat, NEW r \in Nat, NEW t \in Nat, NEW e \in Expiries
    PROVE  Declared(q, r, t, e) \in Policies /\ SoundAt(Declared(q, r, t, e), rx, tx, total)
<1>1. Delta(rx, r) \in 0..rx /\ Delta(tx, t) \in 0..tx
  BY DEF TypeOK, Delta
<1>2. total - (Delta(rx, r) + Delta(tx, t)) \in Nat
  BY <1>1 DEF TypeOK
<1>3. Declared(q, r, t, e) \in Policies
  BY <1>2 DEF TypeOK, Declared, Policies
<1>4. /\ Declared(q, r, t, e).rxBaseline = r /\ Declared(q, r, t, e).txBaseline = t
      /\ Declared(q, r, t, e).unbroken = FALSE
      /\ Declared(q, r, t, e).since = total - (Delta(rx, r) + Delta(tx, t))
  BY DEF Declared
<1>5. Delta(rx, r) + Delta(tx, t) <= total - (total - (Delta(rx, r) + Delta(tx, t)))
  BY <1>1 DEF TypeOK
<1> QED
  BY <1>3, <1>4, <1>5 DEF SoundAt

-----------------------------------------------------------------------------
(* The invariant holds.                                                    *)

\* Inv holds of the managed container that has carried nothing.
LEMMA InvInit == Init => Inv
<1> SUFFICES ASSUME Init PROVE Inv
  OBVIOUS
<1>1. Unlimited \in Policies
  BY DEF Init, Unlimited, Policies, Expiries
<1>2. TypeOK
  BY <1>1 DEF Init, TypeOK
<1>3. Sound
  BY <1>2, UnlimitedSound DEF Init, Sound, SoundAt
<1> QED
  BY <1>2, <1>3 DEF Init, Inv, InHand, PassIsCurrent

\* The counters begin again, and a row that a pass has read is broken with it.
LEMMA CountersEndInv ==
    ASSUME Inv, CountersEnd,
           status' \in {"absent", "stopped"}, late' = late,
           pass' = pass,
           mutationMu' = mutationMu \/ (pass = "idle" /\ update = NoPolicy /\ mutationMu' = "nobody")
    PROVE  Inv'
<1>1. TypeOK'
  BY BrokenPolicy DEF Inv, TypeOK, CountersEnd
<1>2. Sound'
  BY BrokenSound DEF Inv, TypeOK, Sound, CountersEnd
<1>3. PassIsCurrent'
  BY BrokenPolicy DEF Inv, TypeOK, PassIsCurrent, CountersEnd, Expired
<1>4. InHand'
  BY BrokenPolicy DEF Inv, TypeOK, InHand, PassIsCurrent, CountersEnd
<1> QED
  BY <1>1, <1>2, <1>3, <1>4 DEF Inv, TypeOK, CountersEnd

\* Every step preserves the invariant.
LEMMA InvStep == Inv /\ [Next]_vars => Inv'
<1> SUFFICES ASSUME Inv, [Next]_vars PROVE Inv'
  OBVIOUS
<1> USE DEF Inv
<1>1. CASE Carry
  <2>1. TypeOK' /\ InHand' /\ PassIsCurrent'
    BY <1>1 DEF Carry, TypeOK, InHand, PassIsCurrent, Expired, Policies
  <2>2. Sound'
    BY <1>1, CarriedSound DEF Carry, TypeOK, Sound
  <2>3. (rx + tx <= total)'
    BY <1>1 DEF Carry, TypeOK
  <2> QED
    BY <2>1, <2>2, <2>3
<1>2. CASE StopInstance
  BY <1>2, CountersEndInv DEF StopInstance
<1>3. CASE StartInstance
  BY <1>3 DEF StartInstance, TypeOK, InHand, PassIsCurrent, Expired, Sound
<1>4. CASE DeleteByHand
  BY <1>4, CountersEndInv DEF DeleteByHand
<1>5. CASE Noon
  BY <1>5 DEF Noon, TypeOK, InHand, PassIsCurrent, Expired, Sound
<1>6. CASE CreateInstance
  BY <1>6 DEF CreateInstance, TypeOK, InHand, PassIsCurrent, Expired, Sound
<1>7. CASE PersistManaged
  BY <1>7, UnlimitedSound DEF PersistManaged, TypeOK, InHand, PassIsCurrent, Sound
<1>8. CASE RollBack
  BY <1>8, CountersEndInv DEF RollBack, InHand, PassIsCurrent
<1>9. CASE Delete
  <2>1. update = NoPolicy /\ item = NoPolicy /\ pass = "idle"
    BY <1>9 DEF Delete, InHand, PassIsCurrent
  <2>2. TypeOK'
    BY <1>9, BrokenPolicy DEF Delete, TypeOK
  <2>3. Sound'
    BY <1>9, <2>1, BrokenSound DEF Delete, TypeOK, Sound, SoundAt
  <2> QED
    BY <1>9, <2>1, <2>2, <2>3 DEF Delete, TypeOK, InHand, PassIsCurrent
<1>10. CASE BeginUpdate
  <2>1. PICK q \in Quotas, e \in Expiries : q >= 0 /\ update' = FromNow(q, e)
    BY <1>10 DEF BeginUpdate
  <2>2. q \in Nat
    BY <2>1, QuotasAreIntegers
  <2> QED
    BY <1>10, <2>1, <2>2, FromNowSound
    DEF BeginUpdate, TypeOK, InHand, PassIsCurrent, Sound
<1>11. CASE WriteUpdate
  BY <1>11 DEF WriteUpdate, TypeOK, InHand, PassIsCurrent, Sound, SoundAt
<1>12. CASE UpdateFails
  BY <1>12 DEF UpdateFails, TypeOK, InHand, PassIsCurrent, Sound, SoundAt
<1>13. CASE Export
  BY <1>13 DEF Export, TypeOK, InHand, PassIsCurrent, Expired, Sound
<1>14. CASE Restore
  <2>1. CASE row' = backup
    BY <1>14, <2>1 DEF Restore, TypeOK, InHand, PassIsCurrent, Sound
  <2>2. CASE backup # NoPolicy /\ row' = [backup EXCEPT !.expires = "odd"]
    <3>1. backup \in Policies
      BY <2>2 DEF TypeOK
    <3>2. row' \in Policies /\ SoundAt(row', rx, tx, total)
      BY <2>2, <3>1 DEF Policies, Expiries, Sound, SoundAt
    <3> QED
      BY <1>14, <3>2 DEF Restore, TypeOK, InHand, PassIsCurrent, Sound
  <2>3. ASSUME NEW q \in Quotas, q >= 0, NEW r \in Baselines, NEW t \in Baselines, NEW e \in Expiries,
               row' = Declared(q, r, t, e)
        PROVE  Inv'
    <3>1. q \in Nat /\ r \in Nat /\ t \in Nat
      BY <2>3, QuotasAreIntegers, BaselinesAreNatural
    <3>2. row' \in Policies /\ SoundAt(row', rx, tx, total)
      BY <2>3, <3>1, DeclaredSound
    <3> QED
      BY <1>14, <3>2 DEF Restore, TypeOK, InHand, PassIsCurrent, Sound
  <2> QED
    BY <1>14, <2>1, <2>2, <2>3 DEF Restore
<1>15. CASE BeginPass
  BY <1>15 DEF BeginPass, TypeOK, InHand, PassIsCurrent, Sound, Expired
<1>16. CASE Sample
  <2>1. row \in Policies /\ item = row /\ row.quota > 0
    BY <1>16 DEF Sample, PassIsCurrent, TypeOK
  <2>2. row' = (IF row.unbroken THEN [row EXCEPT !.sampled = total] ELSE row) /\ total \in Nat
    BY <1>16 DEF Sample, TypeOK
  <2>3. row' \in Policies
    BY <2>1, <2>2 DEF Policies
  <2>4. row' # NoPolicy
    BY <2>3, NoPolicyIsNone
  <2>5. SoundAt(row', rx, tx, total)
    <3>1. Used(row) < row.quota
      BY <1>16, <2>1 DEF Sample, Reached, Used, Delta, Policies, TypeOK
    <3>2. /\ row'.quota = row.quota /\ row'.since = row.since /\ row'.unbroken = row.unbroken
          /\ row'.rxBaseline = row.rxBaseline /\ row'.txBaseline = row.txBaseline
          /\ row.unbroken => row'.sampled = total
      BY <2>1, <2>2 DEF Policies
    <3>3. row # NoPolicy
      BY <2>1, NoPolicyIsNone
    <3>4. /\ rx \in Nat /\ tx \in Nat /\ total \in Nat
          /\ row.rxBaseline \in Nat /\ row.txBaseline \in Nat
          /\ row.since \in Nat /\ row.quota \in Nat
      BY <2>1 DEF TypeOK, Policies
    <3>5. SoundAt(row, rx, tx, total)
      BY DEF Sound
    <3>6. Used(row) <= total - row.since
      BY <3>3, <3>5 DEF SoundAt, Used
    <3>7. row.unbroken => total - row.since < row.quota
      BY <3>1, <3>3, <3>4, <3>5 DEF SoundAt, Used, Delta
    <3> QED
      BY <3>2, <3>3, <3>5, <3>7 DEF SoundAt
  <2> QED
    BY <1>16, <2>3, <2>4, <2>5 DEF Sample, PassEnds, TypeOK, InHand, PassIsCurrent, Sound, SoundAt
<1>17. CASE QuotaReached
  <2>1. row \in Policies /\ item = row /\ row # NoPolicy /\ row.quota > 0 /\ mutationMu = "policy"
    BY <1>17 DEF QuotaReached, PassIsCurrent, TypeOK
  <2>2. total - row.since >= row.quota
    <3>1. Used(row) >= row.quota
      BY <1>17, <2>1 DEF QuotaReached, Reached
    <3>2. Used(row) <= total - row.since
      BY <2>1 DEF Sound, SoundAt, Used
    <3> QED
      BY <2>1, <3>1, <3>2 DEF TypeOK, Policies, Used, Delta
  <2> QED
    BY <1>17, <2>1, <2>2 DEF QuotaReached, TypeOK, InHand, PassIsCurrent, Sound
<1>18. CASE StatsFails
  BY <1>18 DEF StatsFails, PassEnds, TypeOK, InHand, PassIsCurrent, Sound, SoundAt
<1>19. CASE StopLimited
  <2>1. update = NoPolicy
    BY <1>19 DEF StopLimited, InHand, PassIsCurrent
  <2>2. TypeOK'
    BY <1>19, BrokenPolicy DEF StopLimited, PassEnds, TypeOK
  <2>3. Sound'
    BY <1>19, <2>1, BrokenSound DEF StopLimited, PassEnds, TypeOK, Sound, SoundAt
  <2> QED
    BY <1>19, <2>1, <2>2, <2>3 DEF StopLimited, PassEnds, TypeOK, InHand, PassIsCurrent
<1>20. CASE StopFails
  BY <1>20 DEF StopFails, PassEnds, TypeOK, InHand, PassIsCurrent, Sound, SoundAt
<1>21. CASE CleanupFails
  BY <1>21 DEF CleanupFails, TypeOK, InHand, PassIsCurrent, Expired, Sound
<1>22. CASE UNCHANGED vars
  BY <1>22 DEF vars, TypeOK, InHand, PassIsCurrent, Expired, Sound
<1> QED
  BY <1>1, <1>2, <1>3, <1>4, <1>5, <1>6, <1>7, <1>8, <1>9, <1>10, <1>11, <1>12, <1>13,
     <1>14, <1>15, <1>16, <1>17, <1>18, <1>19, <1>20, <1>21, <1>22 DEF Next

\* The invariant holds of every behaviour.
LEMMA InvHolds == Spec => []Inv
BY InvInit, InvStep, PTL DEF Spec

-----------------------------------------------------------------------------
(* The results.                                                            *)

\* The variables have their types: no baseline and no quota is ever negative.
THEOREM TrafficTyped == Spec => []TypeOK
<1>1. Inv => TypeOK
  BY DEF Inv
<1> QED
  BY <1>1, InvHolds, PTL

\* A policy charges only traffic carried since its baselines were read, for any
\* number of restarts, restores and updates.
THEOREM Uncharged == Spec => []NeverOvercharged
<1>1. Inv => NeverOvercharged
  BY DEF Inv, Sound, SoundAt, NeverOvercharged, Fair, Used
<1> QED
  BY <1>1, InvHolds, PTL

\* A pass stops a container only for the policy in force.
THEOREM StopsDeserved == Spec => []PolicyStopsAreDeserved
<1>1. Inv => PolicyStopsAreDeserved
  BY DEF Inv, PassIsCurrent, PolicyStopsAreDeserved
<1> QED
  BY <1>1, InvHolds, PTL

\* The overage is less than what was carried since the last pass, whatever the
\* quota, as long as the counters run on.
THEOREM OverageBounded == Spec => []OverageIsBounded
<1>1. Inv => OverageIsBounded
  <2> SUFFICES ASSUME Inv, row # NoPolicy, row.quota > 0, row.unbroken
               PROVE  total - row.since < row.quota + (total - row.sampled)
    BY DEF OverageIsBounded
  <2>1. row \in Policies /\ total \in Nat
    BY DEF Inv, TypeOK
  <2>2. row.sampled - row.since < row.quota
    BY DEF Inv, Sound, SoundAt
  <2> QED
    BY <2>1, <2>2 DEF Policies
<1> QED
  BY <1>1, InvHolds, PTL
=============================================================================

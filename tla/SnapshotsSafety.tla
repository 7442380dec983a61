-------------------------- MODULE SnapshotsSafety --------------------------
(***************************************************************************)
(* What bears the name of a snapshot is one, and what lies beside the      *)
(* snapshots is accounted for, for any retention and any number of passes. *)
(***************************************************************************)
EXTENDS Snapshots, FiniteSetTheorems, WellFoundedInduction, TLAPS

\* The file a pass is about to publish is complete, and there is room to count
\* it; no pass runs without its process.
Prepared ==
    /\ step \in {"protect", "publish"} => \A t \in InHand : t.whole
    /\ Writing => published < MaxPublished
    /\ IsFiniteSet(temporaries)
    /\ service = "down" => step = "idle"

Inv == TypeOK /\ Prepared /\ SnapshotsAreWhole /\ TemporariesAreExplained

-----------------------------------------------------------------------------

LEMMA SnapshotsInit == Init => Inv
<1> SUFFICES ASSUME Init PROVE Inv
  OBVIOUS
<1> USE BoundsAreNumbers DEF Init
<1>1. TypeOK
  <2>1. 0 \in Instants /\ 0 \in 0..MaxPublished /\ 0 \in 0..MaxCopies
    BY DEF Instants
  <2>2. ~Writing /\ step \in Steps
    BY DEF Writing, Steps
  <2> QED
    BY <2>1, <2>2 DEF TypeOK
<1>2. Prepared
  BY FS_EmptySet DEF Prepared, Writing
<1>3. SnapshotsAreWhole
  BY DEF SnapshotsAreWhole
<1>4. TemporariesAreExplained
  BY FS_EmptySet DEF TemporariesAreExplained, Writing
<1> QED
  BY <1>1, <1>2, <1>3, <1>4 DEF Inv

-----------------------------------------------------------------------------
(* The temporary files.                                                    *)

\* The file of a pass goes: one less is there.
LEMMA HandedOver ==
    ASSUME IsFiniteSet(temporaries), InHand # {}
    PROVE  /\ IsFiniteSet(temporaries \ InHand)
           /\ Cardinality(temporaries \ InHand) \in Nat /\ Cardinality(temporaries) \in Nat
           /\ Cardinality(temporaries \ InHand) + 1 <= Cardinality(temporaries)
<1>1. PICK t \in temporaries : t \in InHand
  BY DEF InHand
<1>2. IsFiniteSet(temporaries \ {t}) /\ Cardinality(temporaries \ {t}) = Cardinality(temporaries) - 1
  BY FS_RemoveElement
<1>3. temporaries \ InHand \subseteq temporaries \ {t}
  BY <1>1
<1> HIDE DEF InHand
<1>4. /\ IsFiniteSet(temporaries \ InHand)
      /\ Cardinality(temporaries \ InHand) <= Cardinality(temporaries \ {t})
  BY <1>2, <1>3, FS_Subset
<1>5. Cardinality(temporaries \ InHand) \in Nat /\ Cardinality(temporaries) \in Nat
  BY <1>4, FS_CardinalityType
<1> QED
  BY <1>2, <1>4, <1>5

-----------------------------------------------------------------------------
(* One lemma for each step that touches them.                              *)

LEMMA BeginVacuumSafe ==
    ASSUME Inv, BeginVacuum
    PROVE  Inv'
<1> DEFINE t == [name |-> clock, whole |-> FALSE]
<1>1. t \notin temporaries /\ t \in Temporaries
  BY DEF BeginVacuum, Inv, TypeOK, Temporaries
<1>2. /\ IsFiniteSet(temporaries')
      /\ Cardinality(temporaries') = Cardinality(temporaries) + 1
  BY <1>1, FS_AddElement DEF BeginVacuum, Inv, Prepared
<1>3. Cardinality(temporaries) \in Nat
  BY FS_CardinalityType DEF Inv, Prepared
<1>4. TypeOK'
  <2>1. t \in InHand'
    BY DEF BeginVacuum, InHand
  <2> QED
    BY <1>1, <2>1 DEF BeginVacuum, Inv, TypeOK, Steps, Writing
<1>5. Prepared'
  BY <1>2 DEF BeginVacuum, Prepared
<1>6. SnapshotsAreWhole'
  BY DEF BeginVacuum, Inv, SnapshotsAreWhole
<1>7. TemporariesAreExplained'
  BY <1>2, <1>3 DEF BeginVacuum, Inv, TypeOK, TemporariesAreExplained, Writing
<1> QED
  BY <1>4, <1>5, <1>6, <1>7 DEF Inv

LEMMA VacuumEndsSafe ==
    ASSUME Inv, VacuumEnds
    PROVE  Inv'
<1> USE DEF Inv, VacuumEnds, GoTo
<1> DEFINE t == [name |-> name, whole |-> TRUE]
           rest == temporaries \ InHand
<1>1. InHand # {} /\ t \in Temporaries /\ temporaries' = rest \cup {t}
  BY DEF TypeOK, Writing, Temporaries
<1>2. /\ IsFiniteSet(rest) /\ Cardinality(rest) \in Nat /\ Cardinality(temporaries) \in Nat
      /\ Cardinality(rest) + 1 <= Cardinality(temporaries)
  BY <1>1, HandedOver DEF Prepared
<1> HIDE DEF rest
<1>3. /\ IsFiniteSet(temporaries') /\ Cardinality(temporaries') \in Nat
      /\ Cardinality(temporaries') <= Cardinality(rest) + 1
  <2>1. /\ IsFiniteSet(rest \cup {t})
        /\ Cardinality(rest \cup {t}) = (IF t \in rest THEN Cardinality(rest) ELSE Cardinality(rest) + 1)
    BY <1>2, FS_AddElement
  <2> QED
    BY <1>1, <1>2, <2>1
<1>4. InHand' = {t}
  BY <1>1 DEF InHand, rest
<1>5. TypeOK'
  BY <1>1, <1>4 DEF TypeOK, Steps, Writing, rest
<1>6. Prepared'
  BY <1>3, <1>4 DEF Prepared, Writing
<1>7. SnapshotsAreWhole'
  BY DEF SnapshotsAreWhole
<1>8. TemporariesAreExplained'
  BY <1>2, <1>3 DEF TypeOK, TemporariesAreExplained, Writing
<1> QED
  BY <1>5, <1>6, <1>7, <1>8

LEMMA GiveUpSafe ==
    ASSUME Inv, GiveUp
    PROVE  Inv'
<1> USE DEF Inv, GiveUp, GoTo
<1>1. InHand # {}
  BY DEF TypeOK
<1>2. /\ IsFiniteSet(temporaries \ InHand)
      /\ Cardinality(temporaries \ InHand) \in Nat /\ Cardinality(temporaries) \in Nat
      /\ Cardinality(temporaries \ InHand) + 1 <= Cardinality(temporaries)
  BY <1>1, HandedOver DEF Prepared
<1>3. TypeOK'
  BY DEF TypeOK, Steps, Writing, RemoveTemporary
<1>4. Prepared'
  BY <1>2 DEF Prepared, Writing, RemoveTemporary
<1>5. SnapshotsAreWhole'
  BY DEF SnapshotsAreWhole
<1>6. TemporariesAreExplained'
  BY <1>2 DEF TypeOK, TemporariesAreExplained, Writing, RemoveTemporary
<1> QED
  BY <1>3, <1>4, <1>5, <1>6

LEMMA PublishSafe ==
    ASSUME Inv, Publish
    PROVE  Inv'
<1> USE DEF Inv, Publish, GoTo
<1>1. InHand # {} /\ published < MaxPublished /\ \A t \in InHand : t.whole
  BY DEF TypeOK, Prepared, Writing
<1>2. /\ IsFiniteSet(temporaries \ InHand)
      /\ Cardinality(temporaries \ InHand) \in Nat /\ Cardinality(temporaries) \in Nat
      /\ Cardinality(temporaries \ InHand) + 1 <= Cardinality(temporaries)
  BY <1>1, HandedOver DEF Prepared
<1>3. published + 1 \in 0..MaxPublished
  BY <1>1, BoundsAreNumbers DEF TypeOK
<1>4. \A t \in InHand : t.whole \in BOOLEAN
  BY DEF InHand, TypeOK, Temporaries
<1>5. {[name |-> name, born |-> published + 1, whole |-> t.whole] : t \in InHand} \subseteq Files
  BY <1>3, <1>4 DEF TypeOK, Files
<1>6. TypeOK'
  BY <1>3, <1>5 DEF TypeOK, Steps, Writing
<1>7. Prepared'
  BY <1>2 DEF Prepared, Writing
<1>8. SnapshotsAreWhole'
  BY <1>1 DEF SnapshotsAreWhole
<1>9. TemporariesAreExplained'
  BY <1>2 DEF TypeOK, TemporariesAreExplained, Writing
<1> QED
  BY <1>6, <1>7, <1>8, <1>9

\* The end of the process leaves the file in hand to nobody.
LEMMA EndSafe ==
    ASSUME Inv, End
    PROVE  Inv'
<1> USE DEF Inv, End
<1>1. Cardinality(temporaries) \in Nat
  BY FS_CardinalityType DEF Prepared
<1>2. TypeOK'
  BY DEF TypeOK, Steps, Writing
<1>3. Prepared' /\ SnapshotsAreWhole'
  BY DEF Prepared, Writing, SnapshotsAreWhole
<1>4. TemporariesAreExplained'
  BY <1>1 DEF TypeOK, TemporariesAreExplained, Writing
<1> QED
  BY <1>2, <1>3, <1>4

\* A step that leaves the temporary files, and puts no file among the snapshots.
LEMMA OthersSafe ==
    ASSUME Inv, TypeOK', UNCHANGED <<temporaries, name, published, lost>>,
           Writing' = Writing, service' = "down" => step' = "idle",
           step' \in {"protect", "publish"} => step \in {"protect", "publish"},
           \A f \in files' : f \in files \/ f.whole
    PROVE  Inv'
BY DEF Inv, Prepared, InHand, SnapshotsAreWhole, TemporariesAreExplained

LEMMA PassSafe ==
    ASSUME Inv, Start \/ Tick \/ BeginFails \/ Protect \/ Scan \/ Remove
    PROVE  Inv'
<1> USE DEF Inv, TypeOK, Prepared, GoTo, Steps, Writing, InHand
<1>1. CASE Start
  BY <1>1, OthersSafe DEF Start
<1>2. CASE Tick
  BY <1>2, OthersSafe DEF Tick
<1>3. CASE BeginFails
  BY <1>3, OthersSafe DEF BeginFails
<1>4. CASE Protect
  BY <1>4, OthersSafe DEF Protect
<1>5. CASE Scan
  <2>1. Excess \subseteq files
    BY DEF Excess, AllBut
  <2>2. \A f \in files : f.name \in Instants \cup CopyNames
    BY DEF Files
  <2>3. victims' = {f.name : f \in Excess} /\ step' = IF Excess = {} THEN "idle" ELSE "remove"
    BY <1>5 DEF Scan
  <2>4. victims' \in SUBSET (Instants \cup CopyNames)
    BY <2>1, <2>2, <2>3
  <2>5. victims' = {} <=> Excess = {}
    <3> HIDE DEF Inv, TypeOK, Prepared
    <3> QED
      BY <2>3
  <2>6. TypeOK'
    BY <1>5, <2>3, <2>4, <2>5 DEF Scan
  <2> QED
    BY <1>5, <2>3, <2>6, OthersSafe DEF Scan
<1>6. CASE Remove
  <2>1. PICK v \in victims :
           /\ victims' = victims \ {v}
           /\ step' = IF victims = {v} THEN "idle" ELSE "remove"
    BY <1>6 DEF Remove
  <2>2. files' \subseteq files
    BY <1>6 DEF Remove
  <2>3. TypeOK'
    BY <1>6, <2>1, <2>2 DEF Remove
  <2> QED
    BY <1>6, <2>1, <2>2, <2>3, OthersSafe DEF Remove
<1> QED
  BY <1>1, <1>2, <1>3, <1>4, <1>5, <1>6

LEMMA WorldSafe ==
    ASSUME Inv, Terminate \/ Advance \/ SetBack \/ Copy
    PROVE  Inv'
<1> USE BoundsAreNumbers DEF Inv, TypeOK, Prepared, Writing, InHand, pass
<1>1. CASE Terminate
  BY <1>1, OthersSafe DEF Terminate
<1>2. CASE Advance
  BY <1>2, OthersSafe DEF Advance, Instants
<1>3. CASE SetBack
  BY <1>3, OthersSafe DEF SetBack, Instants
<1>4. CASE Copy
  <2>1. [name |-> MaxClock + copies + 1, born |-> 0, whole |-> TRUE] \in Files
    BY <1>4 DEF Copy, Files, CopyNames
  <2>2. copies + 1 \in 0..MaxCopies
    BY <1>4 DEF Copy
  <2>3. TypeOK'
    BY <1>4, <2>1, <2>2 DEF Copy
  <2>4. \A f \in files' : f \in files \/ f.whole
    BY <1>4 DEF Copy
  <2> QED
    BY <1>4, <2>3, <2>4, OthersSafe DEF Copy
<1> QED
  BY <1>1, <1>2, <1>3, <1>4

LEMMA SnapshotsStep == Inv /\ [Next]_vars => Inv'
<1> SUFFICES ASSUME Inv, [Next]_vars PROVE Inv'
  OBVIOUS
<1>1. CASE UNCHANGED vars
  BY <1>1 DEF vars, pass, Inv, TypeOK, Prepared, SnapshotsAreWhole, TemporariesAreExplained,
              Writing, InHand
<1> QED
  BY <1>1, BeginVacuumSafe, VacuumEndsSafe, GiveUpSafe, PublishSafe, EndSafe, PassSafe, WorldSafe
     DEF Next, BackupOnce

LEMMA SnapshotsInvariant == Spec => []Inv
BY SnapshotsInit, SnapshotsStep, PTL DEF Spec

-----------------------------------------------------------------------------

\* Files, temporaries and the pass keep their types.
THEOREM SnapshotsTyped == Spec => []TypeOK
<1>1. Inv => TypeOK
  BY DEF Inv
<1> QED
  BY <1>1, SnapshotsInvariant, PTL

\* No failure and no end of the process puts half of a database under the name
\* of a snapshot.
THEOREM SnapshotsWhole == Spec => []SnapshotsAreWhole
<1>1. Inv => SnapshotsAreWhole
  BY DEF Inv
<1> QED
  BY <1>1, SnapshotsInvariant, PTL

\* A temporary file that stays was left by the end of the process or by its own
\* removal.
THEOREM TemporariesExplained == Spec => []TemporariesAreExplained
<1>1. Inv => TemporariesAreExplained
  BY DEF Inv
<1> QED
  BY <1>1, SnapshotsInvariant, PTL

-----------------------------------------------------------------------------
(* How many there are, and which.  Inv says nothing of that: what pruning  *)
(* takes is decided at one step and carried out at later ones.             *)

\* The files of S that sort after the name v.
Above(S, v) == {g \in S : g.name > v}

\* No two files have one name, and the next copy and the next snapshot find
\* theirs free.
Distinct ==
    /\ IsFiniteSet(files)
    /\ \A f, g \in files : f.name = g.name => f = g
    /\ \A f \in files : f.name <= MaxClock + copies
    /\ Writing => \A f \in files : f.name # name

\* A later name is a later file, while names are the times of passes.
Aged ==
    /\ \A f \in files : f.born <= published
    /\ ~setBack /\ copies = 0 =>
          /\ \A f \in files : f.name <= clock
          /\ \A f, g \in files : f.name < g.name => f.born < g.born
          /\ Writing => name <= clock /\ \A f \in files : f.name < name

\* What is yet to be removed may go, and nothing else has to.
Pruning ==
    /\ \A v \in victims : Cardinality(Above(files, v)) >= Retention
    /\ step = "remove" /\ ~spoiled => \A f \in Excess : f.name \in victims

Kept == Distinct /\ Aged /\ Pruning /\ RetentionIsKept

LEMMA RetentionType == Retention \in Nat /\ Retention >= 1
BY RetentionIsANumber DEF Retention

\* The files and their names, as the proofs count them.
LEMMA NamesType ==
    ASSUME Inv
    PROVE  /\ \A f \in files : f.name \in Nat /\ f.born \in Nat
           /\ \A v \in victims : v \in Nat
           /\ name \in Nat /\ clock \in Nat /\ name <= MaxClock /\ clock <= MaxClock
           /\ published \in Nat /\ copies \in Nat
BY BoundsAreNumbers DEF Inv, TypeOK, Files, Instants, CopyNames

LEMMA AboveIsFinite ==
    ASSUME NEW S, IsFiniteSet(S), NEW v
    PROVE  IsFiniteSet(Above(S, v)) /\ Cardinality(Above(S, v)) \in Nat
<1>1. Above(S, v) \in SUBSET S
  BY DEF Above
<1>2. IsFiniteSet(Above(S, v))
  BY <1>1, FS_Subset
<1> QED
  BY <1>2, FS_CardinalityType

\* More files, more above a name.
LEMMA AboveGrows ==
    ASSUME NEW S, NEW T, IsFiniteSet(T), S \subseteq T, NEW v
    PROVE  Cardinality(Above(S, v)) <= Cardinality(Above(T, v))
<1>1. Above(S, v) \in SUBSET Above(T, v)
  BY DEF Above
<1>2. IsFiniteSet(Above(T, v))
  BY AboveIsFinite
<1> QED
  BY <1>1, <1>2, FS_Subset

\* When no file is beyond the retention there are no more than the retention:
\* all the others sort after the first.
LEMMA NoExcess ==
    ASSUME NEW S, IsFiniteSet(S), \A f \in S : f.name \in Nat,
           \A f, g \in S : f.name = g.name => f = g,
           \A f \in S : ~ (Cardinality(Above(S, f.name)) >= Retention)
    PROVE  Cardinality(S) <= Retention
<1> DEFINE NN == {f.name : f \in S}
<1>1. CASE S = {}
  BY <1>1, FS_EmptySet, RetentionType
<1>2. CASE S # {}
  <2>1. NN \subseteq Nat /\ NN # {}
    BY <1>2
  <2> HIDE DEF NN
  <2>2. \E m \in NN : \A k \in NN : ~ (<<k, m>> \in OpToRel(<, Nat))
    BY <2>1, WFMin, NatLessThanWellFounded, Zenon
  <2>3. PICK m \in NN : \A k \in NN : ~ (<<k, m>> \in OpToRel(<, Nat))
    BY <2>2, Zenon
  <2>4. \A k, l \in Nat : k < l => <<k, l>> \in OpToRel(<, Nat)
    BY Zenon DEF OpToRel
  <2>5. \A k \in NN : ~ (k < m)
    BY <2>1, <2>3, <2>4, Zenon
  <2>6. PICK f \in S : f.name = m
    BY DEF NN
  <2>7. \A g \in S : g.name \in NN
    BY DEF NN
  <2>8. S \ {f} = Above(S, f.name)
    <3>1. ASSUME NEW g \in S, g # f PROVE g.name > f.name
      <4>1. g.name # m /\ ~ (g.name < m) /\ g.name \in Nat /\ m \in Nat
        BY <3>1, <2>5, <2>6, <2>7
      <4> QED
        BY <4>1, <2>6
    <3>2. f.name \in Nat /\ ~ (f.name > f.name)
      OBVIOUS
    <3> QED
      BY <3>1, <3>2 DEF Above
  <2>9. ~ (Cardinality(Above(S, f.name)) >= Retention)
    OBVIOUS
  <2>10. Cardinality(S \ {f}) = Cardinality(S) - 1 /\ Cardinality(S) \in Nat
    BY FS_RemoveElement, FS_CardinalityType
  <2> QED
    BY <2>8, <2>9, <2>10, RetentionType
<1> QED
  BY <1>1, <1>2

LEMMA KeptInit == Init => Kept
<1> SUFFICES ASSUME Init PROVE Kept
  OBVIOUS
<1>1. IsFiniteSet(files) /\ Cardinality(files) = 0
  BY FS_EmptySet DEF Init
<1> QED
  BY <1>1, RetentionType DEF Init, Kept, Distinct, Aged, Pruning, RetentionIsKept, Writing

\* A step that changes neither the files nor what counts them.
LEMMA UntouchedKept ==
    ASSUME Inv, Kept, UNCHANGED <<files, published, copies>>,
           Distinct', Aged', Pruning'
    PROVE  Kept'
BY DEF Kept, RetentionIsKept

LEMMA BeginVacuumKept ==
    ASSUME Inv, Kept, BeginVacuum
    PROVE  Kept'
<1> USE DEF BeginVacuum
<1>1. Distinct'
  BY DEF Kept, Distinct, Writing
<1>2. Aged'
  <2>1. \A f \in files : f.name # clock
    OBVIOUS
  <2>2. clock \in Nat /\ \A f \in files : f.name \in Nat
    BY NamesType
  <2>3. name' = clock /\ step' = "vacuum" /\ UNCHANGED <<files, clock, setBack, published, copies>>
    OBVIOUS
  <2>4. ~setBack /\ copies = 0 => \A f \in files : f.name < clock
    BY <2>1, <2>2 DEF Kept, Aged
  <2> QED
    BY <2>2, <2>3, <2>4 DEF Kept, Aged
<1>3. Pruning'
  BY DEF Kept, Pruning, Excess, AllBut
<1> QED
  BY <1>1, <1>2, <1>3, UntouchedKept

\* A file that comes with a new name is one more.
LEMMA OneMore ==
    ASSUME Inv, Distinct, NEW x, \A f \in files : f.name # x.name
    PROVE  /\ IsFiniteSet(files \cup {x})
           /\ Cardinality(files \cup {x}) = Cardinality(files) + 1
           /\ Cardinality(files) \in Nat
<1>1. x \notin files
  OBVIOUS
<1> QED
  BY <1>1, FS_AddElement, FS_CardinalityType DEF Distinct

LEMMA PublishKept ==
    ASSUME Inv, Kept, Publish
    PROVE  Kept'
<1> DEFINE x == [name |-> name, born |-> published + 1, whole |-> TRUE]
<1>1. Writing /\ ~Writing' /\ InHand # {} /\ \A t \in InHand : t.whole
  BY DEF Publish, GoTo, Writing, Inv, TypeOK, Prepared
<1>2. \A t \in InHand : t.whole = TRUE
  BY <1>1 DEF Inv, TypeOK, Temporaries, InHand
<1>3. files' = files \cup {x}
  BY <1>1, <1>2 DEF Publish
<1>4. x.name = name /\ x.born = published + 1
  OBVIOUS
<1> HIDE DEF x
<1>5. \A f \in files : f.name # x.name
  BY <1>1, <1>4 DEF Kept, Distinct
<1>6. /\ IsFiniteSet(files') /\ Cardinality(files') = Cardinality(files) + 1
      /\ Cardinality(files) \in Nat
  BY <1>3, <1>5, OneMore DEF Kept
<1>7. published' = published + 1 /\ UNCHANGED <<clock, setBack, name, victims, spoiled, copies>>
      /\ step' = "scan" /\ step = "publish"
  BY DEF Publish, GoTo
<1>8. victims = {}
  BY <1>7 DEF Inv, TypeOK
<1>9. Distinct'
  <2>1. x.name <= MaxClock + copies
    BY <1>4, NamesType, BoundsAreNumbers
  <2> QED
    BY <1>1, <1>3, <1>5, <1>6, <1>7, <2>1 DEF Kept, Distinct
<1>10. Aged'
  <2>1. \A f \in files' : f.born <= published'
    BY <1>3, <1>4, <1>7, NamesType DEF Kept, Aged
  <2>2. ASSUME ~setBack', copies' = 0
        PROVE  /\ \A f \in files' : f.name <= clock'
               /\ \A f, g \in files' : f.name < g.name => f.born < g.born
    <3>1. /\ name <= clock /\ \A f \in files : f.name < name /\ f.name <= clock
          /\ \A f, g \in files : f.name < g.name => f.born < g.born
          /\ \A f \in files : f.born <= published
      BY <2>2, <1>1, <1>7 DEF Kept, Aged
    <3>2. /\ published \in Nat /\ name \in Nat
          /\ \A f \in files : f.name \in Nat /\ f.born \in Nat
      BY NamesType
    <3>3. \A f \in files : f.born < x.born /\ ~ (x.name < f.name)
      BY <3>1, <3>2, <1>4
    <3>4. ~ (x.name < x.name)
      BY <3>2, <1>4
    <3> QED
      BY <3>1, <3>3, <3>4, <1>3, <1>4, <1>7
  <2> QED
    BY <1>1, <2>1, <2>2 DEF Aged
<1>11. Pruning'
  BY <1>7, <1>8 DEF Pruning
<1>12. RetentionIsKept'
  BY <1>6, <1>7, NamesType, RetentionType DEF Kept, RetentionIsKept
<1> QED
  BY <1>9, <1>10, <1>11, <1>12 DEF Kept

LEMMA CopyKept ==
    ASSUME Inv, Kept, Copy
    PROVE  Kept'
<1> DEFINE x == [name |-> MaxClock + copies + 1, born |-> 0, whole |-> TRUE]
<1>1. /\ files' = files \cup {x} /\ copies' = copies + 1 /\ spoiled' = TRUE
      /\ UNCHANGED <<published, victims, name, step>>
  BY DEF Copy
<1>2. x.name = MaxClock + copies + 1 /\ x.born = 0
  OBVIOUS
<1> HIDE DEF x
<1>3. \A f \in files : f.name # x.name
  BY <1>2, NamesType, BoundsAreNumbers DEF Kept, Distinct
<1>4. /\ IsFiniteSet(files') /\ Cardinality(files') = Cardinality(files) + 1
      /\ Cardinality(files) \in Nat
  BY <1>1, <1>3, OneMore DEF Kept
<1>5. Distinct'
  <2>1. \A f \in files' : f.name <= MaxClock + copies'
    BY <1>1, <1>2, NamesType, BoundsAreNumbers DEF Kept, Distinct
  <2>2. Writing' => \A f \in files' : f.name # name'
    BY <1>1, <1>2, NamesType, BoundsAreNumbers DEF Kept, Distinct, Writing
  <2>3. \A f, g \in files' : f.name = g.name => f = g
    BY <1>1, <1>3 DEF Kept, Distinct
  <2> QED
    BY <1>4, <2>1, <2>2, <2>3 DEF Distinct
<1>6. Aged'
  BY <1>1, <1>2, NamesType DEF Kept, Aged
<1>7. Pruning'
  <2>1. ASSUME NEW v \in victims PROVE Cardinality(Above(files', v)) >= Retention
    <3>1. Cardinality(Above(files, v)) <= Cardinality(Above(files', v))
      BY <1>1, <1>4, AboveGrows
    <3>2. Cardinality(Above(files, v)) \in Nat /\ Cardinality(Above(files', v)) \in Nat
      BY <1>4, AboveIsFinite DEF Kept, Distinct
    <3>3. Cardinality(Above(files, v)) >= Retention
      BY DEF Kept, Pruning
    <3> QED
      BY <3>1, <3>2, <3>3, RetentionType
  <2> QED
    BY <1>1, <2>1 DEF Pruning
<1>8. RetentionIsKept'
  BY <1>1, <1>4, NamesType, RetentionType DEF Kept, RetentionIsKept
<1> QED
  BY <1>5, <1>6, <1>7, <1>8 DEF Kept

LEMMA ScanKept ==
    ASSUME Inv, Kept, Scan
    PROVE  Kept'
<1> USE DEF Scan
<1>1. ~Writing'
  BY DEF Writing
<1>2. Distinct' /\ Aged'
  BY <1>1 DEF Kept, Distinct, Aged, Writing
<1>3. Pruning'
  <2>1. \A f \in Excess : Cardinality(Above(files, f.name)) >= Retention
    BY DEF Excess, AllBut, Above
  <2>2. victims' = {f.name : f \in Excess} /\ Excess' = Excess
    BY DEF Excess, AllBut
  <2> HIDE DEF Excess
  <2>3. \A v \in victims' : Cardinality(Above(files, v)) >= Retention
    BY <2>1, <2>2
  <2> QED
    BY <2>2, <2>3 DEF Pruning
<1> QED
  BY <1>2, <1>3, UntouchedKept

\* What a removal that succeeds leaves: whatever sorted after the name still
\* does.
LEMMA RemoveLeaves ==
    ASSUME Inv, Kept, Remove
    PROVE  \E v \in victims :
              /\ \A u \in victims : v <= u
              /\ victims' = victims \ {v}
              /\ \/ files' = {f \in files : f.name # v} /\ spoiled' = spoiled
                 \/ files' = files /\ spoiled' = TRUE
              /\ \A u \in victims : Above(files', u) = Above(files, u)
              /\ files' \subseteq files
              /\ IsFiniteSet(files')
              /\ Cardinality(files') >= Retention
<1>1. PICK v \in victims :
         /\ \A u \in victims : v <= u
         /\ victims' = victims \ {v}
         /\ \/ files' = {f \in files : f.name # v} /\ spoiled' = spoiled
            \/ files' = files /\ spoiled' = TRUE
  BY DEF Remove
<1>2. files' \subseteq files
  BY <1>1
<1>3. ASSUME NEW u \in victims PROVE Above(files', u) = Above(files, u)
  <2>1. v <= u /\ v \in Nat /\ u \in Nat /\ \A f \in files : f.name \in Nat
    BY <1>1, NamesType
  <2>2. \A f \in files : f.name > u => f.name # v
    BY <2>1
  <2> QED
    BY <1>1, <2>2 DEF Above
<1>4. IsFiniteSet(files') /\ Cardinality(files') \in Nat
  <2>1. IsFiniteSet(files')
    BY <1>2, FS_Subset DEF Kept, Distinct
  <2> QED
    BY <2>1, FS_CardinalityType
<1>5. Cardinality(Above(files', v)) <= Cardinality(files')
  <2>1. Above(files', v) \in SUBSET files'
    BY DEF Above
  <2> QED
    BY <1>4, <2>1, FS_Subset
<1>6. Cardinality(Above(files', v)) >= Retention /\ Cardinality(Above(files', v)) \in Nat
  BY <1>3, <1>4, AboveIsFinite DEF Kept, Pruning
<1>7. Cardinality(files') >= Retention
  BY <1>4, <1>5, <1>6, RetentionType
<1> QED
  BY <1>1, <1>2, <1>3, <1>4, <1>7

LEMMA RemoveKept ==
    ASSUME Inv, Kept, Remove
    PROVE  Kept'
<1>1. PICK v \in victims :
         /\ \A u \in victims : v <= u
         /\ victims' = victims \ {v}
         /\ \/ files' = {f \in files : f.name # v} /\ spoiled' = spoiled
            \/ files' = files /\ spoiled' = TRUE
         /\ \A u \in victims : Above(files', u) = Above(files, u)
         /\ files' \subseteq files
         /\ IsFiniteSet(files')
         /\ Cardinality(files') >= Retention
  BY RemoveLeaves
<1>2. /\ UNCHANGED <<clock, setBack, name, published, copies>>
      /\ step = "remove" /\ step' \in {"idle", "remove"}
  BY DEF Remove
<1>3. ~Writing'
  BY <1>2 DEF Writing
<1>4. Distinct'
  BY <1>1, <1>2, <1>3 DEF Kept, Distinct
<1>5. Aged'
  BY <1>1, <1>2, <1>3 DEF Kept, Aged
<1>6. Pruning'
  <2>1. \A u \in victims' : Cardinality(Above(files', u)) >= Retention
    BY <1>1 DEF Kept, Pruning
  <2>2. ASSUME ~spoiled', NEW f \in Excess' PROVE f.name \in victims'
    <3>1. ~spoiled /\ f \in files /\ f \in files' /\ f.name # v
      BY <1>1, <2>2 DEF Excess, AllBut
    <3>2. Cardinality(Above(files', f.name)) >= Retention
      BY <2>2 DEF Excess, AllBut, Above
    <3>3. Cardinality(Above(files', f.name)) <= Cardinality(Above(files, f.name))
      BY <1>1, AboveGrows DEF Kept, Distinct
    <3>4. /\ Cardinality(Above(files', f.name)) \in Nat
          /\ Cardinality(Above(files, f.name)) \in Nat
      BY <1>1, AboveIsFinite DEF Kept, Distinct
    <3>5. Cardinality(Above(files, f.name)) >= Retention
      BY <3>2, <3>3, <3>4, RetentionType
    <3>6. f \in Excess
      BY <3>1, <3>5 DEF Excess, AllBut, Above
    <3> QED
      BY <1>1, <1>2, <3>1, <3>6 DEF Kept, Pruning
  <2> QED
    BY <2>1, <2>2 DEF Pruning
<1>7. RetentionIsKept'
  <2>1. Cardinality(files') \in Nat
    BY <1>1, FS_CardinalityType
  <2> QED
    BY <1>1, <1>2, <2>1, NamesType, RetentionType DEF RetentionIsKept
<1> QED
  BY <1>4, <1>5, <1>6, <1>7 DEF Kept

\* The other steps of a pass and of the world leave the files.
LEMMA RestKept ==
    ASSUME Inv, Kept,
           Start \/ Tick \/ BeginFails \/ VacuumEnds \/ Protect \/ GiveUp \/ Terminate \/ End
    PROVE  Kept'
<1>1. /\ UNCHANGED <<files, published, copies, clock, setBack, name, spoiled>>
      /\ Writing' => Writing
      /\ victims' \subseteq victims
      /\ step' = "remove" => step = "remove" /\ victims' = victims
  BY DEF Start, Tick, BeginFails, VacuumEnds, Protect, GiveUp, Terminate, End, GoTo, Writing, pass
<1>2. Distinct'
  BY <1>1 DEF Kept, Distinct
<1>3. Aged'
  BY <1>1 DEF Kept, Aged
<1>4. Pruning'
  BY <1>1 DEF Kept, Pruning, Excess, AllBut
<1> QED
  BY <1>1, <1>2, <1>3, <1>4, UntouchedKept

\* The clock: as long as nobody set it back it only goes on.
LEMMA ClockKept ==
    ASSUME Inv, Kept, Advance \/ SetBack
    PROVE  Kept'
<1>1. /\ UNCHANGED <<files, published, copies, name, spoiled, step, victims>>
      /\ ~setBack' => ~setBack /\ clock' = clock + 1
  BY DEF Advance, SetBack, pass
<1>2. Distinct'
  BY <1>1 DEF Kept, Distinct, Writing
<1>3. Aged'
  <2>1. \A f \in files : f.name \in Nat
    BY NamesType
  <2>2. name \in Nat /\ clock \in Nat
    BY NamesType
  <2>3. Writing' = Writing
    BY <1>1 DEF Writing
  <2> QED
    BY <1>1, <2>1, <2>2, <2>3 DEF Kept, Aged
<1>4. Pruning'
  BY <1>1 DEF Kept, Pruning, Excess, AllBut
<1> QED
  BY <1>1, <1>2, <1>3, <1>4, UntouchedKept

LEMMA KeptStep == Inv /\ Kept /\ [Next]_vars => Kept'
<1> SUFFICES ASSUME Inv, Kept, [Next]_vars PROVE Kept'
  OBVIOUS
<1>1. CASE UNCHANGED vars
  BY <1>1 DEF vars, pass, Kept, Distinct, Aged, Pruning, RetentionIsKept, Writing, Excess, AllBut
<1> QED
  BY <1>1, BeginVacuumKept, PublishKept, ScanKept, RemoveKept, RestKept, ClockKept, CopyKept
     DEF Next, BackupOnce

\* What the invariant above leaves open: names, ages and counts of the files
\* stay in step through every pass, cut short or not.
THEOREM FilesKept == Spec => [](Inv /\ Kept)
<1>1. Init => Inv /\ Kept
  BY SnapshotsInit, KeptInit
<1>2. (Inv /\ Kept) /\ [Next]_vars => (Inv /\ Kept)'
  BY SnapshotsStep, KeptStep
<1> QED
  BY <1>1, <1>2, PTL DEF Spec

\* However passes are cut short, whatever the clock does and whatever else is
\* in the directory, pruning leaves as many files as the retention, or all there
\* ever were.
THEOREM RetentionKept == Spec => []RetentionIsKept
<1>1. Inv /\ Kept => RetentionIsKept
  BY DEF Kept
<1> QED
  BY <1>1, FilesKept, PTL

\* Only Remove takes a file, and only one that as many as the retention sort
\* after; while names are ages, these are newer.
LEMMA RemovedIsOld ==
    ASSUME Inv, Kept, [Next]_vars, NEW f \in files \ files', ~setBack, copies = 0
    PROVE  Cardinality({g \in files' : g.born > f.born}) >= Retention
<1>1. Remove
  BY DEF Next, BackupOnce, vars, pass, Start, Tick, BeginVacuum, BeginFails, VacuumEnds, Protect,
         Publish, GiveUp, Scan, Terminate, End, Advance, SetBack, Copy, GoTo
<1>2. PICK v \in victims :
         /\ \A u \in victims : v <= u
         /\ victims' = victims \ {v}
         /\ \/ files' = {g \in files : g.name # v} /\ spoiled' = spoiled
            \/ files' = files /\ spoiled' = TRUE
         /\ \A u \in victims : Above(files', u) = Above(files, u)
         /\ files' \subseteq files
         /\ IsFiniteSet(files')
         /\ Cardinality(files') >= Retention
  BY <1>1, RemoveLeaves
<1>3. f.name = v /\ Cardinality(Above(files', v)) >= Retention
  BY <1>2 DEF Kept, Pruning
<1> DEFINE newer == {g \in files' : g.born > f.born}
<1>4. Above(files', v) \in SUBSET newer
  <2>1. \A g \in files : f.name < g.name => f.born < g.born
    BY DEF Kept, Aged
  <2>2. \A g \in files : g.born \in Nat /\ g.name \in Nat
    BY NamesType
  <2> QED
    BY <1>2, <1>3, <2>1, <2>2 DEF Above
<1>5. IsFiniteSet(newer)
  BY <1>2, FS_Subset
<1> HIDE DEF newer
<1>6. /\ Cardinality(Above(files', v)) <= Cardinality(newer)
      /\ Cardinality(Above(files', v)) \in Nat /\ Cardinality(newer) \in Nat
  BY <1>2, <1>4, <1>5, FS_Subset, FS_CardinalityType, AboveIsFinite
<1>7. Cardinality(newer) >= Retention
  BY <1>3, <1>6, RetentionType
<1> QED
  BY <1>7 DEF newer

\* With a clock that only goes on and no foreign files, the snapshots that go
\* are the oldest: pruneBackups never removes one of the newest.
THEOREM NewestKept == Spec => NewestAreKept
<1>1. Inv /\ Kept /\ [Next]_vars =>
         [\A f \in files \ files' :
             ~setBack /\ copies = 0 =>
                 Cardinality({g \in files' : g.born > f.born}) >= Retention]_vars
  BY RemovedIsOld
<1> QED
  BY <1>1, FilesKept, PTL DEF Spec, NewestAreKept

\* A pass ends in Scan, with nothing to remove, or with its last removal.
LEMMA EndsTidy ==
    ASSUME Inv, Kept, Inv', Kept', [Next]_vars,
           step' = "idle", step \in {"scan", "remove"}, service' # "down", ~spoiled'
    PROVE  Cardinality(files') <= Retention
<1>1. Scan \/ Remove
  BY DEF Next, BackupOnce, vars, pass, Start, Tick, BeginVacuum, BeginFails, VacuumEnds, Protect,
         Publish, GiveUp, Terminate, End, Advance, SetBack, Copy, GoTo, Writing
<1>2. CASE Scan
  <2>1. Excess = {} /\ files' = files
    BY <1>2 DEF Scan
  <2>2. \A f \in files : ~ (Cardinality(Above(files, f.name)) >= Retention)
    BY <2>1 DEF Excess, AllBut, Above
  <2> QED
    BY <2>1, <2>2, NoExcess, NamesType DEF Kept, Distinct
<1>3. CASE Remove
  <2>1. PICK v \in victims :
           /\ \A u \in victims : v <= u
           /\ victims' = victims \ {v}
           /\ \/ files' = {f \in files : f.name # v} /\ spoiled' = spoiled
              \/ files' = files /\ spoiled' = TRUE
           /\ \A u \in victims : Above(files', u) = Above(files, u)
           /\ files' \subseteq files
           /\ IsFiniteSet(files')
           /\ Cardinality(files') >= Retention
    BY <1>3, RemoveLeaves
  <2>2. files' = {f \in files : f.name # v} /\ ~spoiled /\ step = "remove"
    BY <1>3, <2>1 DEF Remove
  <2>3. victims' = {}
    BY DEF Inv, TypeOK
  <2>4. ASSUME NEW f \in files', Cardinality(Above(files', f.name)) >= Retention
        PROVE  FALSE
    <3>1. f \in files' /\ f \in files /\ f.name # v
      BY <2>2
    <3>2. Cardinality(Above(files', f.name)) >= Retention
      BY <2>4
    <3>3. /\ Cardinality(Above(files', f.name)) <= Cardinality(Above(files, f.name))
          /\ Cardinality(Above(files', f.name)) \in Nat
          /\ Cardinality(Above(files, f.name)) \in Nat
      BY <2>1, AboveGrows, AboveIsFinite DEF Kept, Distinct
    <3>4. f \in Excess
      BY <3>1, <3>2, <3>3, RetentionType DEF Excess, AllBut, Above
    <3>5. f.name \in victims
      BY <2>2, <3>4 DEF Kept, Pruning
    <3> QED
      BY <2>1, <2>3, <3>1, <3>5
  <2>5. /\ \A f \in files' : f.name \in Nat
        /\ \A f, g \in files' : f.name = g.name => f = g
    BY <2>2, NamesType DEF Kept, Distinct
  <2> QED
    BY <2>1, <2>4, <2>5, NoExcess
<1> QED
  BY <1>1, <1>2, <1>3

\* A pass in which every removal worked leaves no more files than the retention,
\* also after passes that were cut off or refused.
THEOREM ExcessRemoved == Spec => ExcessIsRemoved
<1>1. Inv /\ Kept /\ Inv' /\ Kept' /\ [Next]_vars =>
         [step' = "idle" /\ step \in {"scan", "remove"} /\ service' # "down" /\ ~spoiled' =>
             Cardinality(files') <= Retention]_vars
  BY EndsTidy
<1> QED
  BY <1>1, FilesKept, PTL DEF Spec, ExcessIsRemoved

LEMMA StoreCounts == \A S : Store!Cardinality(S) = Cardinality(S)
BY Zenon DEF Store!Cardinality, Cardinality

\* Every step that changes the directory adds one complete file of a new name,
\* or removes one from below and beyond the retention.
LEMMA StepIsStored ==
    ASSUME Inv, Kept, Inv', [Next]_vars
    PROVE  Store!Next \/ files' = files
<1> DEFINE Comes(x) == files' = files \cup {x} /\ x.whole /\ \A g \in files : g.name # x.name
<1>1. ASSUME NEW x, Comes(x) PROVE Store!Next
  <2>1. x \in files' \ files
    BY <1>1
  <2> QED
    BY <1>1, <2>1 DEF Store!Next, Store!Add
<1>2. CASE Publish
  <2> DEFINE x == [name |-> name, born |-> published + 1, whole |-> TRUE]
  <2>1. Writing /\ InHand # {} /\ \A t \in InHand : t.whole = TRUE
    BY <1>2 DEF Publish, Writing, Inv, TypeOK, Prepared, Temporaries, InHand
  <2>2. files' = files \cup {x}
    BY <1>2, <2>1 DEF Publish
  <2>3. x.whole /\ x.name = name
    OBVIOUS
  <2>4. Comes(x)
    BY <2>1, <2>2, <2>3 DEF Kept, Distinct
  <2> QED
    BY <1>1, <2>4
<1>3. CASE Copy
  <2> DEFINE x == [name |-> MaxClock + copies + 1, born |-> 0, whole |-> TRUE]
  <2>1. files' = files \cup {x}
    BY <1>3 DEF Copy
  <2>2. x.whole /\ x.name = MaxClock + copies + 1
    OBVIOUS
  <2>3. Comes(x)
    BY <2>1, <2>2, NamesType, BoundsAreNumbers DEF Kept, Distinct
  <2> QED
    BY <1>1, <2>3
<1>4. CASE Remove
  <2>1. PICK v \in victims :
           /\ files' = {f \in files : f.name # v} \/ files' = files
           /\ Above(files', v) = Above(files, v)
    BY <1>4, RemoveLeaves
  <2>2. CASE \E f \in files : f.name = v /\ files' # files
    <3>1. PICK f \in files : f.name = v
      BY <2>2
    <3>2. files' = files \ {f} /\ f \in files \ files'
      BY <2>1, <2>2, <3>1 DEF Kept, Distinct
    <3>3. Cardinality(Above(files, f.name)) >= Retention
      BY <3>1 DEF Kept, Pruning
    <3>4. Store!Drop(f)
      BY <3>2, <3>3, StoreCounts DEF Store!Drop, Above
    <3> QED
      BY <3>2, <3>4 DEF Store!Next
  <2>3. CASE ~ (\E f \in files : f.name = v /\ files' # files)
    BY <2>1, <2>3
  <2> QED
    BY <2>2, <2>3
<1>5. CASE files' = files
  BY <1>5
<1> QED
  BY <1>2, <1>3, <1>4, <1>5
     DEF Next, BackupOnce, vars, Start, Tick, BeginVacuum, BeginFails, VacuumEnds, Protect,
         GiveUp, Scan, Terminate, End, Advance, SetBack

\* Whoever looks into the directory at any time sees a store of complete
\* snapshots, from which only the excess goes: temporary files, renames, crashes
\* in between and what is left undone are nobody else's business.
THEOREM Stored == Spec => SnapshotsAreStored
<1>1. Init => Store!Init
  BY DEF Init, Store!Init
<1>2. Inv /\ Kept /\ Inv' /\ [Next]_vars => [Store!Next]_files
  BY StepIsStored
<1> QED
  BY FilesKept, <1>1, <1>2, PTL DEF Spec, SnapshotsAreStored, Store!Spec

=============================================================================

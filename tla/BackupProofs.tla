---------------------------- MODULE BackupProofs ----------------------------
(***************************************************************************)
(* Theorems of Backup, for every set of takers, every number to keep and   *)
(* any number of backups, commits and failures.                            *)
(***************************************************************************)
EXTENDS Backup, FiniteSetTheorems, WellFoundedInduction, TLAPS

-----------------------------------------------------------------------------
(* Sets of stamps.                                                         *)

\* Every set of stamps with a member has a least one, and Min names it (Unlink).
LEMMA LeastStamp ==
  ASSUME NEW S \in SUBSET Nat, S # {}
  PROVE  Min(S) \in S /\ \A s \in S : Min(S) <= s
<1> DEFINE Upto(x) == 0 .. x
           Segments == {Upto(x) : x \in S}
<1>1. Segments \in SUBSET FiniteSubsetsOf(Nat)
  <2>1. ASSUME NEW x \in S PROVE Upto(x) \in FiniteSubsetsOf(Nat)
    BY FS_Interval DEF FiniteSubsetsOf
  <2> QED
    BY <2>1
<1>2. PICK segment \in Segments :
        \A other \in Segments : ~ (<<other, segment>> \in StrictSubsetOrdering(Nat))
  <2>1. IsWellFoundedOn(StrictSubsetOrdering(Nat), FiniteSubsetsOf(Nat))
    BY FS_StrictSubsetOrderingWellFounded
  <2>2. Segments # {}
    OBVIOUS
  <2> HIDE DEF Segments
  <2> QED
    BY <1>1, <2>1, <2>2, WFMin, Zenon
<1>3. PICK x \in S : segment = Upto(x)
  BY <1>2
<1>4. \A y \in S : x <= y
  <2>1. ASSUME NEW y \in S, ~ (x <= y) PROVE FALSE
    <3>1. Upto(y) \in SUBSET Upto(x) /\ x \in Upto(x) /\ x \notin Upto(y)
      BY <2>1
    <3>2. <<Upto(y), Upto(x)>> \in (SUBSET Nat) \X (SUBSET Nat) /\ Upto(y) # Upto(x)
      BY <3>1
    <3>3. <<Upto(y), Upto(x)>> \in StrictSubsetOrdering(Nat)
      BY <3>1, <3>2 DEF StrictSubsetOrdering
    <3> QED
      BY <1>2, <1>3, <3>3
  <2> QED
    BY <2>1
<1> QED
  BY <1>4 DEF Min

\* Stamps are finitely many, and so are those above one of them.
LEMMA StampsFinite ==
  ASSUME NEW S \in SUBSET Stamps, NEW s
  PROVE  /\ IsFiniteSet(S) /\ Cardinality(S) \in Nat
         /\ IsFiniteSet(Newer(s, S)) /\ Cardinality(Newer(s, S)) \in Nat
<1>1. IsFiniteSet(Stamps)
  BY FS_Interval, BackupAssumption DEF Stamps
<1>2. Newer(s, S) \in SUBSET Stamps
  BY DEF Newer
<1> QED
  BY <1>1, <1>2, FS_Subset, FS_CardinalityType

\* More published backups leave no stamp with fewer newer ones.
LEMMA NewerGrows ==
  ASSUME NEW T \in SUBSET Stamps, NEW S \in SUBSET T, NEW s
  PROVE  Cardinality(Newer(s, S)) <= Cardinality(Newer(s, T))
<1>1. Newer(s, S) \in SUBSET Newer(s, T)
  BY DEF Newer
<1>2. IsFiniteSet(Newer(s, T))
  BY StampsFinite
<1> QED
  BY <1>1, <1>2, FS_Subset

\* What prune leaves of a list is no more than `keep`, and includes the newest.
LEMMA PruneKeeps ==
  ASSUME NEW S \in SUBSET Stamps
  PROVE  /\ Cardinality(S \ Prunable(S)) <= Keep
         /\ \A s \in S : (\A n \in S : n <= s) => s \notin Prunable(S)
<1> DEFINE kept == S \ Prunable(S)
<1>0. \A s \in S : s \in Nat
  BY BackupAssumption DEF Stamps
<1>1. IsFiniteSet(kept) /\ Cardinality(kept) \in Nat
  <2>1. kept \in SUBSET Stamps
    OBVIOUS
  <2> QED
    BY <2>1, StampsFinite
<1>2. Cardinality(kept) <= Keep
  <2>1. CASE kept = {}
    BY <2>1, FS_EmptySet, BackupAssumption
  <2>2. CASE kept # {}
    <3>1. kept \in SUBSET Nat
      BY <1>0
    <3> DEFINE m == Min(kept)
    <3>2. m \in kept /\ \A s \in kept : m <= s
      BY <2>2, <3>1, LeastStamp
    <3>3. Cardinality(Newer(m, S)) < Keep
      BY <3>2, StampsFinite, BackupAssumption DEF Prunable
    <3>4. kept \in SUBSET (Newer(m, S) \cup {m})
      BY <3>1, <3>2 DEF Newer
    <3>5. /\ IsFiniteSet(Newer(m, S) \cup {m})
          /\ Cardinality(Newer(m, S) \cup {m}) <= Cardinality(Newer(m, S)) + 1
      <4>1. IsFiniteSet(Newer(m, S)) /\ Cardinality(Newer(m, S)) \in Nat
        BY StampsFinite
      <4> HIDE DEF m
      <4> QED
        BY <4>1, FS_AddElement
    <3>6. Cardinality(kept) <= Cardinality(Newer(m, S) \cup {m})
      BY <3>4, <3>5, FS_Subset
    <3>7. Cardinality(Newer(m, S)) \in Nat /\ Cardinality(Newer(m, S) \cup {m}) \in Nat
      BY <3>5, StampsFinite, FS_CardinalityType
    <3> QED
      BY <1>1, <3>3, <3>5, <3>6, <3>7, BackupAssumption
  <2> QED
    BY <2>1, <2>2
<1>3. ASSUME NEW s \in S, \A n \in S : n <= s PROVE s \notin Prunable(S)
  <2>1. Newer(s, S) = {}
    BY <1>0, <1>3 DEF Newer
  <2> QED
    BY <2>1, FS_EmptySet, BackupAssumption DEF Prunable
<1> QED
  BY <1>2, <1>3

-----------------------------------------------------------------------------
(* The invariant.                                                          *)

Phases == {"idle", "begun", "copying", "copied", "listing", "pruning"}

\* No run's stamp lies ahead of the clock, and no two runs have the same one.
Named ==
  /\ \A s \in Stamps : since[s] <= db
  /\ ever \subseteq 1 .. clock
  /\ StoredBackups \subseteq ever
  /\ \A t \in Takers : pc[t] # "idle" => stamp[t] \in 1 .. clock
  /\ \A t, u \in Takers : t # u /\ pc[t] # "idle" /\ pc[u] # "idle" => stamp[t] # stamp[u]

\* What a run copies was committed since it began, and is whole once it is copied.
Copying ==
  \A t \in Takers :
    /\ pc[t] \in {"copying", "copied"} => snapshot[t] \in since[stamp[t]] .. db
    /\ pc[t] = "copied" => partials[stamp[t]] = snapshot[t]

\* However old a list is, `keep` newer backups have been published than any on it.
Outdated ==
  \A t \in Takers : \A s \in left[t] : Cardinality(Newer(s, ever)) >= Keep

\* A run with no other beside it bears the newest stamp, and its list is exact.
Undisturbed ==
  \A t \in Takers : alone[t] /\ pc[t] # "idle" =>
    /\ \A u \in Takers : u # t => pc[u] = "idle"
    /\ stamp[t] = clock
    /\ pc[t] \in {"listing", "pruning"} => stamp[t] \in StoredBackups
    /\ pc[t] = "pruning" => /\ left[t] \subseteq StoredBackups \ {stamp[t]}
                            /\ Cardinality(StoredBackups \ left[t]) <= Keep

IInv ==
  /\ TypeOK /\ Named /\ Copying /\ Outdated /\ Undisturbed
  /\ WholeCopies /\ NewestSurvive

-----------------------------------------------------------------------------
(* Each action keeps it.                                                   *)

LEMMA InitIInv == Init => IInv
<1> SUFFICES ASSUME Init PROVE IInv
  OBVIOUS
<1>1. StoredBackups = {}
  BY DEF Init, StoredBackups
<1>2. TypeOK
  BY BackupAssumption DEF Init, TypeOK, Stamps
<1> QED
  BY <1>1, <1>2 DEF Init, IInv, Named, Copying, Outdated, Undisturbed, WholeCopies, NewestSurvive

LEMMA CommitKeeps == IInv /\ Commit => IInv'
<1> SUFFICES ASSUME IInv, Commit PROVE IInv'
  OBVIOUS
<1> USE DEF IInv, Commit
<1>1. StoredBackups' = StoredBackups
  BY DEF StoredBackups
<1>2. TypeOK'
  BY DEF TypeOK
<1>3. Named'
  BY <1>1 DEF Named, TypeOK
<1>4. Copying'
  BY DEF Copying, TypeOK, Named
<1>5. Outdated' /\ Undisturbed' /\ NewestSurvive'
  BY <1>1 DEF Outdated, Undisturbed, NewestSurvive
<1>6. WholeCopies'
  BY <1>1 DEF WholeCopies, TypeOK
<1> QED
  BY <1>2, <1>3, <1>4, <1>5, <1>6

LEMMA BeginKeeps == ASSUME NEW t \in Takers PROVE IInv /\ Begin(t) => IInv'
<1> SUFFICES ASSUME IInv, Begin(t) PROVE IInv'
  OBVIOUS
<1> USE DEF IInv, Begin
<1>0. clock + 1 \in Stamps /\ clock \in Nat /\ clock' \in Nat /\ db \in Nat
  BY BackupAssumption DEF TypeOK, Stamps
<1>1. StoredBackups' = StoredBackups
  BY DEF StoredBackups
<1>2. TypeOK'
  BY <1>0, BackupAssumption DEF TypeOK, Stamps
<1>3. \A s \in Stamps : s # clock' => since'[s] = since[s]
  BY <1>0 DEF TypeOK
<1>4. since'[clock'] = db
  BY <1>0 DEF TypeOK
<1>5. Named'
  <2>1. \A s \in Stamps : since'[s] <= db'
    BY <1>0, <1>3, <1>4 DEF Named
  <2>2. ever' \subseteq 1 .. clock' /\ StoredBackups' \subseteq ever'
    BY <1>0, <1>1 DEF Named
  <2>3. ASSUME NEW u \in Takers, pc'[u] # "idle" PROVE stamp'[u] \in 1 .. clock'
    BY <1>0, <2>3 DEF Named, TypeOK
  <2>4. ASSUME NEW u \in Takers, NEW v \in Takers, u # v, pc'[u] # "idle", pc'[v] # "idle"
        PROVE  stamp'[u] # stamp'[v]
    BY <1>0, <2>4 DEF Named, TypeOK
  <2> QED
    BY <2>1, <2>2, <2>3, <2>4 DEF Named
<1>6. Copying'
  <2>1. ASSUME NEW u \in Takers, pc'[u] \in {"copying", "copied"}
        PROVE  pc[u] = pc'[u] /\ stamp'[u] = stamp[u] /\ since'[stamp'[u]] = since[stamp[u]]
    <3>1. u # t /\ pc[u] = pc'[u] /\ stamp'[u] = stamp[u]
      BY <2>1 DEF TypeOK
    <3>2. stamp[u] \in 1 .. clock
      BY <2>1, <3>1 DEF Named
    <3>3. stamp[u] \in Stamps /\ stamp[u] # clock'
      BY <1>0, <3>2, BackupAssumption DEF Stamps
    <3> QED
      BY <1>3, <3>1, <3>3
  <2> QED
    BY <2>1 DEF Copying
<1>7. Outdated' /\ NewestSurvive'
  BY DEF Outdated, NewestSurvive
<1>8. Undisturbed'
  <2>1. ASSUME NEW u \in Takers, alone'[u], pc'[u] # "idle"
        PROVE  u = t /\ (\A v \in Takers : v # t => pc'[v] = "idle") /\ stamp'[u] = clock'
    BY <2>1 DEF TypeOK
  <2>2. pc'[t] = "begun"
    BY DEF TypeOK
  <2> QED
    BY <2>1, <2>2 DEF Undisturbed
<1>9. WholeCopies'
  <2>1. ASSUME NEW s \in StoredBackups PROVE since'[s] = since[s]
    <3>1. s \in 1 .. clock /\ s \in Stamps
      BY DEF Named, StoredBackups
    <3> QED
      BY <1>0, <1>3, <3>1
  <2> QED
    BY <1>1, <2>1 DEF WholeCopies
<1> QED
  BY <1>2, <1>5, <1>6, <1>7, <1>8, <1>9

LEMMA CopyKeeps ==
  ASSUME NEW t \in Takers PROVE IInv /\ (OpenCopy(t) \/ EndCopy(t)) => IInv'
<1> SUFFICES ASSUME IInv, OpenCopy(t) \/ EndCopy(t) PROVE IInv'
  OBVIOUS
<1> USE DEF IInv
<1>0. /\ UNCHANGED <<db, clock, stamp, left, files, ever, since, alone, failures>>
      /\ pc[t] # "idle" /\ pc'[t] \in {"copying", "copied"}
      /\ \A u \in Takers : u # t => pc'[u] = pc[u] /\ snapshot'[u] = snapshot[u]
  BY DEF OpenCopy, EndCopy, TypeOK
<1>1. stamp[t] \in Stamps /\ db \in Nat /\ since[stamp[t]] \in Nat /\ since[stamp[t]] <= db
  BY <1>0, BackupAssumption DEF Named, TypeOK, Stamps
<1>2. StoredBackups' = StoredBackups
  BY <1>0 DEF StoredBackups
<1>3. TypeOK'
  BY <1>1 DEF TypeOK, OpenCopy, EndCopy
<1>4. Named'
  BY <1>0, <1>2 DEF Named
<1>5. Copying'
  <2>1. ASSUME NEW u \in Takers, u # t, pc'[u] = "copied" PROVE partials'[stamp[u]] = partials[stamp[u]]
    <3>1. stamp[u] # stamp[t]
      BY <1>0, <2>1 DEF Named
    <3>2. stamp[u] \in Stamps
      BY <1>0, <2>1, BackupAssumption DEF Named, TypeOK, Stamps
    <3> QED
      BY <3>1, <3>2 DEF OpenCopy, EndCopy, TypeOK
  <2>2. snapshot'[t] \in since[stamp[t]] .. db
    BY <1>1 DEF OpenCopy, EndCopy, Copying, TypeOK
  <2>3. pc'[t] = "copied" => partials'[stamp[t]] = snapshot'[t]
    BY <1>1 DEF OpenCopy, EndCopy, TypeOK
  <2> QED
    BY <1>0, <2>1, <2>2, <2>3 DEF Copying
<1>6. Outdated' /\ NewestSurvive' /\ WholeCopies'
  BY <1>0, <1>2 DEF Outdated, NewestSurvive, WholeCopies
<1>7. Undisturbed'
  BY <1>0, <1>2 DEF Undisturbed
<1> QED
  BY <1>3, <1>4, <1>5, <1>6, <1>7

LEMMA PublishKeeps == ASSUME NEW t \in Takers PROVE IInv /\ Publish(t) => IInv'
<1> SUFFICES ASSUME IInv, Publish(t) PROVE IInv'
  OBVIOUS
<1> USE DEF IInv
<1> DEFINE new == stamp[t]
<1>0. /\ UNCHANGED <<db, clock, stamp, snapshot, left, since, alone>>
      /\ pc[t] = "copied" /\ pc'[t] = "listing"
      /\ \A u \in Takers : u # t => pc'[u] = pc[u]
      /\ ever' = ever \cup {new}
  BY DEF Publish, TypeOK
<1>1. new \in Stamps /\ new \in 1 .. clock
  BY <1>0, BackupAssumption DEF Named, TypeOK, Stamps
<1>2. /\ files'[new] = snapshot[t] /\ snapshot[t] \in since[new] .. db
      /\ \A s \in Stamps : s # new => files'[s] = files[s] /\ partials'[s] = partials[s]
  BY <1>0, <1>1 DEF Publish, TypeOK, Copying
<1>3. snapshot[t] \in Nat /\ db \in Nat
  BY DEF TypeOK
<1>4. StoredBackups' = StoredBackups \cup {new}
  BY <1>1, <1>2, <1>3, BackupAssumption DEF StoredBackups
<1>5. TypeOK'
  BY <1>0, <1>1 DEF TypeOK, Publish
<1>6. Named'
  BY <1>0, <1>1, <1>4 DEF Named
<1>7. Copying'
  <2>1. ASSUME NEW u \in Takers, u # t, pc'[u] = "copied" PROVE partials'[stamp[u]] = partials[stamp[u]]
    <3>1. stamp[u] # new
      BY <1>0, <2>1 DEF Named
    <3>2. stamp[u] \in Stamps
      BY <1>0, <2>1, BackupAssumption DEF Named, TypeOK, Stamps
    <3> QED
      BY <1>2, <3>1, <3>2
  <2> QED
    BY <1>0, <2>1 DEF Copying
<1>8. ever \in SUBSET ever' /\ ever' \in SUBSET Stamps
  BY <1>0, <1>5 DEF TypeOK
<1>9. \A s : /\ Cardinality(Newer(s, ever)) <= Cardinality(Newer(s, ever'))
             /\ Cardinality(Newer(s, ever)) \in Nat /\ Cardinality(Newer(s, ever')) \in Nat
  BY <1>8, NewerGrows, StampsFinite DEF TypeOK
<1>10. Outdated'
  <2>1. ASSUME NEW u \in Takers, NEW s \in left[u] PROVE Cardinality(Newer(s, ever')) >= Keep
    <3>1. Cardinality(Newer(s, ever)) >= Keep
      BY DEF Outdated
    <3> QED
      BY <1>9, <3>1, BackupAssumption
  <2> QED
    BY <1>0, <2>1 DEF Outdated
<1>11. NewestSurvive'
  <2>1. ASSUME NEW s \in ever', Cardinality(Newer(s, ever')) < Keep PROVE files'[s] # Absent
    <3>1. CASE s = new
      BY <1>2, <1>3, <3>1, BackupAssumption
    <3>2. CASE s # new
      <4>1. s \in ever /\ Cardinality(Newer(s, ever)) < Keep
        BY <1>0, <1>9, <2>1, <3>2, BackupAssumption
      <4>2. s \in Stamps
        BY <4>1 DEF TypeOK
      <4> QED
        BY <1>2, <3>2, <4>1, <4>2 DEF NewestSurvive
    <3> QED
      BY <3>1, <3>2
  <2> QED
    BY <2>1 DEF NewestSurvive, Newer
<1>12. WholeCopies'
  BY <1>0, <1>2, <1>3, <1>4, BackupAssumption DEF WholeCopies, StoredBackups
<1>13. Undisturbed'
  BY <1>0, <1>4 DEF Undisturbed
<1> QED
  BY <1>5, <1>6, <1>7, <1>10, <1>11, <1>12, <1>13

LEMMA ListKeeps == ASSUME NEW t \in Takers PROVE IInv /\ List(t) => IInv'
<1> SUFFICES ASSUME IInv, List(t) PROVE IInv'
  OBVIOUS
<1> USE DEF IInv
<1>0. /\ UNCHANGED <<db, clock, stamp, snapshot, files, partials, ever, since, alone, failures>>
      /\ pc[t] = "listing" /\ pc'[t] = "pruning"
      /\ \A u \in Takers : u # t => pc'[u] = pc[u] /\ left'[u] = left[u]
      /\ left'[t] = Prunable(StoredBackups)
  BY DEF List, TypeOK
<1>1. StoredBackups' = StoredBackups /\ StoredBackups \in SUBSET Stamps
  BY <1>0 DEF StoredBackups
<1>2. Prunable(StoredBackups) \in SUBSET StoredBackups
  BY DEF Prunable
<1>3. TypeOK'
  BY <1>1, <1>2 DEF TypeOK, List
<1>4. Named' /\ Copying' /\ NewestSurvive' /\ WholeCopies'
  BY <1>0, <1>1 DEF Named, Copying, NewestSurvive, WholeCopies
<1>5. Outdated'
  <2>1. ASSUME NEW s \in Prunable(StoredBackups) PROVE Cardinality(Newer(s, ever)) >= Keep
    <3>1. StoredBackups \in SUBSET ever /\ ever \in SUBSET Stamps
      BY DEF Named, TypeOK
    <3>2. Cardinality(Newer(s, StoredBackups)) <= Cardinality(Newer(s, ever))
      BY <3>1, NewerGrows
    <3>3. Cardinality(Newer(s, StoredBackups)) >= Keep
      BY DEF Prunable
    <3>4. Cardinality(Newer(s, StoredBackups)) \in Nat /\ Cardinality(Newer(s, ever)) \in Nat
      BY <1>1, <3>1, StampsFinite
    <3> QED
      BY <3>2, <3>3, <3>4, BackupAssumption
  <2> QED
    BY <1>0, <2>1 DEF Outdated
<1>6. Undisturbed'
  <2>1. ASSUME alone[t] PROVE stamp[t] \in StoredBackups /\ stamp[t] \notin Prunable(StoredBackups)
    <3>1. stamp[t] = clock /\ stamp[t] \in StoredBackups
      BY <1>0, <2>1 DEF Undisturbed
    <3>2. \A n \in StoredBackups : n <= stamp[t]
      BY <3>1 DEF Named
    <3> QED
      BY <1>1, <3>1, <3>2, PruneKeeps
  <2>2. Cardinality(StoredBackups \ Prunable(StoredBackups)) <= Keep
    BY <1>1, PruneKeeps
  <2> QED
    BY <1>0, <1>1, <1>2, <2>1, <2>2 DEF Undisturbed
<1> QED
  BY <1>3, <1>4, <1>5, <1>6

LEMMA UnlinkKeeps == ASSUME NEW t \in Takers PROVE IInv /\ Unlink(t) => IInv'
<1> SUFFICES ASSUME IInv, Unlink(t) PROVE IInv'
  OBVIOUS
<1> USE DEF IInv
<1> DEFINE oldest == Min(left[t])
<1>0. /\ UNCHANGED <<db, clock, stamp, snapshot, partials, ever, since, alone, failures>>
      /\ pc[t] = "pruning" /\ left[t] # {}
  BY DEF Unlink
<1>1. oldest \in left[t] /\ oldest \in Stamps
  <2>1. left[t] \in SUBSET Stamps
    BY DEF TypeOK
  <2>2. left[t] \in SUBSET Nat
    BY <2>1, BackupAssumption DEF Stamps
  <2> QED
    BY <1>0, <2>1, <2>2, LeastStamp
<1>2. CASE /\ files[oldest] = Absent /\ pc' = [pc EXCEPT ![t] = "idle"]
           /\ left' = [left EXCEPT ![t] = {}] /\ files' = files
  <2> HIDE DEF oldest
  <2>1. StoredBackups' = StoredBackups
    BY <1>2 DEF StoredBackups
  <2>2. TypeOK'
    BY <1>0, <1>2 DEF TypeOK
  <2>3. /\ pc'[t] = "idle" /\ left'[t] = {}
        /\ \A u \in Takers : u # t => pc'[u] = pc[u] /\ left'[u] = left[u]
    BY <1>2 DEF TypeOK
  <2>4. Named' /\ Copying' /\ WholeCopies'
    BY <1>0, <1>2, <2>1, <2>3 DEF Named, Copying, WholeCopies
  <2>5. NewestSurvive' /\ Outdated'
    BY <1>0, <1>2, <2>3 DEF NewestSurvive, Outdated
  <2>6. Undisturbed'
    BY <1>0, <1>2, <2>1, <2>3 DEF Undisturbed
  <2> QED
    BY <2>2, <2>4, <2>5, <2>6
<1>3. CASE /\ files[oldest] # Absent /\ files' = [files EXCEPT ![oldest] = Absent]
           /\ left' = [left EXCEPT ![t] = @ \ {oldest}] /\ pc' = pc
  <2> HIDE DEF oldest
  <2>1. /\ files'[oldest] = Absent
        /\ \A s \in Stamps : s # oldest => files'[s] = files[s]
        /\ left'[t] = left[t] \ {oldest}
        /\ \A u \in Takers : u # t => left'[u] = left[u]
    BY <1>1, <1>3 DEF TypeOK
  <2>2. StoredBackups' = StoredBackups \ {oldest}
    BY <2>1 DEF StoredBackups
  <2>3. TypeOK'
    BY <1>0, <1>1, <1>3 DEF TypeOK
  <2>4. Named' /\ Copying'
    BY <1>0, <1>3, <2>2 DEF Named, Copying
  <2>5. WholeCopies'
    BY <1>0, <2>1, <2>2 DEF WholeCopies, StoredBackups
  <2>6. Outdated'
    BY <1>0, <2>1 DEF Outdated
  <2>7. NewestSurvive'
    <3>1. Cardinality(Newer(oldest, ever)) >= Keep
      BY <1>1 DEF Outdated
    <3>2. Cardinality(Newer(oldest, ever)) \in Nat
      BY StampsFinite DEF TypeOK
    <3>3. ASSUME NEW s \in ever, Cardinality(Newer(s, ever)) < Keep PROVE files'[s] # Absent
      <4>1. s # oldest /\ s \in Stamps
        BY <3>1, <3>2, <3>3, BackupAssumption DEF TypeOK
      <4> QED
        BY <2>1, <3>3, <4>1 DEF NewestSurvive
    <3> QED
      BY <1>0, <3>3 DEF NewestSurvive, Newer
  <2>8. Undisturbed'
    <3>1. StoredBackups' \ left'[t] = StoredBackups \ left[t]
      BY <1>1, <2>1, <2>2
    <3>2. ASSUME NEW u \in Takers, alone[u], pc[u] # "idle" PROVE u = t
      BY <1>0, <3>2 DEF Undisturbed
    <3>3. alone[t] => left[t] \subseteq StoredBackups \ {stamp[t]} /\ stamp[t] \in StoredBackups
      BY <1>0 DEF Undisturbed
    <3> QED
      BY <1>0, <1>1, <1>3, <2>1, <2>2, <3>1, <3>2, <3>3 DEF Undisturbed
  <2> QED
    BY <2>3, <2>4, <2>5, <2>6, <2>7, <2>8
<1> QED
  BY <1>2, <1>3 DEF Unlink

LEMMA EndKeeps ==
  ASSUME NEW t \in Takers PROVE IInv /\ (Return(t) \/ Fail(t)) => IInv'
<1> SUFFICES ASSUME IInv, Return(t) \/ Fail(t) PROVE IInv'
  OBVIOUS
<1> USE DEF IInv
<1>0. /\ UNCHANGED <<db, clock, stamp, snapshot, files, partials, ever, since, alone>>
      /\ pc'[t] = "idle" /\ left'[t] = {}
      /\ \A u \in Takers : u # t => pc'[u] = pc[u] /\ left'[u] = left[u]
  BY DEF Return, Fail, TypeOK
<1>1. StoredBackups' = StoredBackups
  BY <1>0 DEF StoredBackups
<1>2. TypeOK'
  BY DEF TypeOK, Return, Fail
<1>3. Named' /\ Copying' /\ NewestSurvive' /\ WholeCopies' /\ Outdated' /\ Undisturbed'
  BY <1>0, <1>1 DEF Named, Copying, NewestSurvive, WholeCopies, Outdated, Undisturbed
<1> QED
  BY <1>2, <1>3

LEMMA NextKeeps == IInv /\ [Next]_vars => IInv'
<1> SUFFICES ASSUME IInv, [Next]_vars PROVE IInv'
  OBVIOUS
<1>1. CASE Commit
  BY <1>1, CommitKeeps
<1>2. ASSUME NEW t \in Takers, TakeBackup(t) PROVE IInv'
  BY <1>2, BeginKeeps, CopyKeeps, PublishKeeps, ListKeeps, UnlinkKeeps, EndKeeps DEF TakeBackup
<1>3. CASE UNCHANGED vars
  <2>1. TypeOK' /\ Named' /\ Copying'
    BY <1>3 DEF vars, IInv, TypeOK, Named, Copying, StoredBackups
  <2>2. Outdated' /\ NewestSurvive'
    BY <1>3 DEF vars, IInv, Outdated, NewestSurvive
  <2>3. Undisturbed' /\ WholeCopies'
    BY <1>3 DEF vars, IInv, Undisturbed, WholeCopies, StoredBackups
  <2> QED
    BY <2>1, <2>2, <2>3 DEF IInv
<1> QED
  BY <1>1, <1>2, <1>3 DEF Next

-----------------------------------------------------------------------------
(* The theorems.                                                           *)

\* The strengthened invariant holds of every behaviour (take_backup).
THEOREM InductiveInvariant == Spec => []IInv
<1>1. Init => IInv
  BY InitIInv
<1>2. IInv /\ [Next]_vars => IInv'
  BY NextKeeps
<1> QED
  BY <1>1, <1>2, PTL DEF Spec

\* The types of the files and of the runs.
THEOREM TypeInvariant == Spec => []TypeOK
BY InductiveInvariant, PTL DEF IInv

\* What lies under a backup's name is a whole state, committed since the run began
\* (copy_database).
THEOREM WholeCopiesHolds == Spec => []WholeCopies
BY InductiveInvariant, PTL DEF IInv

\* However runs overlap, fail and prune from old lists, the newest backups are there (prune).
THEOREM NewestSurviveHolds == Spec => []NewestSurvive
BY InductiveInvariant, PTL DEF IInv

\* A run with no other beside it leaves its own backup and no more than `keep`
\* (take_backup).
THEOREM AloneCleansUpHolds == Spec => AloneCleansUp
<1> DEFINE Clean ==
      \A t \in Takers :
        pc[t] = "pruning" /\ left[t] = {} /\ pc'[t] = "idle" /\ alone[t] =>
          stamp[t] \in StoredBackups' /\ Cardinality(StoredBackups') <= Keep
<1>1. IInv /\ [Next]_vars => [Clean]_vars
  <2>1. ASSUME IInv, Next, NEW t \in Takers,
               pc[t] = "pruning", left[t] = {}, pc'[t] = "idle", alone[t]
        PROVE  stamp[t] \in StoredBackups' /\ Cardinality(StoredBackups') <= Keep
    <3>1. StoredBackups \ left[t] = StoredBackups
      BY <2>1
    <3>2. stamp[t] \in StoredBackups /\ Cardinality(StoredBackups) <= Keep
      BY <2>1, <3>1 DEF IInv, Undisturbed
    <3>3. ASSUME NEW u \in Takers, TakeBackup(u) PROVE u = t
      BY <2>1, <3>3
         DEF IInv, TypeOK, TakeBackup, Begin, OpenCopy, EndCopy, Publish, List, Unlink, Return, Fail
    <3>4. UNCHANGED files
      BY <2>1, <3>3
         DEF Next, Commit, TakeBackup, Begin, OpenCopy, EndCopy, Publish, List, Unlink, Return, Fail
    <3>5. StoredBackups' = StoredBackups
      BY <3>4 DEF StoredBackups
    <3> QED
      BY <3>2, <3>5
  <2> QED
    BY <2>1
<1> QED
  BY <1>1, InductiveInvariant, PTL DEF Spec, AloneCleansUp

=============================================================================

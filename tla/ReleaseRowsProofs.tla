--------------------------- MODULE ReleaseRowsProofs ---------------------------
(***************************************************************************)
(* Proofs about the release rows, for every set of releases: whoever uses   *)
(* the rows by their own operations alone, no two releases are active, and  *)
(* the active one was activated last.                                       *)
(***************************************************************************)
EXTENDS ReleaseRows, FiniteSetTheorems, TLAPS

\* The two columns the transitions test.
ColumnsTypeOK ==
  /\ status \in [Releases -> Statuses]
  /\ directory \in [Releases -> BOOLEAN]

RowsIInv == ColumnsTypeOK /\ OneActive

LEMMA RowsStart == RowsInit => RowsIInv
  BY DEF RowsInit, RowsIInv, ColumnsTypeOK, OneActive, Statuses

\* One transition of one row keeps the columns typed.
LEMMA RowsKeepTypes ==
  ASSUME ColumnsTypeOK, RowsNext
  PROVE  ColumnsTypeOK'
<1> PICK r \in Releases : \/ CreateRelease(r) \/ MarkReleaseDeploying(r) \/ ActivateRelease(r)
                          \/ FailRelease(r) \/ MarkReleaseRemoved(r)
  BY DEF RowsNext
<1> USE DEF ColumnsTypeOK, Statuses
<1>1. CASE CreateRelease(r)         BY <1>1 DEF CreateRelease
<1>2. CASE MarkReleaseDeploying(r)  BY <1>2 DEF MarkReleaseDeploying
<1>3. CASE ActivateRelease(r)       BY <1>3 DEF ActivateRelease
<1>4. CASE FailRelease(r)           BY <1>4 DEF FailRelease
<1>5. CASE MarkReleaseRemoved(r)    BY <1>5 DEF MarkReleaseRemoved
<1> QED BY <1>1, <1>2, <1>3, <1>4, <1>5

\* Only ActivateRelease makes a row active, and it supersedes the others.
LEMMA RowsKeepOneActive ==
  ASSUME ColumnsTypeOK, OneActive, RowsNext
  PROVE  OneActive'
<1> PICK r \in Releases : \/ CreateRelease(r) \/ MarkReleaseDeploying(r) \/ ActivateRelease(r)
                          \/ FailRelease(r) \/ MarkReleaseRemoved(r)
  BY DEF RowsNext
<1>1. CASE ActivateRelease(r)
  BY <1>1 DEF ActivateRelease, OneActive
<1>2. CASE \/ CreateRelease(r) \/ MarkReleaseDeploying(r)
           \/ FailRelease(r) \/ MarkReleaseRemoved(r)
  <2>1. \A s \in Releases : status'[s] = "active" => status[s] = "active"
    BY <1>2 DEF ColumnsTypeOK, CreateRelease, MarkReleaseDeploying, FailRelease,
                MarkReleaseRemoved
  <2> QED BY <2>1 DEF OneActive
<1> QED BY <1>1, <1>2

LEMMA RowsStutter ==
  ASSUME RowsIInv, UNCHANGED rows
  PROVE  RowsIInv'
  BY DEF rows, RowsIInv, ColumnsTypeOK, OneActive

\* No two releases of an application are active, whatever sequence of requests,
\* deployments, failures and removals its rows go through.
THEOREM RowsOneActive == RowsSpec => []OneActive
<1>1. RowsIInv /\ [RowsNext]_rows => RowsIInv'
  BY RowsKeepTypes, RowsKeepOneActive, RowsStutter DEF RowsIInv
<1>2. RowsIInv => OneActive
  BY DEF RowsIInv
<1> QED BY RowsStart, <1>1, <1>2, PTL DEF RowsSpec

-----------------------------------------------------------------------------
(* The column activated_at: which release was activated last *)

HasSmallest(F) == \E A \in F : \A B \in F : B \subseteq A => B = A
AllFinite(F) == \A A \in F : IsFiniteSet(A)

\* A non-empty family of finite subsets has a smallest member: the strict
\* inclusion of finite sets is well founded.
LEMMA SmallestSet ==
  ASSUME NEW S, NEW F \in SUBSET SUBSET S, F # {}, AllFinite(F)
  PROVE  HasSmallest(F)
<1>1. F \subseteq FiniteSubsetsOf(S)
  BY DEF FiniteSubsetsOf, AllFinite
<1>2. PICK A \in F : \A B \in F : ~(<<B, A>> \in StrictSubsetOrdering(S))
  BY <1>1, FS_StrictSubsetOrderingWellFounded, WFMin
<1>3. ASSUME NEW B \in F, B \subseteq A PROVE B = A
  <2>1. ASSUME B # A PROVE <<B, A>> \in StrictSubsetOrdering(S)
    <3>1. <<B, A>> \in (SUBSET S) \X (SUBSET S)
      BY <1>3
    <3> QED BY <3>1, <2>1, <1>3 DEF StrictSubsetOrdering
  <2> QED BY <2>1, <1>2
<1> QED BY <1>3 DEF HasSmallest

\* A non-empty set of numbers has a least one: the smallest of the intervals 0..n.
LEMMA LeastNumber ==
  ASSUME NEW S, S \subseteq Nat, S # {}
  PROVE  \E n \in S : \A m \in S : n <= m
<1> DEFINE F == {0..n : n \in S}
<1>1. \A n \in S : 0..n \subseteq Nat /\ IsFiniteSet(0..n)
  BY FS_Interval
<1>2. F \in SUBSET SUBSET Nat /\ F # {} /\ AllFinite(F)
  BY <1>1 DEF AllFinite
<1>3. HasSmallest(F)
  <2> HIDE DEF F
  <2> QED BY <1>2, SmallestSet
<1>4. PICK n \in S : \A B \in F : B \subseteq 0..n => B = 0..n
  BY <1>3 DEF HasSmallest
<1>5. ASSUME NEW m \in S, m < n PROVE FALSE
  <2>1. 0..m \in F OBVIOUS
  <2>2. 0..m \subseteq 0..n BY <1>5
  <2>3. 0..m = 0..n BY <1>4, <2>1, <2>2
  <2>4. n \in 0..n /\ n \notin 0..m BY <1>5
  <2> QED BY <2>3, <2>4
<1> QED BY <1>5

\* One that is bounded has a greatest: the least of its upper bounds.
LEMMA GreatestNumber ==
  ASSUME NEW S, S \subseteq Nat, S # {}, NEW b \in Nat, \A s \in S : s <= b
  PROVE  \E n \in S : \A s \in S : s <= n
<1> DEFINE U == {u \in Nat : \A s \in S : s <= u}
<1>1. PICK n \in U : \A m \in U : n <= m
  <2>1. U \subseteq Nat /\ U # {} OBVIOUS
  <2> HIDE DEF U
  <2> QED BY <2>1, LeastNumber
<1>2. n \in S
  <2> SUFFICES ASSUME n \notin S PROVE FALSE OBVIOUS
  <2>1. \A s \in S : s < n BY <1>1
  <2>2. PICK s \in S : s < n BY <2>1
  <2>3. n - 1 \in U BY <2>1, <2>2
  <2> QED BY <1>1, <2>3
<1> QED BY <1>1, <1>2

\* The activation numbers; a row set that is used has given out finitely many.
ActivationsTypeOK ==
  /\ activatedAt \in [Releases -> Nat]
  /\ \E b \in Nat : \A s \in Releases : activatedAt[s] <= b

\* The active release was activated after every other one: the retention, which
\* goes by the activation, can therefore never take it for an old one.
ActiveIsNewest ==
  \A r \in Releases : status[r] = "active" =>
    \A s \in Releases \ {r} : activatedAt[s] < activatedAt[r]

RowsFullIInv == RowsIInv /\ ActivationsTypeOK /\ ActiveIsNewest

\* The subquery of ActivateRelease has an answer, and the new number exceeds all.
LEMMA ActivationIsNew ==
  ASSUME ActivationsTypeOK, NEW r \in Releases, ActivateRelease(r)
  PROVE  \E n \in Nat : /\ activatedAt' = [activatedAt EXCEPT ![r] = 1 + n]
                        /\ \A s \in Releases : activatedAt[s] <= n
<1> DEFINE given == {activatedAt[s] : s \in Releases}
           newest == CHOOSE n \in given : \A s \in Releases : activatedAt[s] <= n
<1>1. PICK b \in Nat : \A n \in given : n <= b
  BY DEF ActivationsTypeOK
<1>2. given \subseteq Nat /\ given # {}
  BY DEF ActivationsTypeOK
<1>3. \E n \in given : \A m \in given : m <= n
  <2> HIDE DEF given
  <2> QED BY <1>1, <1>2, GreatestNumber
<1>4. newest \in given /\ \A s \in Releases : activatedAt[s] <= newest
  BY <1>3
<1>5. activatedAt' = [activatedAt EXCEPT ![r] = 1 + newest]
  BY DEF ActivateRelease
<1> HIDE DEF newest
<1> QED BY <1>2, <1>4, <1>5

LEMMA RowsKeepActivations ==
  ASSUME RowsFullIInv, RowsNext
  PROVE  ActivationsTypeOK' /\ ActiveIsNewest'
<1> PICK r \in Releases : \/ CreateRelease(r) \/ MarkReleaseDeploying(r) \/ ActivateRelease(r)
                          \/ FailRelease(r) \/ MarkReleaseRemoved(r)
  BY DEF RowsNext
<1> USE DEF RowsFullIInv, RowsIInv, ColumnsTypeOK, ActivationsTypeOK
<1>1. CASE ActivateRelease(r)
  <2>1. PICK n \in Nat : /\ activatedAt' = [activatedAt EXCEPT ![r] = 1 + n]
                         /\ \A s \in Releases : activatedAt[s] <= n
    BY <1>1, ActivationIsNew
  <2>2. activatedAt' \in [Releases -> Nat] /\ \A s \in Releases : activatedAt'[s] <= 1 + n
    BY <2>1
  <2>3. \A s \in Releases \ {r} : activatedAt'[s] < activatedAt'[r]
    BY <2>1
  <2>4. \A s \in Releases : status'[s] = "active" => s = r
    BY <1>1 DEF ActivateRelease
  <2> QED BY <2>2, <2>3, <2>4 DEF ActiveIsNewest
<1>2. CASE \/ CreateRelease(r) \/ MarkReleaseDeploying(r)
           \/ FailRelease(r) \/ MarkReleaseRemoved(r)
  <2>1. activatedAt' \in [Releases -> Nat] /\ \A s \in Releases : activatedAt'[s] <= activatedAt[s]
    BY <1>2 DEF CreateRelease, MarkReleaseDeploying, FailRelease, MarkReleaseRemoved
  <2>2. \A s \in Releases : status'[s] = "active" =>
          status[s] = "active" /\ activatedAt'[s] = activatedAt[s]
    BY <1>2 DEF CreateRelease, MarkReleaseDeploying, FailRelease, MarkReleaseRemoved
  <2>3. ActivationsTypeOK'
    BY <2>1
  <2> QED BY <2>1, <2>2, <2>3 DEF ActiveIsNewest
<1> QED BY <1>1, <1>2

\* What holds of the rows under whoever uses them by their own operations alone.
THEOREM RowsInvariant == RowsSpec => []RowsFullIInv
<1>1. RowsInit => RowsFullIInv
  BY RowsStart DEF RowsInit, RowsFullIInv, ActivationsTypeOK, ActiveIsNewest
<1>2. RowsFullIInv /\ [RowsNext]_rows => RowsFullIInv'
  <2>1. ASSUME RowsFullIInv, RowsNext PROVE RowsFullIInv'
    BY <2>1, RowsKeepTypes, RowsKeepOneActive, RowsKeepActivations DEF RowsFullIInv, RowsIInv
  <2>2. ASSUME RowsFullIInv, UNCHANGED rows PROVE RowsFullIInv'
    BY <2>2, RowsStutter DEF RowsFullIInv, ActivationsTypeOK, ActiveIsNewest, rows
  <2> QED BY <2>1, <2>2
<1> QED BY <1>1, <1>2, PTL DEF RowsSpec

\* The newest activation is the active release: over any sequence of requests,
\* deployments, failed ones, removals and redeployments of a removed version.
THEOREM RowsActiveIsNewest == RowsSpec => [](RowsTypeOK /\ ActiveIsNewest)
<1>1. RowsFullIInv => RowsTypeOK /\ ActiveIsNewest
  BY DEF RowsFullIInv, RowsIInv, ColumnsTypeOK, ActivationsTypeOK, RowsTypeOK
<1> QED BY <1>1, RowsInvariant, PTL

\* The active release, while there is one, is a release whose row says so.
LEMMA ActiveIsActive ==
  ASSUME RowsFullIInv
  PROVE  Active = None \/ (Active \in Releases /\ status[Active] = "active")
<1> DEFINE actives == {r \in Releases : status[r] = "active"}
<1>1. CASE actives = {}
  BY <1>1 DEF Active
<1>2. CASE actives # {}
  <2>1. PICK r \in actives : \A s \in actives : s = r
    BY <1>2 DEF RowsFullIInv, RowsIInv, OneActive
  <2>2. activatedAt[r] \in Nat
    BY DEF RowsFullIInv, ActivationsTypeOK
  <2>3. \E x \in actives : \A s \in actives : activatedAt[x] >= activatedAt[s]
    BY <2>1, <2>2
  <2> QED BY <1>2, <2>3 DEF Active
<1> QED BY <1>1, <1>2

\* An active release is the answer, whatever its number.
LEMMA ActiveIsTheOne ==
  ASSUME RowsFullIInv, NEW r \in Releases, status[r] = "active"
  PROVE  Active = r
<1> DEFINE actives == {s \in Releases : status[s] = "active"}
<1>1. actives = {r}
  BY DEF RowsFullIInv, RowsIInv, OneActive
<1>2. activatedAt[r] >= activatedAt[r]
  BY DEF RowsFullIInv, ActivationsTypeOK
<1>3. Active = CHOOSE x \in actives : \A s \in actives : activatedAt[x] >= activatedAt[s]
  BY <1>1 DEF Active
<1> HIDE DEF actives
<1> QED BY <1>1, <1>2, <1>3

\* The retention always finds a release that is oldest among those left to remove.
LEMMA OldestIsLeft ==
  ASSUME ActivationsTypeOK, NEW todo, todo \subseteq Releases, todo # {}
  PROVE  OldestOf(todo) \in todo
<1> DEFINE given == {activatedAt[s] : s \in todo}
<1>1. given \subseteq Nat /\ given # {}
  BY DEF ActivationsTypeOK
<1>2. \E n \in given : \A m \in given : n <= m
  <2> HIDE DEF given
  <2> QED BY <1>1, LeastNumber
<1>3. \E s \in todo : \A t \in todo : activatedAt[s] <= activatedAt[t]
  BY <1>2
<1> QED BY <1>3 DEF OldestOf

-----------------------------------------------------------------------------
(* What the retention leaves *)

\* Superseded releases with a directory, other than the one just activated.
Candidates(r) == {s \in Releases \ {r} : directory[s] /\ status[s] \in Rollbackable}

\* A finite set has a greatest activation.
LEMMA SomeIsYoungest ==
  ASSUME ActivationsTypeOK, NEW S, S \subseteq Releases, S # {}
  PROVE  \E s \in S : \A t \in S : activatedAt[t] <= activatedAt[s]
<1> DEFINE given == {activatedAt[s] : s \in S}
<1>1. PICK b \in Nat : \A n \in given : n <= b
  BY DEF ActivationsTypeOK
<1>2. given \subseteq Nat /\ given # {}
  BY DEF ActivationsTypeOK
<1>3. \E n \in given : \A m \in given : m <= n
  <2> HIDE DEF given
  <2> QED BY <1>1, <1>2, GreatestNumber
<1> QED BY <1>3

\* The retention leaves what it should: whatever the rows are, the release just
\* activated keeps KeepLast - 1 others beside it, if there are as many.
THEOREM RetentionLeavesEnough ==
  ASSUME ActivationsTypeOK, IsFiniteSet(Releases), NEW r \in Releases
  PROVE  LET left == Candidates(r) \ PlanReleaseRemoval(r)
         IN left = Candidates(r) \/ Cardinality(left) >= KeepLast - 1
<1> DEFINE left == Candidates(r) \ PlanReleaseRemoval(r)
           Younger(s) == {t \in Candidates(r) : activatedAt[t] > activatedAt[s]}
<1> SUFFICES ASSUME left # Candidates(r) PROVE Cardinality(left) >= KeepLast - 1
  OBVIOUS
<1>1. PlanReleaseRemoval(r) = {s \in Candidates(r) : Cardinality(Younger(s)) >= KeepLast - 1}
  BY DEF PlanReleaseRemoval, Candidates
<1>2. PlanReleaseRemoval(r) # {} /\ PlanReleaseRemoval(r) \subseteq Releases
  BY <1>1 DEF Candidates
<1>3. PICK s \in PlanReleaseRemoval(r) :
        \A t \in PlanReleaseRemoval(r) : activatedAt[t] <= activatedAt[s]
  BY <1>2, SomeIsYoungest
<1>4. Younger(s) \subseteq left
  <2>1. \A t \in Releases : activatedAt[t] \in Nat
    BY DEF ActivationsTypeOK
  <2>2. Candidates(r) \subseteq Releases
    BY DEF Candidates
  <2>3. ASSUME NEW t \in Younger(s) PROVE t \notin PlanReleaseRemoval(r)
    <3>1. t \in Releases /\ s \in Releases /\ activatedAt[t] > activatedAt[s]
      BY <1>2, <2>2
    <3> QED BY <1>3, <2>1, <3>1
  <2> QED BY <2>3
<1>5. Cardinality(Younger(s)) >= KeepLast - 1
  BY <1>1, <1>3
<1>6. IsFiniteSet(left) /\ IsFiniteSet(Younger(s)) /\ Cardinality(Younger(s)) <= Cardinality(left)
  <2>1. IsFiniteSet(left)
    BY FS_Subset DEF Candidates
  <2> HIDE DEF left, Younger
  <2> QED BY <2>1, <1>4, FS_Subset
<1>7. Cardinality(left) \in Nat /\ Cardinality(Younger(s)) \in Nat
  BY <1>6, FS_CardinalityType
<1>8. KeepLast - 1 \in Nat
  BY ReleaseRowsAssumption
<1> HIDE DEF left, Younger
<1> QED BY <1>5, <1>6, <1>7, <1>8

=============================================================================

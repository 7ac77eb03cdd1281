------------------------------ MODULE ReleaseRows ------------------------------
(***************************************************************************)
(* The release rows of one application in SQLite                           *)
(* (internal/adapters/sqlite/catalog.go, internal/domain/release.go).  Every *)
(* transition is one conditional UPDATE or one transaction, so the rows are  *)
(* an object of their own: RowsSpec says what any caller can make of them,   *)
(* and Deploy and Slots are two callers that must stay within it.            *)
(***************************************************************************)
EXTENDS Integers, FiniteSets

CONSTANTS
  Releases,      \* versions of the application
  KeepLast,      \* release.keepLast of the manifests
  None           \* no release

ASSUME ReleaseRowsAssumption ==
  /\ None \notin Releases
  /\ KeepLast \in Nat \ {0}   \* 0 becomes the default, less is refused

VARIABLES
  status,       \* releases.status; "none": no row yet
  directory,    \* releases.directory is set
  activatedAt   \* releases.activated_at, as the number of the activation

rows == <<status, directory, activatedAt>>

Statuses == {"none", "created", "deploying", "active", "superseded", "failed", "removed"}

Rollbackable == {"active", "superseded"}

\* ActiveRelease: the newest active row, None when there is none.
Active ==
  LET actives == {r \in Releases : status[r] = "active"}
  IN IF actives = {} THEN None
     ELSE CHOOSE r \in actives : \A s \in actives : activatedAt[r] >= activatedAt[s]

RowsInit ==
  /\ status = [r \in Releases |-> "none"]
  /\ directory = [r \in Releases |-> FALSE]
  /\ activatedAt = [r \in Releases |-> 0]

-----------------------------------------------------------------------------
\* A version that is submitted for the first time gets its row.
CreateRelease(r) ==
  /\ status' = [status EXCEPT ![r] = IF @ = "none" THEN "created" ELSE @]
  /\ UNCHANGED <<directory, activatedAt>>

MarkReleaseDeploying(r) ==
  LET marks == status[r] \in {"created", "failed", "removed"}
  IN /\ status' = [status EXCEPT ![r] = IF marks THEN "deploying" ELSE @]
     /\ directory' = [directory EXCEPT ![r] = marks \/ @]
     /\ activatedAt' = [activatedAt EXCEPT ![r] = IF marks THEN 0 ELSE @]

ActivateRelease_Alone(r) ==
  /\ status' = [status EXCEPT ![r] = "active"]
  /\ UNCHANGED <<activatedAt, directory>>

\* One transaction: the active row is superseded, this one becomes active.
ActivateRelease(r) ==
  /\ status' = [s \in Releases |-> IF s = r THEN "active"
                                   ELSE IF status[s] = "active" THEN "superseded"
                                   ELSE status[s]]
  /\ activatedAt' = [activatedAt EXCEPT ![r] = 1 +
        CHOOSE n \in {activatedAt[s] : s \in Releases} :
          \A s \in Releases : activatedAt[s] <= n]
  /\ UNCHANGED directory

\* A failed deployment: the row loses its directory, unless it is past deploying.
FailRelease(r) ==
  LET marks == status[r] \in {"created", "deploying"}
  IN /\ status' = [status EXCEPT ![r] = IF marks THEN "failed" ELSE @]
     /\ directory' = [directory EXCEPT ![r] = @ /\ ~marks]
     /\ UNCHANGED activatedAt

\* The retention has removed the directory; the active row is never marked.
MarkReleaseRemoved(r) ==
  LET marks == status[r] \in {"superseded", "failed"}
  IN /\ status' = [status EXCEPT ![r] = IF marks THEN "removed" ELSE @]
     /\ directory' = [directory EXCEPT ![r] = @ /\ ~marks]
     /\ UNCHANGED activatedAt

RowsNext ==
  \E r \in Releases :
    \/ CreateRelease(r) \/ MarkReleaseDeploying(r) \/ ActivateRelease(r)
    \/ FailRelease(r) \/ MarkReleaseRemoved(r)

RowsSpec == RowsInit /\ [][RowsNext]_rows

-----------------------------------------------------------------------------
PlanReleaseRemoval_OneTooFew(r) ==
  LET candidates == {s \in Releases \ {r} :
                       directory[s] /\ status[s] \in Rollbackable}
  IN {s \in candidates :
        Cardinality({t \in candidates : activatedAt[t] > activatedAt[s]}) >= KeepLast - 2}

\* What the retention removes once r is active: superseded rows with a
\* directory, but the KeepLast - 1 youngest of them.
PlanReleaseRemoval(r) ==
  LET candidates == {s \in Releases \ {r} :
                       directory[s] /\ status[s] \in Rollbackable}
  IN {s \in candidates :
        Cardinality({t \in candidates : activatedAt[t] > activatedAt[s]}) >= KeepLast - 1}

\* The order in which the retention removes: the oldest activation first.
OldestOf(todo) == CHOOSE s \in todo : \A t \in todo : activatedAt[s] <= activatedAt[t]

-----------------------------------------------------------------------------
RowsTypeOK ==
  /\ status \in [Releases -> Statuses]
  /\ directory \in [Releases -> BOOLEAN]
  /\ activatedAt \in [Releases -> Nat]

\* There is one answer to "which version is running": at no time, across
\* crashes, retries and requests checked too early, are two releases active.
OneActive == \A r, s \in Releases : status[r] = "active" /\ status[s] = "active" => r = s

=============================================================================

------------------------------ MODULE Artifacts ------------------------------
(***************************************************************************)
(* The artifact store: immutable contents addressed by digest in a blob    *)
(* directory, their rows in SQLite, and the releases that refer to them.   *)
(*                                                                         *)
(*   internal/application/artifact.go     Put, Delete, Collect, limits     *)
(*   internal/adapters/blob/local.go      the blob directory               *)
(*   internal/adapters/sqlite/catalog.go  artifacts and releases           *)
(*                                                                         *)
(* Every request runs in a goroutine of its own (a handler) and no lock    *)
(* spans its steps: each SQL statement or transaction and each rename or   *)
(* remove in the blob directory is one action.  digest is UNIQUE and rows  *)
(* are only ever soft-deleted, so a digest names its row; the content of a *)
(* digest is always the same.  Reads that end a request without a write    *)
(* (refusals, dry runs, Get, List, Verify, Download) change nothing and    *)
(* are not actions; neither is the audit line that ends a request.         *)
(*                                                                         *)
(* Nothing keeps requests apart, and some that meet do harm: what they put *)
(* at risk is remembered in exposed, so that the rest can be promised.     *)
(***************************************************************************)
EXTENDS Integers, FiniteSets, FiniteSetsExt

CONSTANTS
  Digests,      \* contents a client may upload
  Size,         \* the size of each content
  Quota,        \* quotaBytes of the configuration
  ListLimit,    \* maxArtifactLimit: rows one garbage collection looks at
  Handlers,     \* concurrent requests
  MaxCalls,     \* bound: requests issued
  MaxFailures,  \* bound: failed writes (client gone, disk error)
  MaxCrashes    \* bound: crashes

ASSUME ArtifactAssumption ==
  /\ Size \in [Digests -> Nat \ {0}]
  /\ {Quota, ListLimit, MaxCalls, MaxFailures, MaxCrashes} \subseteq Nat

VARIABLES
  up,          \* the daemon runs
  row,         \* artifacts: no row, a live row, a soft-deleted row
  createdAt,   \* artifacts.created_at, as the tick it was taken at
  clock,       \* ticks handed out as created_at
  referenced,  \* artifacts some release refers to
  blobs,       \* contents in the blob directory
  temp,        \* upload files in tmp/, named by the handler that made them
  req,         \* what each handler is doing
  calls, failures, crashes,
  exposed,     \* history: contents a use of which has met a removal (Exposures)
  fresh        \* history: contents that have come since a collection read the directory

artifactsVars == <<up, row, createdAt, clock, referenced, blobs, temp, req,
                   calls, failures, crashes, exposed, fresh>>

db == <<row, createdAt, referenced>>
bounds == <<calls, failures, crashes>>

NoRequest == [kind |-> "idle"]

Live == {d \in Digests : row[d] = "live"}

Newer(d, e) == createdAt[d] > createdAt[e]

\* The n first rows of ListArtifacts: ORDER BY created_at DESC.
Newest(n, rows) == {d \in rows : Cardinality({e \in rows : Newer(e, d)}) < n}

\* The types of the requests in progress.
PutJob == [kind : {"put"}, step : {"upload", "record", "undo"}, digest : Digests,
           limit : Nat, at : Nat]
ReleaseJob == [kind : {"release"}, step : {"insert"}, digest : Digests]
DeleteJob == [kind : {"delete"}, step : {"mark", "content"}, digest : Digests]
CollectJob == [kind : {"collect"}, step : {"next", "mark", "content", "orphans"},
               listed : SUBSET Digests, todo : SUBSET Digests, kept : SUBSET Digests,
               row : Digests \union {"none"}, cutoff : Nat]

ArtifactsInit ==
  /\ up = TRUE
  /\ row = [d \in Digests |-> "none"]
  /\ createdAt = [d \in Digests |-> 0]
  /\ clock = 0
  /\ referenced = {}
  /\ blobs = {}
  /\ temp = {}
  /\ req = [h \in Handlers |-> NoRequest]
  /\ calls = 0 /\ failures = 0 /\ crashes = 0
  /\ exposed = {} /\ fresh = [h \in Handlers |-> {}]

-----------------------------------------------------------------------------
\* Handler h takes job j, whatever the others are doing.
BeginRequest(h, j) ==
  /\ up /\ req[h] = NoRequest /\ calls < MaxCalls
  /\ req' = [req EXCEPT ![h] = j]
  /\ calls' = calls + 1
  /\ UNCHANGED <<failures, crashes>>

Doing(h, kind, step) == up /\ req[h].kind = kind /\ req[h].step = step

Continue(h, step) ==
  /\ req' = [req EXCEPT ![h].step = step]
  /\ UNCHANGED bounds

End(h) ==
  /\ req' = [req EXCEPT ![h] = NoRequest]
  /\ UNCHANGED bounds

EndFailed(h) ==
  /\ failures < MaxFailures
  /\ failures' = failures + 1
  /\ req' = [req EXCEPT ![h] = NoRequest]
  /\ UNCHANGED <<calls, crashes>>

\* store.Delete: removing a content that is not there is no error.
RemoveContent(d) == blobs' = blobs \ {d}

-----------------------------------------------------------------------------
\* PUT /artifacts.  limitStream reads the quota once, before the first byte.
Remaining == Quota - MapThenSumSet(LAMBDA d : Size[d], Live)

PutBegin(h, d) ==
  /\ Remaining > 0
  /\ BeginRequest(h, [kind |-> "put", step |-> "upload", digest |-> d,
               limit |-> Remaining, at |-> 0])
  /\ temp' = temp \union {h}
  /\ UNCHANGED <<up, db, clock, blobs>>

\* The upload is over the limit, its digest is not the declared one, or the
\* client goes away: the deferred remove takes the temporary file away.
PutRejected(h) ==
  /\ Doing(h, "put", "upload")
  /\ temp' = temp \ {h}
  /\ End(h)
  /\ UNCHANGED <<up, db, clock, blobs>>

\* The content is complete: rename it into place, or drop the temporary file
\* when the content is there already; then take created_at for the row.
PutCommit(h) ==
  /\ Doing(h, "put", "upload")
  /\ Size[req[h].digest] <= req[h].limit
  /\ blobs' = blobs \union {req[h].digest}
  /\ temp' = temp \ {h}
  /\ clock' = clock + 1
  /\ req' = [req EXCEPT ![h].step = "record", ![h].at = clock']
  /\ UNCHANGED <<up, db, bounds>>

\* A new digest gets a row; the row of a known one is revived if need be.
CreateArtifact(d, at) ==
  /\ row' = [row EXCEPT ![d] = "live"]
  /\ createdAt' = [createdAt EXCEPT ![d] = IF row[d] = "none" THEN at ELSE @]
  /\ UNCHANGED referenced

PutRecord(h) ==
  /\ Doing(h, "put", "record")
  /\ CreateArtifact(req[h].digest, req[h].at)
  /\ End(h)
  /\ UNCHANGED <<up, clock, blobs, temp>>

\* CreateArtifact fails (the request's context is gone, the database is busy):
\* Put goes on to remove the content, whoever stored it.
PutRecordFails(h) ==
  /\ Doing(h, "put", "record")
  /\ failures < MaxFailures
  /\ failures' = failures + 1
  /\ req' = [req EXCEPT ![h].step = "undo"]
  /\ UNCHANGED <<up, db, clock, blobs, temp, calls, crashes>>

PutUndo(h) ==
  /\ Doing(h, "put", "undo")
  /\ \/ RemoveContent(req[h].digest) /\ End(h)
     \/ UNCHANGED blobs /\ EndFailed(h)   \* only logged
  /\ UNCHANGED <<up, db, clock, temp>>

-----------------------------------------------------------------------------
\* POST /releases: the artifact is looked up, then the release is inserted.
\* The foreign key only asks for a row, live or not.
ReleaseCheck(h, d) ==
  /\ d \in Live
  /\ BeginRequest(h, [kind |-> "release", step |-> "insert", digest |-> d])
  /\ UNCHANGED <<up, db, clock, blobs, temp>>

ReleaseInsert(h) ==
  /\ Doing(h, "release", "insert")
  /\ referenced' = referenced \union {req[h].digest}
  /\ End(h)
  /\ UNCHANGED <<up, row, createdAt, clock, blobs, temp>>

-----------------------------------------------------------------------------
\* DELETE /artifacts/{id}: look up, count the references, mark, remove.
DeleteCheck(h, d) ==
  /\ d \in Live
  /\ d \notin referenced
  /\ BeginRequest(h, [kind |-> "delete", step |-> "mark", digest |-> d])
  /\ UNCHANGED <<up, db, clock, blobs, temp>>

SoftDeleteArtifact(d) ==
  /\ row' = [row EXCEPT ![d] = "deleted"]
  /\ UNCHANGED <<createdAt, referenced>>

DeleteMark(h) ==
  /\ Doing(h, "delete", "mark")
  /\ \/ /\ req[h].digest \in Live
        /\ SoftDeleteArtifact(req[h].digest)
        /\ Continue(h, "content")
     \/ /\ req[h].digest \notin Live   \* another request was faster
        /\ UNCHANGED db
        /\ End(h)
  /\ UNCHANGED <<up, clock, blobs, temp>>

\* A content that cannot be removed is only logged.
DeleteContent(h) ==
  /\ Doing(h, "delete", "content")
  /\ \/ RemoveContent(req[h].digest) /\ End(h)
     \/ UNCHANGED blobs /\ EndFailed(h)
  /\ UNCHANGED <<up, db, clock, temp>>

-----------------------------------------------------------------------------
\* POST /artifacts/gc.  The rows are listed once, at most ListLimit of them;
\* cutoff stands for now - olderThan (every tick is older when it is not given).
CollectList(h, keepLast, cutoff) ==
  /\ LET listed == Newest(ListLimit, Live)
     IN BeginRequest(h, [kind |-> "collect", step |-> "next", listed |-> listed,
                  todo |-> listed, kept |-> Newest(keepLast, listed), row |-> "none",
                  cutoff |-> cutoff])
  /\ UNCHANGED <<up, db, clock, blobs, temp>>

\* Rows the collection leaves alone: the newest, the referenced, the recent.
Keeps(h, d) ==
  \/ d \in req[h].kept
  \/ d \in referenced
  \/ createdAt[d] > req[h].cutoff

\* The list is walked from the newest row on.
CollectNext(h) ==
  /\ Doing(h, "collect", "next")
  /\ \E d \in Newest(1, req[h].todo) :
       req' = [req EXCEPT ![h].todo = @ \ {d}, ![h].row = d,
                          ![h].step = IF Keeps(h, d) THEN "next" ELSE "mark"]
  /\ UNCHANGED <<up, db, clock, blobs, temp, bounds>>

\* A row that is gone by now ends the whole collection with an error.
CollectMark(h) ==
  /\ Doing(h, "collect", "mark")
  /\ \/ /\ req[h].row \in Live
        /\ SoftDeleteArtifact(req[h].row)
        /\ Continue(h, "content")
     \/ /\ req[h].row \notin Live
        /\ UNCHANGED db
        /\ End(h)
  /\ UNCHANGED <<up, clock, blobs, temp>>

CollectContent(h) ==
  /\ Doing(h, "collect", "content")
  /\ \/ RemoveContent(req[h].row) /\ Continue(h, "next")
     \/ UNCHANGED blobs /\ EndFailed(h)
  /\ UNCHANGED <<up, db, clock, temp>>

Orphans_NoRow(h) == {d \in blobs : row[d] = "none"}

Orphans_OnlyKept(h) == blobs \ req[h].kept

\* What the collection takes for orphans: every content it did not list.
Orphans(h) == blobs \ req[h].listed

CollectScan(h) ==
  /\ Doing(h, "collect", "next")
  /\ req[h].todo = {}
  /\ req' = [req EXCEPT ![h].step = "orphans", ![h].todo = Orphans(h)]
  /\ UNCHANGED <<up, db, clock, blobs, temp, bounds>>

CollectOrphan(h) ==
  /\ Doing(h, "collect", "orphans")
  /\ \E d \in req[h].todo :
       \/ /\ RemoveContent(d)
          /\ req' = [req EXCEPT ![h].todo = @ \ {d}]
          /\ UNCHANGED bounds
       \/ UNCHANGED blobs /\ EndFailed(h)
  /\ UNCHANGED <<up, db, clock, temp>>

CollectEnd(h) ==
  /\ Doing(h, "collect", "orphans")
  /\ req[h].todo = {}
  /\ End(h)
  /\ UNCHANGED <<up, db, clock, blobs, temp>>

-----------------------------------------------------------------------------
\* The daemon dies between any two steps: rows and files stay as they are.
DaemonDies ==
  /\ up /\ crashes < MaxCrashes
  /\ up' = FALSE
  /\ crashes' = crashes + 1
  /\ req' = [h \in Handlers |-> NoRequest]
  /\ UNCHANGED <<db, clock, blobs, temp, calls, failures>>

\* openArtifactStore clears tmp/ before the daemon serves anyone.
DaemonStarts ==
  /\ ~up
  /\ up' = TRUE
  /\ temp' = {}
  /\ UNCHANGED <<db, clock, blobs, req, bounds>>

-----------------------------------------------------------------------------
\* The contents a request relies on and does not look at again: a release has seen
\* a live row, an upload has put the content there, or found it there.
UsedBy(h) ==
  IF req[h].kind = "release" \/ (req[h].kind = "put" /\ req[h].step = "record")
  THEN {req[h].digest} ELSE {}

\* The contents a request has set out to remove, or may still come to: a collection
\* those of the rows ahead of it, and every one without a row on its list.
MayRemove(h) ==
  CASE req[h].kind = "delete" -> {req[h].digest}
    [] req[h].kind = "collect" /\ req[h].step = "next" ->
         (req[h].todo \ req[h].kept) \union (Digests \ req[h].listed)
    [] req[h].kind = "collect" /\ req[h].step \in {"mark", "content"} ->
         (req[h].todo \ req[h].kept) \union (Digests \ req[h].listed) \union {req[h].row}
    [] req[h].kind = "collect" /\ req[h].step = "orphans" -> req[h].todo
    [] OTHER -> {}

\* Live rows that a collection does not know of, its list being cut off.
Overlooked(h) ==
  IF req[h].kind = "collect" THEN (Live \intersect MayRemove(h)) \ req[h].listed ELSE {}

\* The content of an upload that could not be recorded, which it takes back.
TakenBack(h) ==
  IF req[h].kind = "put" /\ req[h].step = "undo" THEN {req[h].digest} ELSE {}

Used == UNION {UsedBy(h) : h \in Handlers}

AtRisk(h) == (Used \intersect MayRemove(h)) \union Overlooked(h) \union TakenBack(h)

Exposures == UNION {AtRisk(h) : h \in Handlers}

Observe ==
  /\ exposed' = exposed \union Exposures'
  /\ fresh' = [h \in Handlers |->
       IF req'[h].kind = "collect" /\ req'[h].step = "orphans"
       THEN fresh[h] \union (blobs' \ blobs) ELSE {}]

Step(h) ==
  \/ \E d \in Digests : PutBegin(h, d) \/ ReleaseCheck(h, d) \/ DeleteCheck(h, d)
  \/ \E keepLast \in 0..1, cutoff \in 0..clock : CollectList(h, keepLast, cutoff)
  \/ PutRejected(h) \/ PutCommit(h) \/ PutRecord(h) \/ PutRecordFails(h) \/ PutUndo(h)
  \/ ReleaseInsert(h)
  \/ DeleteMark(h) \/ DeleteContent(h)
  \/ CollectNext(h) \/ CollectMark(h) \/ CollectContent(h)
  \/ CollectScan(h) \/ CollectOrphan(h) \/ CollectEnd(h)

ArtifactsNext ==
  /\ (\E h \in Handlers : Step(h)) \/ DaemonDies \/ DaemonStarts
  /\ Observe

ArtifactsSpec == ArtifactsInit /\ [][ArtifactsNext]_artifactsVars

-----------------------------------------------------------------------------
\* Every variable keeps its type; ticks and rows are bounded by the requests.
ArtifactsTypeOK ==
  /\ up \in BOOLEAN
  /\ row \in [Digests -> {"none", "live", "deleted"}]
  /\ createdAt \in [Digests -> 0..clock]
  /\ clock \in Nat
  /\ referenced \subseteq Digests
  /\ blobs \subseteq Digests
  /\ temp \subseteq Handlers
  /\ req \in [Handlers -> {NoRequest} \union PutJob \union ReleaseJob \union DeleteJob \union CollectJob]
  /\ calls \in 0..MaxCalls /\ failures \in 0..MaxFailures /\ crashes \in 0..MaxCrashes
  /\ exposed \subseteq Digests /\ fresh \in [Handlers -> SUBSET Digests]

\* Whatever requests overlap, fail or are cut off by a crash: the content of a live
\* artifact, and of one a release refers to, is there.  Left out are contents of which
\* an upload or release was between its look and its write when a removal had yet to
\* pass them, those a collection had no row of on its page, and those of an upload
\* whose row could not be written: these the code does remove (README).
ContentInUseStays == (Live \union referenced) \ exposed \subseteq blobs

\* A collection that comes to its end leaves no orphan behind, also none of an earlier
\* crash or failed removal: every content there is then had a row when it began, or has
\* come since it read the directory.
CollectLeavesNoOrphans ==
  \A h \in Handlers :
    req[h].kind = "collect" /\ req[h].step = "orphans" /\ req[h].todo = {} =>
      blobs \subseteq req[h].listed \union fresh[h]

-----------------------------------------------------------------------------
(* What the documentation says and the code does not keep *)

\* Contents of live and of referenced artifacts are never removed (Delete, Collect).
ContentIsThere == Live \union referenced \subseteq blobs

\* Uploads are cut off at the remaining quota: what is stored as live
\* artifacts never exceeds quotaBytes (limitStream).
QuotaIsKept == MapThenSumSet(LAMBDA d : Size[d], Live) <= Quota
=============================================================================

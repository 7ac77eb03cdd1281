------------------------------- MODULE Manifests -------------------------------
(***************************************************************************)
(* What becomes of a manifest: decoded, validated and defaulted, checked   *)
(* against the media type of its artifact, stored for its version, read    *)
(* back when the version is deployed or rolled back to, and obeyed when    *)
(* the artifact is unpacked.                                               *)
(*                                                                         *)
(*   internal/adapters/manifest      decoding                              *)
(*   internal/domain/appspec.go, slot.go   Validate and its defaults       *)
(*   internal/adapters/httpapi       the requests                          *)
(*   internal/application            PutSpec, PrepareDeploy, apply         *)
(*   internal/adapters/sqlite/spec.go      application_specs               *)
(*                                                                         *)
(* Requests are handled concurrently and take no lock; operations of one   *)
(* application run one at a time (OpEngine).  How a deployment switches,   *)
(* fails and prunes is in Deploy and Slots: here it unpacks and ends.      *)
(***************************************************************************)
EXTENDS Integers, FiniteSets

CONSTANTS
  Clients,       \* concurrent requests
  Versions,      \* artifact.version of the manifests
  Artifacts,     \* artifacts, by digest
  Documents,     \* the YAML documents the clients submit
  MediaTypes,    \* what an upload can declare: archives, or a single file
  None,          \* no artifact, version, manifest or directory
  MaxRequests    \* bound: documents submitted

ASSUME ManifestsAssumption ==
  /\ None \notin Versions \union Artifacts
  /\ MediaTypes \subseteq {"binary", "tar", "zip"}
  /\ MaxRequests \in Nat

VARIABLES
  media,      \* artifacts.media_type, "absent" when there is no such artifact
  artifactOf, \* releases.artifact_id of the row of a version
  specs,      \* application_specs: one per version, and one of the application (None)
  dirs,       \* release directories: what was unpacked, and how
  activeVersion, \* the active version
  past,       \* superseded versions
  running,    \* the incomplete operation
  client,     \* the requests being handled
  requests

releases == <<artifactOf, activeVersion, past>>
manifestsVars == <<media, artifactOf, specs, dirs, activeVersion, past, running, client, requests>>

SlotNames == {"blue", "green"}
RestartPolicies == {"always", "on-failure", "no"}
DefaultKeepLast == 5
MaxKeepReleases == 100
DefaultObservationSeconds == 30
Unwritten == -1          \* a number the document does not give
Blank == ""              \* a text it does not give

-----------------------------------------------------------------------------
Strategies == {"unwritten", Blank, "none", "tar", "zip"}
Restarts == RestartPolicies \union {Blank, "bogus"}

SlotMaps ==
  LET For(S) == [S -> SUBSET Nat]
  IN For({}) \union For({"blue"}) \union For({"green"}) \union For({"other"}) \union For(SlotNames)

\* The fields of a manifest that a rule relates to another one, or that steer what is
\* unpacked.  In a document "explicit" has no meaning yet: it is not a field of the YAML.
ManifestType ==
  [app : {"this", "other"}, sound : BOOLEAN, artifact : Artifacts, version : Versions,
   strategy : Strategies, explicit : BOOLEAN, strip : Nat,
   fileName : BOOLEAN, argv : {"absolute", "inside", "escaping"}, ports : SUBSET Nat,
   slots : SlotMaps,
   env : SUBSET STRING, slotEnv : SUBSET STRING, secretEnv : SUBSET STRING,
   readiness : STRING, slotReadiness : STRING, successes : Nat, unitName : BOOLEAN,
   restart : Restarts, keepLast : Int, listen : Nat, observe : Int]

ASSUME DocumentsAssumption == Documents \subseteq ManifestType

\* Decoding.  Only here can "not written" be told from a zero.
StrategyExplicit(doc) == doc.strategy # "unwritten"

convertNginx(doc) ==
  IF doc.listen = 0 THEN 0
  ELSE IF doc.observe = Unwritten THEN DefaultObservationSeconds ELSE doc.observe

convert(doc) ==
  [doc EXCEPT !.strategy = IF StrategyExplicit(doc) THEN @ ELSE Blank,
              !.explicit = StrategyExplicit(doc),
              !.observe = convertNginx(doc)]

-----------------------------------------------------------------------------
\* Validate: the rules that relate fields.  "sound" stands for the form and
\* range of every field taken by itself.
BlueGreen(m) == DOMAIN m.slots # {}

Strategy(m) == IF m.strategy = Blank THEN "none" ELSE m.strategy

\* The default strategy is filled in before the rules about it.
ArtifactRules(m) ==
  /\ m.strip > 0 => Strategy(m) # "none"
  /\ m.fileName => Strategy(m) = "none"

SlotRules(m) ==
  BlueGreen(m) =>
    /\ m.ports = {}
    /\ DOMAIN m.slots = SlotNames
    /\ \A s \in SlotNames : m.slots[s] # {}
    /\ m.slots["blue"] \intersect m.slots["green"] = {}
    /\ m.slotReadiness # Blank
    /\ m.slotEnv \intersect m.secretEnv = {}

ExecRules(m) ==
  /\ m.argv # "escaping"
  /\ SlotRules(m)
  /\ m.env \intersect m.secretEnv = {}

HealthRules(m) == BlueGreen(m) \/ m.readiness # Blank

\* Without a unit name the restart policy is not looked at.
SystemdRules(m) == m.unitName => m.restart \in RestartPolicies \union {Blank}

KeepLast(m) == IF m.keepLast = 0 THEN DefaultKeepLast ELSE m.keepLast

ReleaseRules(m) == KeepLast(m) \in 1..MaxKeepReleases

BlueGreenRules(m) ==
  IF BlueGreen(m) THEN ~m.unitName /\ m.readiness = Blank /\ m.listen # 0
  ELSE m.listen = 0

NginxRules(m) == \A s \in DOMAIN m.slots : m.listen \notin m.slots[s]

Validated(m) ==
  /\ m.sound
  /\ ArtifactRules(m) /\ ExecRules(m) /\ HealthRules(m) /\ SystemdRules(m)
  /\ ReleaseRules(m) /\ BlueGreenRules(m) /\ NginxRules(m)

applyDefaults_AnyUnit(m) ==
  [m EXCEPT !.strategy = Strategy(m), !.keepLast = KeepLast(m), !.unitName = TRUE,
            !.restart = IF @ = Blank THEN "on-failure" ELSE @,
            !.successes = IF @ = 0 THEN 1 ELSE @]

\* What an accepted manifest is rewritten to.  A blue-green application gets no
\* unit name: its units are named after the slots.
applyDefaults(m) ==
  [m EXCEPT !.strategy = Strategy(m), !.keepLast = KeepLast(m),
            !.unitName = @ \/ ~BlueGreen(m),
            !.restart = IF @ = Blank THEN "on-failure" ELSE @,
            !.successes = IF @ = 0 THEN 1 ELSE @]

\* ParseReader: decoded, then validated once.
Parse(doc) == applyDefaults(convert(doc))

-----------------------------------------------------------------------------
MediaTypeUnpackStrategy(type) == IF type \in {"tar", "zip"} THEN type ELSE "none"

CheckUnpackMediaType_KeepsTheDefault(m, type) ==
  [ok |-> m.explicit => MediaTypeUnpackStrategy(type) \in {"none", m.strategy},
   manifest |-> m]

\* An unwritten strategy follows the media type, a written one must not
\* contradict it; nothing is checked while the artifact is absent.
CheckUnpackMediaType(m, type) ==
  LET implied == MediaTypeUnpackStrategy(type)
  IN IF type = "absent" THEN [ok |-> TRUE, manifest |-> m]
     ELSE IF m.explicit THEN [ok |-> implied \in {"none", m.strategy}, manifest |-> m]
     ELSE [ok |-> TRUE, manifest |-> [m EXCEPT !.strategy = implied]]

\* Materializes: something is unpacked into the release directory.
Materializes(m) == m.strategy # "none" \/ m.fileName \/ m.argv # "absolute"

-----------------------------------------------------------------------------
Idle == [step |-> "idle", kind |-> "put", version |-> None, manifest |-> None,
         seen |-> "absent", noop |-> FALSE]

Go(c, step) == client' = [client EXCEPT ![c].step = step]
Answer(c) == client' = [client EXCEPT ![c] = Idle]
At(c, step) == client[c].step = step /\ UNCHANGED <<media, dirs, requests>>

NoOp == [step |-> "none", version |-> None, manifest |-> None]

ManifestsInit ==
  /\ media = [a \in Artifacts |-> "absent"]
  /\ artifactOf = [v \in Versions |-> None]
  /\ specs = [v \in Versions \union {None} |-> None]
  /\ dirs = [v \in Versions |-> None]
  /\ activeVersion = None /\ past = {}
  /\ running = NoOp
  /\ client = [c \in Clients |-> Idle]
  /\ requests = 0

\* The artifact store, as far as manifests see it: the media type is what the
\* upload says, and an artifact no release refers to can be deleted.
Upload(a, type) ==
  /\ media[a] = "absent"
  /\ media' = [media EXCEPT ![a] = type]
  /\ UNCHANGED <<releases, specs, dirs, running, client, requests>>

DeleteArtifact(a) ==
  /\ media[a] # "absent"
  /\ \A v \in Versions : artifactOf[v] # a
  /\ media' = [media EXCEPT ![a] = "absent"]
  /\ UNCHANGED <<releases, specs, dirs, running, client, requests>>

\* A document arrives: it is parsed, the artifact is looked up, and a document
\* that fails either way is answered at once.
Submit(c, kind, doc) ==
  LET found == media[doc.artifact]
      checked == CheckUnpackMediaType(Parse(doc), found)
  IN /\ client[c].step = "idle" /\ requests < MaxRequests
     /\ Validated(convert(doc)) /\ checked.ok
     /\ requests' = requests + 1
     /\ client' = [client EXCEPT ![c] = [Idle EXCEPT
          !.step = "prepare", !.kind = kind, !.version = doc.version,
          !.manifest = checked.manifest, !.seen = found]]
     /\ UNCHANGED <<media, releases, specs, dirs, running>>

\* A stored manifest, with the media type its submission saw.
Stored(c, m) == [manifest |-> m, seen |-> client[c].seen]

\* PutSpec: validated again, then stored as the manifest of the application.
\* Which application the manifest names is not checked.
PutSpec(c) ==
  LET m == client[c].manifest
  IN /\ At(c, "prepare") /\ client[c].kind = "put"
     /\ specs' = IF Validated(m) THEN [specs EXCEPT ![None] = Stored(c, applyDefaults(m))]
                 ELSE specs
     /\ Answer(c)
     /\ UNCHANGED <<releases, running>>

PrepareDeploy_AnyArtifact(c) ==
  LET m == client[c].manifest
  IN /\ At(c, "prepare") /\ client[c].kind = "deploy"
     /\ IF /\ Validated(m) /\ m.app = "this" /\ media[m.artifact] # "absent"
        THEN client' = [client EXCEPT
               ![c].step = IF artifactOf[m.version] = None THEN "create" ELSE "store",
               ![c].manifest = applyDefaults(m), ![c].noop = activeVersion = m.version]
        ELSE Answer(c)
     /\ UNCHANGED <<releases, specs, running>>

\* PrepareDeploy up to the row: validated again, for this application, the
\* artifact exists, and the version names no other artifact.
PrepareDeploy(c) ==
  LET m == client[c].manifest
  IN /\ At(c, "prepare") /\ client[c].kind = "deploy"
     /\ IF /\ Validated(m) /\ m.app = "this" /\ media[m.artifact] # "absent"
           /\ artifactOf[m.version] \in {None, m.artifact}
        THEN client' = [client EXCEPT
               ![c].step = IF artifactOf[m.version] = None THEN "create" ELSE "store",
               ![c].manifest = applyDefaults(m), ![c].noop = activeVersion = m.version]
        ELSE Answer(c)
     /\ UNCHANGED <<releases, specs, running>>

\* The row, unless the artifact is gone or another request was faster: a version
\* is unique within its application.
CreateRelease(c) ==
  LET m == client[c].manifest
  IN /\ At(c, "create")
     /\ IF media[m.artifact] # "absent" /\ artifactOf[m.version] = None
        THEN Go(c, "store") /\ artifactOf' = [artifactOf EXCEPT ![m.version] = m.artifact]
        ELSE Answer(c) /\ UNCHANGED artifactOf
     /\ UNCHANGED <<specs, activeVersion, past, running>>

\* PutApplicationSpecForRelease: whatever was stored for the version is replaced,
\* also when the version is active or being deployed.
PutApplicationSpecForRelease(c) ==
  /\ At(c, "store")
  /\ specs' = [specs EXCEPT ![client[c].version] = Stored(c, client[c].manifest)]
  /\ IF client[c].noop THEN Answer(c) ELSE Go(c, "create operation")
  /\ UNCHANGED <<releases, running>>

\* PrepareRollback: the version named must have been active and have a manifest.
PrepareRollback(c, v) ==
  /\ client[c].step = "idle"
  /\ v \in past /\ specs[v] # None
  /\ client' = [client EXCEPT ![c] = [Idle EXCEPT !.step = "create operation",
                                       !.kind = "rollback", !.version = v]]
  /\ UNCHANGED <<media, releases, specs, dirs, running, requests>>

\* The engine takes one incomplete operation per application.
CreateOperation(c) ==
  /\ At(c, "create operation")
  /\ running' = IF running = NoOp
                THEN [NoOp EXCEPT !.step = "begin", !.version = client[c].version]
                ELSE running
  /\ Answer(c)
  /\ UNCHANGED <<releases, specs>>

-----------------------------------------------------------------------------
\* The operation reads the manifest stored for its version, as it is now.
Begin ==
  /\ running.step = "begin"
  /\ LET m == specs[running.version].manifest
     IN running' = IF Validated(m) THEN [running EXCEPT !.step = "materialize",
                                               !.manifest = specs[running.version]]
                    ELSE NoOp
  /\ UNCHANGED <<media, releases, specs, dirs, client, requests>>

Unpacked(v) == [artifact |-> artifactOf[v], by |-> running.manifest]

\* materializeIfMissing: a directory that exists is used as it is.
Materialize ==
  /\ running.step = "materialize"
  /\ dirs' = IF Materializes(running.manifest.manifest) /\ dirs[running.version] = None
             THEN [dirs EXCEPT ![running.version] = Unpacked(running.version)] ELSE dirs
  /\ running' = [running EXCEPT !.step = "finish"]
  /\ UNCHANGED <<media, releases, specs, client, requests>>

\* The version is active; the retention removes superseded directories.
Succeed ==
  /\ running.step = "finish"
  /\ \E gone \in SUBSET ((past \union {activeVersion}) \ {running.version, None}) :
       /\ dirs' = [v \in Versions |-> IF v \in gone THEN None ELSE dirs[v]]
       /\ past' = (past \union {activeVersion}) \ (gone \union {running.version, None})
  /\ activeVersion' = running.version
  /\ running' = NoOp
  /\ UNCHANGED <<media, artifactOf, specs, client, requests>>

\* The directory of the failed version goes, unless it is the current one.
Fail ==
  /\ running.step \in {"materialize", "finish"}
  /\ dirs' = IF running.version # activeVersion /\ Materializes(running.manifest.manifest)
             THEN [dirs EXCEPT ![running.version] = None] ELSE dirs
  /\ running' = NoOp
  /\ UNCHANGED <<media, releases, specs, client, requests>>

Crash ==
  /\ running' = NoOp
  /\ client' = [c \in Clients |-> Idle]
  /\ UNCHANGED <<media, releases, specs, dirs, requests>>

ManifestsNext ==
  \/ \E a \in Artifacts : DeleteArtifact(a) \/ \E type \in MediaTypes : Upload(a, type)
  \/ \E c \in Clients :
       \/ \E doc \in Documents, kind \in {"put", "deploy"} : Submit(c, kind, doc)
       \/ PutSpec(c) \/ PrepareDeploy(c) \/ CreateRelease(c)
       \/ PutApplicationSpecForRelease(c) \/ CreateOperation(c)
       \/ \E v \in Versions : PrepareRollback(c, v)
  \/ Begin \/ Materialize \/ Succeed \/ Fail \/ Crash

ManifestsSpec == ManifestsInit /\ [][ManifestsNext]_manifestsVars

-----------------------------------------------------------------------------
\* A submitted manifest, with the media type of its artifact at that time.
SubmissionType == [manifest : ManifestType, seen : MediaTypes \union {"absent"}]

RequestType ==
  [step : {"idle", "prepare", "create", "store", "create operation"},
   kind : {"put", "deploy", "rollback"}, version : Versions \union {None},
   manifest : ManifestType \union {None}, seen : MediaTypes \union {"absent"},
   noop : BOOLEAN]

\* Rows, manifests, directories and requests hold values of their kind.
ManifestsTypeOK ==
  /\ media \in [Artifacts -> MediaTypes \union {"absent"}]
  /\ artifactOf \in [Versions -> Artifacts \union {None}]
  /\ specs \in [Versions \union {None} -> SubmissionType \union {None}]
  /\ dirs \in [Versions -> [artifact : Artifacts, by : SubmissionType] \union {None}]
  /\ activeVersion \in Versions \union {None} /\ past \subseteq Versions \ {activeVersion}
  /\ running \in [step : {"none", "begin", "materialize", "finish"},
                  version : Versions \union {None}, manifest : SubmissionType \union {None}]
  /\ client \in [Clients -> RequestType]

\* A manifest does not trip over the defaults of its own first validation: what
\* Parse accepted is accepted again, unless the media type turned a single file
\* into an archive or the restart policy went unread the first time (README).
ParsedIsAccepted ==
  \A c \in Clients : client[c].step = "prepare" =>
    LET m == client[c].manifest
    IN (m.fileName => m.strategy = "none") /\ m.restart \in RestartPolicies => Validated(m)

\* What is stored passes Validate and is not changed by it, and the manifest of
\* a version is of this application.
StoredIsAccepted ==
  \A v \in Versions \union {None} : specs[v] # None =>
    LET m == specs[v].manifest
    IN /\ Validated(m) /\ applyDefaults(m) = m
       /\ v # None => m.app = "this"

\* A manifest is validated when it is decoded, again when it is stored and again
\* when it is executed, each time with the defaults of the time before written
\* into it (the comment in applyDefaults): no validation refuses or changes what
\* an earlier one let through.
ValidatesAgain == ParsedIsAccepted /\ StoredIsAccepted

\* The row of a version, its stored manifest and its unpacked directory name
\* the same artifact, however submissions, deletions and deployments interleave.
VersionNamesOneArtifact ==
  \A v \in Versions :
    /\ specs[v] # None => specs[v].manifest.artifact = artifactOf[v]
    /\ dirs[v] # None => dirs[v].artifact = artifactOf[v]

\* An archive whose manifest leaves the strategy open is unpacked as its media
\* type says - if the artifact was there when the manifest came in.  A manifest
\* that came before its artifact is unpacked as a single file (README).
ArchivesAreUnpacked ==
  \A v \in Versions :
    dirs[v] # None /\ ~dirs[v].by.manifest.explicit /\ dirs[v].by.seen = media[artifactOf[v]]
      => dirs[v].by.manifest.strategy = MediaTypeUnpackStrategy(media[artifactOf[v]])

=============================================================================

---------------------------- MODULE JobArtifacts ----------------------------
(***************************************************************************)
(* The files of one job: on the coordinator's disk, in the bucket that     *)
(* mirrors them (artifact_mirror.py, alibaba_oss.py), and in the job's row *)
(* as usage.  Opening the page of an ended job measures and mirrors it;    *)
(* its owner may delete its files.  Every call to the coordinator or to    *)
(* the bucket is awaited, so handlers interleave there, and may fail       *)
(* before or after it took effect.                                         *)
(***************************************************************************)
EXTENDS Deployment, FiniteSetsExt, Naturals

CONSTANTS
  Files,            \* a job leaves files 1..Files
  Accepted,         \* those of completed tasks, or of no task
  Page              \* objects one listing of a prefix returns at most
ASSUME ArtifactAssumption == Files \in Nat /\ Accepted \subseteq 1..Files /\ Page \in Nat \ {0}

VARIABLES
  ended,            \* the coordinator reports the job terminal
  disk, bucket,     \* its files on the disk, and mirrored ones in the bucket
  manifest,         \* the set it certifies, or NoManifest
  usage,            \* jobs: bytes and whether they, and the mirror, are recorded
  clerk,            \* of each process: the handler it runs
  freed,            \* history: a deletion was answered with success, and since
                    \* none was asked again
  overtaken           \* history: it emptied the disk under a handler that had
                    \* listed it
artifactVars == <<ended, disk, bucket, manifest, usage, clerk, freed, overtaken>>

NoManifest == {0}
IdleClerk == [at |-> "idle", recorded |-> FALSE, mirrored |-> FALSE,
              keys |-> {}, rest |-> {}]

ArtifactInit ==
  /\ ended = FALSE /\ disk = {} /\ bucket = {} /\ manifest = NoManifest
  /\ usage = [bytes |-> 0, recorded |-> FALSE, mirrored |-> FALSE]
  /\ clerk = [p \in Process |-> IdleClerk]
  /\ freed = FALSE /\ overtaken = FALSE

ClerkGoto(p, where) == clerk' = [clerk EXCEPT ![p].at = where]
ClerkDone(p) == clerk' = [clerk EXCEPT ![p] = IdleClerk]

\* The coordinator: the job writes its files, then ends.
JobWrites ==
  /\ ~ended /\ disk # 1..Files
  /\ disk' = disk \cup {Min(1..Files \ disk)}
  /\ UNCHANGED <<ended, bucket, manifest, usage, clerk, freed, overtaken>>
JobEnds ==
  /\ ~ended /\ ended' = TRUE
  /\ UNCHANGED <<disk, bucket, manifest, usage, clerk, freed, overtaken>>

-----------------------------------------------------------------------------
(* get_job_route: the row first, then the coordinator.                     *)
OpenJob(p) ==
  /\ clerk[p].at = "idle"
  /\ ~usage.recorded \/ ~usage.mirrored
  /\ clerk' = [clerk EXCEPT ![p] = [IdleClerk EXCEPT !.at = "opened",
                 !.recorded = usage.recorded, !.mirrored = usage.mirrored]]
  /\ UNCHANGED <<ended, disk, bucket, manifest, usage, freed, overtaken>>

GotoMirror(p) == IF clerk[p].mirrored THEN ClerkDone(p) ELSE ClerkGoto(p, "mirror")

\* Each half is guarded by the mark that was read with the row.
ObserveEnd(p) ==
  /\ clerk[p].at = "opened" /\ ended
  /\ IF clerk[p].recorded THEN GotoMirror(p) ELSE ClerkGoto(p, "list")
  /\ UNCHANGED <<ended, disk, bucket, manifest, usage, freed, overtaken>>

\* _record_artifact_footprint.
ListArtifacts(p) ==
  /\ clerk[p].at = "list"
  /\ \/ clerk' = [clerk EXCEPT ![p].at = "measured", ![p].keys = disk]
     \/ GotoMirror(p)
  /\ UNCHANGED <<ended, disk, bucket, manifest, usage, freed, overtaken>>
RecordFootprint(p) ==
  /\ clerk[p].at = "measured" /\ GotoMirror(p)
  /\ usage' = [usage EXCEPT !.bytes = Cardinality(clerk[p].keys), !.recorded = TRUE]
  /\ UNCHANGED <<ended, disk, bucket, manifest, freed, overtaken>>

\* mirror_job: what is to be mirrored, and whether a manifest covers it.
SelectAccepted(p) ==
  /\ clerk[p].at = "mirror"
  /\ clerk' = [clerk EXCEPT ![p].at = "compare", ![p].keys = disk \cap Accepted]
  /\ UNCHANGED <<ended, disk, bucket, manifest, usage, freed, overtaken>>
ReadManifest(p) ==
  /\ clerk[p].at = "compare"
  /\ clerk' = IF manifest = clerk[p].keys
              THEN [clerk EXCEPT ![p].at = "mark"]
              ELSE [clerk EXCEPT ![p].at = "copy", ![p].rest = clerk[p].keys]
  /\ UNCHANGED <<ended, disk, bucket, manifest, usage, freed, overtaken>>

\* Mutant: the manifest goes up as soon as the keys are known.
CertifyFirst(p) ==
  /\ clerk[p].at = "copy" /\ manifest # clerk[p].keys
  /\ manifest' = clerk[p].keys
  /\ UNCHANGED <<ended, disk, bucket, usage, freed, overtaken, clerk>>

\* A file is read from the disk, which fails once it is gone; then it is put.
ReadFile(p) ==
  /\ clerk[p].at = "copy" /\ clerk[p].rest # {}
  /\ IF Min(clerk[p].rest) \in disk THEN ClerkGoto(p, "put") ELSE ClerkDone(p)
  /\ UNCHANGED <<ended, disk, bucket, manifest, usage, freed, overtaken>>
PutFile(p) ==
  /\ clerk[p].at = "put"
  /\ bucket' = bucket \cup {Min(clerk[p].rest)}
  /\ clerk' = [clerk EXCEPT ![p].at = "copy", ![p].rest = @ \ {Min(@)}]
  /\ UNCHANGED <<ended, disk, manifest, usage, freed, overtaken>>
WriteManifest(p) ==
  /\ clerk[p].at = "copy" /\ clerk[p].rest = {}
  /\ manifest' = clerk[p].keys /\ ClerkGoto(p, "mark")
  /\ UNCHANGED <<ended, disk, bucket, usage, freed, overtaken>>
MarkMirrored(p) ==
  /\ clerk[p].at = "mark" /\ ClerkDone(p)
  /\ usage' = [usage EXCEPT !.mirrored = TRUE]
  /\ UNCHANGED <<ended, disk, bucket, manifest, freed, overtaken>>

-----------------------------------------------------------------------------
(* delete_job_artifacts, once _require_stopped has asked the coordinator.  *)
\* Mutant: the state is not asked for.
DeleteAtOnce(p) ==
  /\ clerk[p].at = "idle" /\ ClerkGoto(p, "free") /\ freed' = FALSE
  /\ UNCHANGED <<ended, disk, bucket, manifest, usage, overtaken>>
RequireStopped(p) ==
  /\ clerk[p].at = "idle" /\ ended
  /\ ClerkGoto(p, "free") /\ freed' = FALSE
  /\ UNCHANGED <<ended, disk, bucket, manifest, usage, overtaken>>

\* The disk's copy goes; a refusal, of a part or of all, ends the handler.
Holds(q) == clerk[q].keys # {}
\* Mutant: a refusal is passed over.
FreeSome(p) ==
  /\ clerk[p].at = "free" /\ ClerkGoto(p, "unmirror")
  /\ \E left \in SUBSET disk : disk' = left
  /\ overtaken' = (overtaken \/ \E q \in Process : Holds(q))
  /\ UNCHANGED <<ended, bucket, manifest, usage, freed>>
FreeDisk(p) ==
  /\ clerk[p].at = "free"
  /\ \/ disk' = {} /\ ClerkGoto(p, "unmirror")
     \/ disk' \in SUBSET disk /\ ClerkDone(p)
  /\ overtaken' = (overtaken \/ \E q \in Process : Holds(q))
  /\ UNCHANGED <<ended, bucket, manifest, usage, freed>>

\* unmirror_job: one listing of the prefix, the manifest (0) first in it, then
\* an object at a time.
Objects == bucket \cup (IF manifest = NoManifest THEN {} ELSE {0})
\* Mutant: a job that was not recorded as mirrored has no mirror.
ListMarkedPrefix(p) ==
  /\ clerk[p].at = "unmirror"
  /\ clerk' = [clerk EXCEPT ![p].at = "purge",
                 ![p].rest = IF usage.mirrored THEN Objects ELSE {}]
  /\ UNCHANGED <<ended, disk, bucket, manifest, usage, freed, overtaken>>
ListPrefix(p) ==
  /\ clerk[p].at = "unmirror"
  /\ clerk' = [clerk EXCEPT ![p].at = "purge",
                 ![p].rest = {o \in Objects :
                                Cardinality({q \in Objects : q < o}) < Page}]
  /\ UNCHANGED <<ended, disk, bucket, manifest, usage, freed, overtaken>>
DeleteObject(p) ==
  /\ clerk[p].at = "purge" /\ clerk[p].rest # {}
  /\ LET o == Min(clerk[p].rest)
     IN /\ manifest' = IF o = 0 THEN NoManifest ELSE manifest
        /\ bucket' = bucket \ {o}
        /\ clerk' = [clerk EXCEPT ![p].rest = @ \ {o}]
  /\ UNCHANGED <<ended, disk, usage, freed, overtaken>>
RecordFreed(p) ==
  /\ clerk[p].at = "purge" /\ clerk[p].rest = {}
  /\ usage' = [usage EXCEPT !.bytes = 0, !.recorded = TRUE]
  /\ freed' = TRUE /\ ClerkDone(p)
  /\ UNCHANGED <<ended, disk, bucket, manifest, overtaken>>

\* A call fails, a statement fails or the process dies.
ClerkFails(p) ==
  /\ clerk[p].at # "idle" /\ ClerkDone(p)
  /\ UNCHANGED <<ended, disk, bucket, manifest, usage, freed, overtaken>>

ArtifactNext ==
  \/ JobWrites \/ JobEnds
  \/ \E p \in Process :
       \/ OpenJob(p) \/ ObserveEnd(p) \/ ListArtifacts(p) \/ RecordFootprint(p)
       \/ SelectAccepted(p) \/ ReadManifest(p) \/ ReadFile(p) \/ PutFile(p)
       \/ WriteManifest(p) \/ MarkMirrored(p) \/ RequireStopped(p)
       \/ FreeDisk(p) \/ ListPrefix(p) \/ DeleteObject(p) \/ RecordFreed(p)
       \/ ClerkFails(p)

ArtifactSpec == ArtifactInit /\ [][ArtifactNext]_artifactVars

ArtifactTypeOK ==
  /\ disk \subseteq 1..Files /\ bucket \subseteq Accepted
  /\ manifest = NoManifest \/ manifest \subseteq Accepted
  /\ usage \in [bytes : 0..Files, recorded : BOOLEAN, mirrored : BOOLEAN]
  /\ {ended, freed, overtaken} \subseteq BOOLEAN
  /\ \A p \in Process : /\ clerk[p].keys \subseteq 1..Files
                        /\ clerk[p].rest \subseteq 0..Files

-----------------------------------------------------------------------------
UsageNeverUnderstated == usage.recorded => usage.bytes >= Cardinality(disk)
\* An object that never comes in the first page of a listing.
BeyondThePage(o) == Cardinality({q \in Accepted \cup {0} : q < o}) >= Page
NothingLeft ==
  /\ disk = {} /\ manifest \in {NoManifest, {}} /\ usage.bytes = 0
  /\ \A o \in bucket : BeyondThePage(o)

\* Deletions are honest.  A recorded usage never says less than the job's files
\* take: not when a deletion fails half-way, is repeated or runs beside a
\* measurement.  (It may say more, which its owner can repair by deleting
\* again.)  And once a deletion was answered with success nothing of the job is
\* left in either copy or in the usage, whichever attempts at mirroring and at
\* deleting died before it, but for the objects behind a page of others: one
\* listing is all a deletion reads, and it shows 1000.  Not so when it emptied
\* the disk under a handler that had listed it: that one goes on to put back
\* what it holds, or its measurement.
DeletionIsHonest == UsageNeverUnderstated /\ (freed /\ ~overtaken => NothingLeft)

\* A manifest certifies a whole mirror: all it names is in the bucket, and only
\* a deletion takes that away again; a job marked as mirrored has one or had it
\* deleted.
ManifestIsWhole ==
  manifest # NoManifest /\ ~overtaken => manifest \subseteq bucket
=============================================================================

----------------------------- MODULE Submission -----------------------------
(***************************************************************************)
(* A repository or an upload becomes a job (app.py): its tree is checked,  *)
(* its datasets are resolved, it is compiled into tasks that each hold a   *)
(* slice of the data (compile.py, elastic.py), its code is staged with the *)
(* coordinator it asked for, and the job is posted there, or handed to the *)
(* federated driver.  One submission, which may end between any two steps. *)
(***************************************************************************)
EXTENDS Naturals, FiniteSets, FiniteSetsExt, SequencesExt

CONSTANTS
  Sizes,            \* of the files a dataset may list
  MaxFiles,         \* of one manifest: MAX_MANIFEST_ENTRIES
  MaxPages,         \* of one listing: MAX_LIST_PAGES
  MaxSlots          \* of a federated round, and of a sweep here
ASSUME SubmissionAssumption == Sizes \subseteq Nat /\ {MaxFiles, MaxPages, MaxSlots} \subseteq Nat

VARIABLES
  sub,              \* where it is, what was asked for, what it is compiled to
  staged,           \* the coordinators that hold its code
  posted,           \* the job a coordinator accepted: its venue, or "nowhere"
  rowVenue,         \* its row: the venue it names, or "none"
  started            \* whether the federated driver was started
subVars == <<sub, staged, posted, rowVenue, started>>

SubVenue == {"render", "fc"}
DefaultVenue == "render"
NoSub == [at |-> "idle", federated |-> FALSE, venue |-> DefaultVenue,
          origin |-> "none", page |-> 0, files |-> <<>>, tasks |-> <<>>]

SubInit ==
  /\ sub = [NoSub EXCEPT !.at = "edge"] /\ staged = {} /\ posted = "nowhere"
  /\ rowVenue = "none" /\ started = FALSE

-----------------------------------------------------------------------------
(* elastic.py: files to chunks, in runs cut on cumulative bytes.           *)

\* The chunk of file i is that of its midpoint, and never an earlier one than
\* its predecessor's; files that are all empty are dealt out by count.
Bytes(files, held) == SumFunctionOnSet(files, held)
FilesBefore(files, i) == Bytes(files, 1..i - 1)
Total(files) == Bytes(files, DOMAIN files)
Midpoint(files, chunks, i) ==
  Min({((2 * FilesBefore(files, i) + files[i]) * chunks) \div (2 * Total(files)), chunks - 1})
ByCount(files, chunks, i) == Min({((i - 1) * chunks) \div Len(files), chunks - 1})
ChunkOf(files, chunks, i) ==
  IF Total(files) = 0 THEN ByCount(files, chunks, i)
  ELSE Max({Midpoint(files, chunks, k) : k \in 1..i})
\* What each chunk holds, in the order of the manifest.
DatasetChunks(files, chunks) ==
  [c \in 1..chunks |-> {i \in DOMAIN files : ChunkOf(files, chunks, i) = c - 1}]

\* fleet_shape: as many slots as machines online, and at least one.
FleetSlots(online) == Min({Max({1, online}), MaxSlots})
\* round_chunk_offset, for the one pace parse_flashml_yaml accepts (1.0), is
\* zero in every round: slot i trains chunk i.
CoverageTarget(chunks) == Max({1, chunks})
ChunkOffset(round, chunks) == (round * CoverageTarget(chunks)) % chunks

\* _dataset_slices: one slice per task, of a dataset that is split; a replica
\* gives every task the whole of it.
WholeEach(files, chunks) == [c \in 1..chunks |-> DOMAIN files]
Slices(files, chunks, split) ==
  IF split = "replica" THEN WholeEach(files, chunks)
  ELSE LET groups == DatasetChunks(files, chunks)
       IN [c \in 1..chunks |-> groups[((c - 1 + ChunkOffset(0, chunks)) % chunks) + 1]]

-----------------------------------------------------------------------------
\* Any step may refuse the submission, and what was done so far stays done.
SubRefused ==
  /\ sub.at \notin {"idle", "edge", "end"} /\ sub' = NoSub
  /\ UNCHANGED <<staged, posted, rowVenue, started>>
SubGoto(place) == sub' = [sub EXCEPT !.at = place]

\* The edge: the venue is one this deployment reaches, the workspace one of the
\* submitter's.  Then the tree is fetched from its repository, or unpacked.
FromRepo(venue) ==
  /\ sub.at = "edge" /\ sub' = [sub EXCEPT !.at = "fetch", !.venue = venue]
  /\ UNCHANGED <<staged, posted, rowVenue, started>>
FetchRepo ==
  /\ sub.at = "fetch" /\ SubGoto("tree")
  /\ UNCHANGED <<staged, posted, rowVenue, started>>
FromUpload(venue, inWorkspace, fallback) ==
  /\ sub.at = "edge" /\ fallback \in {"unsaid", IF inWorkspace THEN "true" ELSE "false"}
  /\ sub' = [sub EXCEPT !.at = "tree", !.venue = venue]
  /\ UNCHANGED <<staged, posted, rowVenue, started>>

\* _validate_mode: what a training run states, and what nothing else may.
ModeAccepted(config) ==
  IF config.mode = "federated"
  THEN config.version >= 2 /\ config.epochs > 0 /\ ~config.sweep
  ELSE config.epochs = 0
ParseTree(config) ==
  /\ sub.at = "tree" /\ ModeAccepted(config)
  /\ sub' = [sub EXCEPT !.at = "preflight", !.federated = (config.mode = "federated")]
  /\ UNCHANGED <<staged, posted, rowVenue, started>>
\* preflight: a finding of level error refuses, and so does a federated run for
\* a venue its driver does not address.
Preflight(errors) ==
  /\ sub.at = "preflight" /\ errors = 0 /\ (sub.federated => sub.venue = DefaultVenue)
  /\ SubGoto("parsed")
  /\ UNCHANGED <<staged, posted, rowVenue, started>>
\* resolve: what a public origin lists today.  A repository and a bucket list in
\* pages, and a listing that does not end is no dataset; a manifest is one page.
ListPage(files, more) ==
  sub' = IF more /\ sub.page + 1 = MaxPages THEN NoSub
         ELSE [sub EXCEPT !.at = IF more THEN "list" ELSE "listed",
                          !.files = @ \o files, !.page = @ + 1]
Listing == sub.at = "list" /\ UNCHANGED <<staged, posted, rowVenue, started>>
DeclareDataset(origin) ==
  /\ sub.at = "parsed" /\ sub' = [sub EXCEPT !.at = "list", !.origin = origin]
  /\ UNCHANGED <<staged, posted, rowVenue, started>>
NoDataset ==
  /\ sub.at = "parsed" /\ SubGoto("resolved")
  /\ UNCHANGED <<staged, posted, rowVenue, started>>
ListHf(files, more) == Listing /\ sub.origin = "hf" /\ ListPage(files, more)
ListBucket(files, truncated, token) ==
  /\ Listing /\ sub.origin = "bucket" /\ (truncated => token)
  /\ ListPage(files, truncated)
ReadManifestUrl(files) == Listing /\ sub.origin = "manifest" /\ ListPage(files, FALSE)
\* _build: what `select` leaves of it, sorted by path, in whatever order it was
\* listed; nothing, or too much, is refused.
BuildManifest(kept) ==
  /\ sub.at = "listed" /\ kept \subseteq DOMAIN sub.files
  /\ Cardinality(kept) \in 1..MaxFiles
  /\ \E sorted \in Bijection(1..Cardinality(kept), kept) :
       sub' = [sub EXCEPT !.at = "resolved",
                          !.files = [i \in DOMAIN sorted |-> sub.files[sorted[i]]]]
  /\ UNCHANGED <<staged, posted, rowVenue, started>>
\* A task for each chunk.
Compile(chunks, split) ==
  /\ sub.at = "resolved"
  /\ sub' = [sub EXCEPT !.at = "compiled", !.origin = "none", !.page = 0,
                        !.tasks = IF sub.files = <<>> THEN [c \in 1..chunks |-> {}]
                                  ELSE Slices(sub.files, chunks, split)]
  /\ UNCHANGED <<staged, posted, rowVenue, started>>
\* A sweep has a task for each point, and a job without one has one.
CompileToJobspec(points, split) == ~sub.federated /\ Compile(Max({1, points}), split)
\* A round has one for each slot of the fleet.
CompileFederatedRound(online, split) == sub.federated /\ Compile(FleetSlots(online), split)
\* _admit_datasets: the largest slice fits the best cache online now.
AdmitDatasets(best) ==
  /\ sub.at = "compiled" /\ \A c \in DOMAIN sub.tasks : Bytes(sub.files, sub.tasks[c]) <= best
  /\ SubGoto("admitted")
  /\ UNCHANGED <<staged, posted, rowVenue, started>>

\* Mutant: to the coordinator a job goes to when nobody asks.
StageAtDefault(heard) ==
  /\ sub.at = "admitted" /\ staged' = staged \cup {DefaultVenue}
  /\ IF heard THEN SubGoto("staged") ELSE sub' = NoSub
  /\ UNCHANGED <<posted, rowVenue, started>>
\* PUT of the tarball, retried while a gateway answers for a venue that is
\* waking; it may be stored though nobody says so, and then the submission ends.
StageCode(heard) ==
  /\ sub.at = "admitted" /\ staged' = staged \cup {sub.venue}
  /\ IF heard THEN SubGoto("staged") ELSE sub' = NoSub
  /\ UNCHANGED <<posted, rowVenue, started>>

PostSubmission(heard) ==
  /\ sub.at = "staged" /\ ~sub.federated
  /\ posted' = sub.venue
  /\ IF heard THEN SubGoto("posted") ELSE sub' = NoSub
  /\ UNCHANGED <<staged, rowVenue, started>>
InsertSubmission ==
  /\ sub.at = "posted" \/ (sub.at = "staged" /\ sub.federated)
  /\ rowVenue' = sub.venue /\ SubGoto(IF sub.federated THEN "started" ELSE "route")
  /\ UNCHANGED <<staged, posted, started>>
StartDriver ==
  /\ sub.at = "started" /\ started' = TRUE /\ SubGoto("end")
  /\ UNCHANGED <<staged, posted, rowVenue>>
\* The bid of a priced job, whatever becomes of it: the job is accepted.
RouteSubmission ==
  /\ sub.at = "route" /\ SubGoto("end")
  /\ UNCHANGED <<staged, posted, rowVenue, started>>

SubNext ==
  \/ SubRefused
  \/ FetchRepo
  \/ \E v \in SubVenue : FromRepo(v)
  \/ \E v \in SubVenue, w \in BOOLEAN, f \in {"unsaid", "true", "false"} : FromUpload(v, w, f)
  \/ \E config \in [mode : {"federated", "independent"}, version : 1..2, epochs : 0..1,
                     sweep : BOOLEAN] : ParseTree(config)
  \/ \E errors \in 0..1 : Preflight(errors)
  \/ \E heard \in BOOLEAN : StageCode(heard) \/ PostSubmission(heard)
  \/ NoDataset \/ \E origin \in {"hf", "bucket", "manifest"} : DeclareDataset(origin)
  \/ \E files \in BoundedSeq(Sizes, MaxFiles - 1), more \in BOOLEAN :
       \/ ListHf(files, more)
       \/ \E token \in BOOLEAN : ListBucket(files, more, token)
       \/ ReadManifestUrl(files)
  \/ \E kept \in SUBSET DOMAIN sub.files : BuildManifest(kept)
  \/ \E n \in 0..MaxSlots + 1, split \in {"shard", "replica"} :
       CompileToJobspec(n, split) \/ CompileFederatedRound(n, split)
  \/ \E best \in {0, Max(Sizes), MaxFiles * Max(Sizes)} : AdmitDatasets(best)
  \/ InsertSubmission \/ StartDriver \/ RouteSubmission

SubSpec == SubInit /\ [][SubNext]_subVars

SubTypeOK ==
  /\ sub.venue \in SubVenue /\ sub.federated \in BOOLEAN
  /\ staged \subseteq SubVenue /\ posted \in SubVenue \cup {"nowhere"}
  /\ rowVenue \in SubVenue \cup {"none"} /\ started \in BOOLEAN

-----------------------------------------------------------------------------
\* The tasks of a split dataset hold every file, one task each and in order, and none
\* holds more than its share of the bytes and the largest file besides.
CoversOnce(files, groups) ==
  /\ DOMAIN files = UNION Range(groups)
  /\ \A c, d \in DOMAIN groups : c < d => \A i \in groups[c], j \in groups[d] : i < j
Balanced(files, groups) ==
  \A c \in DOMAIN groups :
    Len(groups) * Bytes(files, groups[c])
      <= Total(files) + Len(groups) * Max(Range(files))
WholeJob ==
  sub.files # <<>> /\ sub.tasks # <<>> =>
    \/ sub.tasks = WholeEach(sub.files, Len(sub.tasks))
    \/ CoversOnce(sub.files, sub.tasks) /\ Balanced(sub.files, sub.tasks)

\* A job some coordinator runs finds its code there, and its row sends its machines
\* there; the federated driver starts only on what it can address.
JobFindsItsCode ==
  /\ posted # "nowhere" => posted \in staged /\ rowVenue \in {"none", posted}
  /\ started => DefaultVenue \in staged /\ rowVenue = DefaultVenue

\* Whatever failed on the way, a job that runs finds its code, and between them its
\* tasks hold the data it was submitted for, in balanced shares.
PostedJobIsWhole == WholeJob /\ JobFindsItsCode
=============================================================================

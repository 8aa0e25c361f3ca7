----------------------------- MODULE Migrations -----------------------------
(***************************************************************************)
(* The migration runner (migrate.py).  Nothing but the table of applied    *)
(* versions keeps two runners, each with its own copy of the files, apart. *)
(***************************************************************************)
EXTENDS Deployment, Naturals, FiniteSets

CONSTANTS
  Versions          \* how many migration files there may be
ASSUME MigrationAssumption == Versions \in Nat

VARIABLES
  files,            \* the directory: the contents of each version's file
  applied,          \* schema_migrations: the checksum of each version
  ran,              \* history: what of each version's SQL the schema has
  stamped,          \* history: versions recorded without being run
  runner            \* of each process: where it is and what it has read
migrateVars == <<files, applied, ran, stamped, runner>>

Version == 1..Versions
Content == {"first", "edited"}
IdleRunner == [at |-> "idle", mode |-> "apply", through |-> 0, todo |-> {}, sql |-> <<>>]

MigrateInit ==
  /\ files = [v \in Version |-> "none"] /\ applied = [v \in Version |-> "none"]
  /\ ran = [v \in Version |-> 0] /\ stamped = {}
  /\ runner = [p \in Process |-> IdleRunner]

\* A file is committed, not always in the order of the versions, or edited.
WriteFile(v) ==
  /\ files[v] # "edited"
  /\ files' = [files EXCEPT ![v] = IF @ = "none" THEN "first" ELSE "edited"]
  /\ UNCHANGED <<applied, ran, stamped, runner>>

Discovered == {v \in Version : files[v] # "none"}
Drifted == {v \in Discovered : applied[v] \notin {"none", files[v]}}
NotRecorded == {v \in Discovered : applied[v] = "none"}

\* apply(): the files and the table are read once, and nothing is done over a
\* file that changed since it was applied.
BeginApply(p, mode, through) ==
  /\ runner[p].at = "idle" /\ Drifted = {}
  /\ mode = "apply" => through = Versions
  /\ through \in Discovered \cup {Versions}
  /\ runner' = [runner EXCEPT ![p] = [at |-> "loop", mode |-> mode, through |-> through,
                                      todo |-> {v \in NotRecorded : v <= through},
                                      sql |-> files]]
  /\ UNCHANGED <<files, applied, ran, stamped>>

Lowest(p) == CHOOSE v \in runner[p].todo : \A w \in runner[p].todo : v <= w
Runs(p) == IF runner[p].mode = "apply" THEN 1 ELSE 0
\* Mutant: the SQL commits by itself, and then its row.
RunUnwrapped(p) ==
  LET v == Lowest(p) IN
  /\ runner[p].todo # {}
  /\ ran' = [ran EXCEPT ![v] = @ + Runs(p)]
  /\ IF applied[v] = "none"
     THEN /\ applied' = [applied EXCEPT ![v] = runner[p].sql[v]]
          /\ stamped' = IF runner[p].mode = "baseline" THEN stamped \cup {v} ELSE stamped
          /\ runner' = [runner EXCEPT ![p].todo = @ \ {v}]
     ELSE runner' = [runner EXCEPT ![p] = IdleRunner] /\ UNCHANGED <<applied, stamped>>
  /\ UNCHANGED files
\* The SQL and its row in one transaction: a row that is already there ends the
\* run and takes the SQL back with it.
RunMigration(p) ==
  LET v == Lowest(p) IN
  /\ runner[p].todo # {}
  /\ IF applied[v] = "none"
     THEN /\ ran' = [ran EXCEPT ![v] = @ + Runs(p)]
          /\ applied' = [applied EXCEPT ![v] = runner[p].sql[v]]
          /\ stamped' = IF runner[p].mode = "baseline" THEN stamped \cup {v} ELSE stamped
          /\ runner' = [runner EXCEPT ![p].todo = @ \ {v}]
     ELSE /\ runner' = [runner EXCEPT ![p] = IdleRunner]
          /\ UNCHANGED <<ran, applied, stamped>>
  /\ UNCHANGED files
EndApply(p) ==
  /\ runner[p].at = "loop" /\ runner[p].todo = {}
  /\ runner' = [runner EXCEPT ![p] = IdleRunner]
  /\ UNCHANGED <<files, applied, ran, stamped>>
\* A statement fails, or the runner is killed.
RunnerDies(p) ==
  /\ runner[p].at # "idle" /\ runner' = [runner EXCEPT ![p] = IdleRunner]
  /\ UNCHANGED <<files, applied, ran, stamped>>

\* reconcile_checksums: the read, then one update per version; each names only
\* the version, whatever its row holds by then.
BeginReconcile(p) ==
  /\ runner[p].at = "idle"
  /\ runner' = [runner EXCEPT ![p] = [at |-> "reconcile", mode |-> "apply", through |-> 0,
                                      todo |-> Drifted, sql |-> files]]
  /\ UNCHANGED <<files, applied, ran, stamped>>
ReconcileOne(p) ==
  /\ runner[p].at = "reconcile"
  /\ IF runner[p].todo = {}
     THEN runner' = [runner EXCEPT ![p] = IdleRunner] /\ UNCHANGED applied
     ELSE /\ applied' = [applied EXCEPT ![Lowest(p)] = runner[p].sql[Lowest(p)]]
          /\ runner' = [runner EXCEPT ![p].todo = @ \ {Lowest(p)}]
  /\ UNCHANGED <<files, ran, stamped>>

MigrateNext ==
  \/ \E v \in Version : WriteFile(v)
  \/ \E p \in Process :
       \/ \E mode \in {"apply", "baseline"}, v \in Version : BeginApply(p, mode, v)
       \/ (runner[p].at = "loop" /\ RunMigration(p))
       \/ EndApply(p) \/ RunnerDies(p) \/ BeginReconcile(p) \/ ReconcileOne(p)

MigrateSpec == MigrateInit /\ [][MigrateNext]_migrateVars

MigrateTypeOK ==
  /\ files \in [Version -> Content \cup {"none"}]
  /\ applied \in [Version -> Content \cup {"none"}]
  /\ ran \in [Version -> {0, 1}] /\ stamped \subseteq Version
  /\ \A p \in Process : /\ runner[p].at \in {"idle", "loop", "reconcile"}
                        /\ runner[p].todo \subseteq Version

-----------------------------------------------------------------------------
\* Whatever runners overlap or die, the schema has every recorded version's SQL
\* once, unless somebody recorded it by hand, and no other version's.
SchemaIsWhatIsRecorded ==
  \A v \in Version :
    /\ ran[v] <= 1
    /\ (ran[v] = 1 \/ v \in stamped) <=> applied[v] # "none"
    /\ ~(ran[v] = 1 /\ v \in stamped)
=============================================================================

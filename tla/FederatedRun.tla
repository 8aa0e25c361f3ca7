---------------------------- MODULE FederatedRun ----------------------------
(***************************************************************************)
(* One federated training run (fedavg.py): a driver thread of the API      *)
(* submits one job to the coordinator per round, averages what its machines *)
(* committed into the weights of the next, and records the round.  Nothing  *)
(* starts a driver again but an operator, who sees that none is alive; the  *)
(* run then goes on from the last recorded round whose weights are there.   *)
(***************************************************************************)
EXTENDS Deployment, FiniteSetsExt, Naturals, Sequences

CONSTANTS Rounds, Resumes            \* bound: restarts by the operator
ASSUME FederatedAssumption == Rounds \in Nat \ {0} /\ Resumes \in Nat

VARIABLES
  runStatus, runUsage,   \* the row of jobs: status, artifact bytes
  roundRow,              \* job_rounds: the coordinator job of a round, or 0
  roundJob,              \* jobs of the coordinator: round, the job whose weights
                         \* it started from, whether its own are on the disk
  credited,              \* jobs with contributions on record
  driver, resumes,
  eraser,                \* the owner's deletion: the jobs it has yet to empty
  purged                 \* history: a deletion emptied a round
fedVars == <<runStatus, runUsage, roundRow, roundJob, credited, driver, resumes,
             eraser, purged>>

Round == 0..Rounds - 1
NoDriver == [at |-> "none", next |-> 0, base |-> 0, bytes |-> 0]
NoEraser == [at |-> "none", targets |-> {}]
Finished == {"SUCCEEDED", "FAILED"}

FedInit ==
  /\ runStatus = "none" /\ runUsage = 0
  /\ roundRow = [r \in Round |-> 0] /\ roundJob = <<>> /\ credited = {}
  /\ driver = NoDriver /\ resumes = 0 /\ eraser = NoEraser /\ purged = FALSE

DriverGoto(where) == driver' = [driver EXCEPT !.at = where]
RecordedJobs == {roundRow[r] : r \in Round} \ {0}

\* The row is inserted, then the thread started; a crash may fall between.
SubmitFederated ==
  /\ runStatus = "none" /\ runStatus' = "PENDING"
  /\ DriverGoto("begin") \/ UNCHANGED driver
  /\ UNCHANGED <<runUsage, roundRow, roundJob, credited, resumes, eraser, purged>>
OperatorResumes ==
  /\ runStatus # "none" /\ driver.at = "none" /\ resumes < Resumes
  /\ DriverGoto("begin") /\ resumes' = resumes + 1
  /\ UNCHANGED <<runStatus, runUsage, roundRow, roundJob, credited, eraser, purged>>

\* run_federated_job.
DriverBegins ==
  /\ driver.at = "begin" /\ DriverGoto("resume") /\ runStatus' = "RUNNING"
  /\ UNCHANGED <<runUsage, roundRow, roundJob, credited, resumes, eraser, purged>>

Committed == {r \in Round : roundRow[r] # 0 /\ roundJob[roundRow[r]].weights}
AfterRound(r) == IF r + 1 < Rounds THEN "round" ELSE "succeed"
ResumeState ==
  /\ driver.at = "resume"
  /\ driver' = IF Committed = {} THEN [NoDriver EXCEPT !.at = "round"]
               ELSE LET r == Max(Committed)
                    IN [NoDriver EXCEPT !.at = AfterRound(r), !.next = r + 1,
                                        !.base = roundRow[r]]
  /\ UNCHANGED <<runStatus, runUsage, roundRow, roundJob, credited, resumes,
                 eraser, purged>>

SubmitRound ==
  /\ driver.at = "round" /\ DriverGoto("wait")
  /\ roundJob' = Append(roundJob, [round |-> driver.next, base |-> driver.base,
                                   weights |-> FALSE])
  /\ UNCHANGED <<runStatus, runUsage, roundRow, credited, resumes, eraser, purged>>
CommitWeights ==
  /\ driver.at = "wait" /\ DriverGoto("row")
  /\ roundJob' = [roundJob EXCEPT ![Len(roundJob)].weights = TRUE]
  /\ UNCHANGED <<runStatus, runUsage, roundRow, credited, resumes, eraser, purged>>

\* Mutant: the row is best-effort, as the contributions are.
InsertRowOrNot ==
  /\ driver.at = "row" /\ DriverGoto("credit")
  /\ roundRow' \in {roundRow, [roundRow EXCEPT ![driver.next] = Len(roundJob)]}
  /\ UNCHANGED <<runStatus, runUsage, roundJob, credited, resumes, eraser, purged>>

\* on_round: on conflict do nothing, then who took part, which may be lost.
InsertJobRound ==
  /\ driver.at = "row" /\ DriverGoto("credit")
  /\ roundRow' = [roundRow EXCEPT ![driver.next] = IF @ = 0 THEN Len(roundJob) ELSE @]
  /\ UNCHANGED <<runStatus, runUsage, roundJob, credited, resumes, eraser, purged>>
RecordContributions ==
  /\ driver.at = "credit"
  /\ credited' \in {credited, credited \cup {Len(roundJob)}}
  /\ driver' = [driver EXCEPT !.at = AfterRound(driver.next), !.next = @ + 1,
                              !.base = Len(roundJob)]
  /\ UNCHANGED <<runStatus, runUsage, roundRow, roundJob, resumes, eraser, purged>>
\* attempt_complete: a task the coordinator accepts is credited under its job,
\* whether or not the job's round is on record, or ever will be; best-effort too.
CreditAccepted(j) ==
  /\ credited' \in {credited, credited \cup {j}}
  /\ UNCHANGED <<runStatus, runUsage, roundRow, roundJob, driver, resumes, eraser,
                 purged>>

\* Whatever raises, a round that finds no quorum or a row that is not written,
\* ends the run; the status is best-effort.
DriverRaises ==
  /\ driver.at \in {"begin", "resume", "round", "wait", "row"} /\ DriverGoto("fail")
  /\ UNCHANGED <<runStatus, runUsage, roundRow, roundJob, credited, resumes,
                 eraser, purged>>
FinishRun ==
  /\ driver.at \in {"succeed", "fail"} /\ DriverGoto("measure")
  /\ runStatus' \in {runStatus, IF driver.at = "fail" THEN "FAILED" ELSE "SUCCEEDED"}
  /\ UNCHANGED <<runUsage, roundRow, roundJob, credited, resumes, eraser, purged>>

\* record_run_footprint: of the recorded rounds, once all are listed.
MeasureRun ==
  /\ driver.at = "measure"
  /\ driver' = IF RecordedJobs = {} THEN NoDriver
               ELSE [driver EXCEPT !.at = "measured", !.bytes =
                       Cardinality({j \in RecordedJobs : roundJob[j].weights})]
  /\ UNCHANGED <<runStatus, runUsage, roundRow, roundJob, credited, resumes,
                 eraser, purged>>
RecordRunFootprint ==
  /\ driver.at = "measured" /\ runUsage' = driver.bytes /\ driver' = NoDriver
  /\ UNCHANGED <<runStatus, roundRow, roundJob, credited, resumes, eraser, purged>>
DriverDies ==
  /\ driver.at # "none" /\ driver' = NoDriver
  /\ UNCHANGED <<runStatus, runUsage, roundRow, roundJob, credited, resumes,
                 eraser, purged>>

-----------------------------------------------------------------------------
\* delete_job_artifacts of a run: terminal by its row, then round by round.
AskDeleteRun ==
  /\ runStatus \in Finished /\ eraser.at = "none"
  /\ eraser' = [at |-> "erasing", targets |-> RecordedJobs]
  /\ UNCHANGED <<runStatus, runUsage, roundRow, roundJob, credited, driver,
                 resumes, purged>>
EraseRound(j) ==
  /\ j \in eraser.targets /\ eraser' = [eraser EXCEPT !.targets = @ \ {j}]
  /\ roundJob' = [roundJob EXCEPT ![j].weights = FALSE] /\ purged' = TRUE
  /\ UNCHANGED <<runStatus, runUsage, roundRow, credited, driver, resumes>>
RecordErased ==
  /\ eraser.at = "erasing" /\ eraser.targets = {}
  /\ eraser' = NoEraser /\ runUsage' = 0
  /\ UNCHANGED <<runStatus, roundRow, roundJob, credited, driver, resumes, purged>>
EraserFails ==
  /\ eraser.at = "erasing" /\ eraser' = NoEraser
  /\ UNCHANGED <<runStatus, runUsage, roundRow, roundJob, credited, driver,
                 resumes, purged>>

FedNext ==
  \/ SubmitFederated \/ OperatorResumes \/ DriverBegins \/ ResumeState
  \/ SubmitRound \/ CommitWeights \/ InsertJobRound \/ RecordContributions
  \/ DriverRaises \/ FinishRun \/ MeasureRun \/ RecordRunFootprint \/ DriverDies
  \/ AskDeleteRun \/ RecordErased \/ EraserFails
  \/ \E j \in DOMAIN roundJob : CreditAccepted(j) \/ EraseRound(j)

FedSpec == FedInit /\ [][FedNext]_fedVars

FedTypeOK ==
  /\ runStatus \in {"none", "PENDING", "RUNNING"} \cup Finished
  /\ roundRow \in [Round -> 0..Len(roundJob)]
  /\ credited \subseteq DOMAIN roundJob /\ eraser.targets \subseteq DOMAIN roundJob
  /\ driver.next \in 0..Rounds /\ driver.base \in 0..Len(roundJob)
  /\ runUsage \in 0..Rounds /\ resumes \in 0..Resumes /\ purged \in BOOLEAN

-----------------------------------------------------------------------------
\* A run that reads SUCCEEDED has a row for every round, whichever drivers died
\* or failed on the way.  Until its owner deletes its files the rows are one
\* training history: each names a job that started from the weights of the job
\* the row before it names, and whoever is credited, in a round on record or in
\* one that failed, worked on top of weights that are on record.
RowsAreOneHistory ==
  /\ runStatus = "SUCCEEDED" => 0 \notin {roundRow[r] : r \in Round}
  /\ \A r \in Round : roundRow[r] # 0 => roundJob[roundRow[r]].round = r
  /\ ~purged =>
       /\ \A r \in Round : roundRow[r] # 0 =>
            roundJob[roundRow[r]].base = IF r = 0 THEN 0 ELSE roundRow[r - 1]
       /\ \A j \in credited : roundJob[j].base \in RecordedJobs \cup {0}
=============================================================================

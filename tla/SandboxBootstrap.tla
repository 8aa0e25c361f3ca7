-------------------------- MODULE SandboxBootstrap --------------------------
(***************************************************************************)
(* Turning a sandbox into a node (sandbox_bootstrap.py): bootstrap_worker  *)
(* runs commands in it, one after the other, the worker it launches runs   *)
(* beside it, and every command may fail without having run or be given up *)
(* after it ran.  It may be called again on the same sandbox; only a       *)
(* caller whose failure left a worker running kills the sandbox instead.   *)
(***************************************************************************)
EXTENDS Naturals, Sequences, FiniteSets

CONSTANTS Calls, LaunchAttempts      \* bound: calls of bootstrap_worker
ASSUME BootAssumption == Calls \in Nat /\ LaunchAttempts \in Nat \ {0}

VARIABLES
  worker,      \* processes in the sandbox, by pid: how each stands
  told,        \* those sent a signal
  box,         \* its files: marker, credential, and the receipt's pid, 0 without
  boot,        \* the call under way: its step, its launches and its worker's pid
  calls, result,
  excused      \* history: a call went on over a live worker: it was not claiming,
               \* it could not be told to stop, a probe of it could not be read,
               \* or the caller came back to it
bootVars == <<worker, told, box, boot, calls, result, excused>>

Alive(w) == worker[w] # "dead"
BootIdle == [at |-> "idle", attempt |-> 0, pid |-> 0]

BootInit ==
  /\ worker = <<>> /\ told = {}
  /\ box = [marker |-> FALSE, credential |-> FALSE, receipt |-> 0]
  /\ boot = BootIdle /\ calls = 0 /\ result = "none" /\ excused = FALSE

BootGoto(where) == boot' = [boot EXCEPT !.at = where]
Returns(r) == result' = r /\ boot' = BootIdle

Running == \E w \in DOMAIN worker : Alive(w) /\ w \notin told

BootCall ==
  /\ boot.at = "idle" /\ calls < Calls
  /\ calls' = calls + 1 /\ BootGoto("receipt") /\ result' = "none"
  /\ excused' = (excused \/ (result = "error" /\ Running))
  /\ UNCHANGED <<worker, told, box>>

\* _existing_result: a receipt whose worker checks out ends the call.  Flat
\* counters or a lost coordinator make it start again, whether the worker is
\* alive or not; whether its log shows a fatal line is not asked.
Healthy(w) == Alive(w) /\ box.marker /\ worker[w] # "cut"
Reuse ==
  /\ boot.at = "receipt" /\ box.receipt # 0 /\ Healthy(box.receipt)
  /\ Returns("reused")
  /\ UNCHANGED <<worker, told, box, calls, excused>>
BootstrapAgain ==
  /\ boot.at = "receipt" /\ BootGoto("marker")
  /\ excused' = (excused \/ Running)
  /\ UNCHANGED <<worker, told, box, calls, result>>

\* The install, the directories, the node id and the marker, read back.
WriteMarker ==
  /\ boot.at = "marker" /\ BootGoto("credential")
  /\ box' = [box EXCEPT !.marker = TRUE]
  /\ UNCHANGED <<worker, told, calls, result, excused>>
WriteCredential ==
  /\ boot.at = "credential"
  /\ box' = [box EXCEPT !.credential = TRUE]
  /\ \/ BootGoto("launch") /\ UNCHANGED result
     \/ Returns("error")
  /\ UNCHANGED <<worker, told, calls, excused>>

\* The launch, once the coordinator was reachable from inside.
Launch ==
  /\ boot.at = "launch"
  /\ worker' = Append(worker, "starting")
  /\ \/ /\ boot' = [at |-> "await", attempt |-> boot.attempt + 1,
                    pid |-> Len(worker')]
        /\ UNCHANGED result
     \/ Returns("error")
  /\ UNCHANGED <<told, box, calls, excused>>

\* _kill_worker: told, or the command is lost and only a warning says so.
KillWorker ==
  \/ told' = told \cup {boot.pid} /\ UNCHANGED excused
  \/ excused' = TRUE /\ UNCHANGED told

\* Mutant: a worker that timed out is launched again.
RelaunchAnyway ==
  /\ boot.at = "await"
  /\ IF boot.attempt < LaunchAttempts THEN BootGoto("launch") /\ UNCHANGED result
     ELSE Returns("error")
  /\ UNCHANGED <<worker, told, box, calls, excused>>

\* _await_registration: survival with a log that never shows the coordinator
\* lost is taken for registration.  A worker that died, or was told to, is
\* launched again; so is one whose probe came back without an answer, for what
\* cannot be read does not say that it is alive.
Registered ==
  /\ boot.at = "await" /\ worker[boot.pid] \in {"starting", "registered"}
  /\ BootGoto("delete")
  /\ UNCHANGED <<worker, told, box, calls, result, excused>>
Relaunch ==
  /\ boot.at = "await"
  /\ \/ ~Alive(boot.pid) /\ UNCHANGED <<told, excused>>
     \/ worker[boot.pid] = "fatal" /\ KillWorker
     \/ Alive(boot.pid) /\ excused' = TRUE /\ UNCHANGED told
  /\ IF boot.attempt < LaunchAttempts THEN BootGoto("launch") /\ UNCHANGED result
     ELSE Returns("error")
  /\ UNCHANGED <<worker, box, calls>>
RegistrationTimesOut ==
  /\ boot.at = "await" /\ worker[boot.pid] \in {"starting", "cut", "mended"}
  /\ Returns("error")
  /\ UNCHANGED <<worker, told, box, calls, excused>>

\* Mutant: the file is taken to be gone.
DeleteUnchecked ==
  /\ boot.at = "delete" /\ BootGoto("capabilities")
  /\ box' \in {box, [box EXCEPT !.credential = FALSE]}
  /\ UNCHANGED <<worker, told, calls, result, excused>>
DeleteCredential ==
  /\ boot.at = "delete" /\ BootGoto("capabilities")
  /\ box' = [box EXCEPT !.credential = FALSE]
  /\ UNCHANGED <<worker, told, calls, result, excused>>
AssertNotSandboxCapable ==
  /\ boot.at = "capabilities" /\ BootGoto("write")
  /\ UNCHANGED <<worker, told, box, calls, result, excused>>
WriteReceipt ==
  /\ boot.at = "write"
  /\ box' = [box EXCEPT !.receipt = boot.pid] /\ Returns("prepared")
  /\ UNCHANGED <<worker, told, calls, excused>>

\* A command fails.  After registration the worker is killed before raising.
BootFails ==
  /\ boot.at # "idle" /\ Returns("error")
  /\ IF boot.at \in {"delete", "capabilities", "write"}
     THEN KillWorker ELSE UNCHANGED <<told, excused>>
  /\ UNCHANGED <<worker, box, calls>>

-----------------------------------------------------------------------------
\* The worker: it registers or exits, loses the coordinator and finds it again
\* (its log keeps the line), logs a traceback, dies, obeys a signal.
WorkerStep(w) ==
  /\ \/ worker[w] = "starting" /\ worker' = [worker EXCEPT ![w] = "registered"]
     \/ worker[w] \in {"registered", "mended"} /\ worker' = [worker EXCEPT ![w] = "cut"]
     \/ worker[w] = "cut" /\ worker' = [worker EXCEPT ![w] = "mended"]
     \/ worker[w] \notin {"fatal", "dead"} /\ worker' = [worker EXCEPT ![w] = "fatal"]
     \/ Alive(w) /\ worker' = [worker EXCEPT ![w] = "dead"]
  /\ UNCHANGED <<told, box, boot, calls, result, excused>>

BootNext ==
  \/ BootCall \/ Reuse \/ BootstrapAgain \/ WriteMarker \/ WriteCredential
  \/ Launch \/ Registered \/ Relaunch \/ RegistrationTimesOut
  \/ DeleteCredential \/ AssertNotSandboxCapable \/ WriteReceipt \/ BootFails
  \/ \E w \in DOMAIN worker : WorkerStep(w)

BootSpec == BootInit /\ [][BootNext]_bootVars

BootTypeOK ==
  /\ worker \in Seq({"starting", "registered", "cut", "mended", "fatal", "dead"})
  /\ told \subseteq DOMAIN worker
  /\ box \in [marker : BOOLEAN, credential : BOOLEAN, receipt : 0..Len(worker)]
  /\ boot.pid \in 0..Len(worker) /\ boot.attempt \in 0..LaunchAttempts
  /\ result \in {"none", "prepared", "reused", "error"}

-----------------------------------------------------------------------------
\* At most one worker runs under the node id that has not been told to stop, and
\* a result names it and leaves no credential on the sandbox's disk: whatever
\* command failed, unrun or after it ran, and wherever workers died, broke or lost
\* the coordinator.  A call goes on over a live worker in four cases: a receipt's
\* worker that is alive and not claiming, a broken one whose signal is lost, one
\* whose probe could not be read, and one left by a call the caller repeats.
OneWorkerNoCredential ==
  excused \/
    /\ Cardinality({w \in DOMAIN worker : Alive(w) /\ w \notin told}) <= 1
    /\ result \in {"prepared", "reused"} =>
         /\ ~box.credential /\ box.marker /\ box.receipt # 0
         /\ \A w \in DOMAIN worker : Alive(w) => w = box.receipt \/ w \in told
=============================================================================

---------------------------- MODULE SandboxSession ----------------------------
(***************************************************************************)
(* One evaluation session in a rented FC sandbox (sandbox_orchestrator.py  *)
(* over sandbox_sessions.py, sandbox_identity.py and alibaba_sandbox.py):  *)
(* its row, the sandbox at the provider, the machine credential minted for *)
(* it and the evaluation jobs placed with the coordinator.                 *)
(*                                                                         *)
(* Who moves: start_session ("start"), the reconciler of the API ("sweep") *)
(* and requests, one after another in each slot of Request: an             *)
(* on_model_ready in the background or the owner's cleanup.  All of them   *)
(* await between statements, so a step is one statement or one gateway     *)
(* call.  A gateway call given up at its timeout stays in its thread and   *)
(* may still apply (late).                                                 *)
(***************************************************************************)
EXTENDS Naturals

CONSTANTS
  Request,             \* concurrent POST .../model-ready and POST .../cleanup
  MaxFaults,           \* bound: failed or abandoned calls of one behaviour
  MaxCrashes,          \* bound: actors that die half-way
  MaxJobs              \* bound: evaluation jobs the coordinator is asked for

ASSUME SandboxAssumption ==
  /\ MaxFaults \in Nat /\ MaxCrashes \in Nat /\ MaxJobs \in Nat
  /\ Request \cap {"start", "sweep"} = {}

Actor == Request \cup {"start", "sweep"}

VARIABLES
  row,      \* sandbox_sessions: state and the fill-in-only columns
  box,      \* the sandbox: "NONE" until created
  late,     \* calls abandoned at their timeout whose thread still runs
  cred,     \* the machine token: "none", "active", "revoked"
  unrevoked,\* history: a revocation failed, or looking up the machine did
  jobs,     \* how many evaluation jobs the coordinator has taken
  noted,    \* the evaluation.submitted event of the ledger: a job, 0 if none
  pc, loc,  \* of each actor: where it is, and what it read
  blind,    \* history: two controllers drove at once, or a listing failed
  early,    \* history: the row was closed by a cleanup that had read it before
            \* start_session filled it in
  faults, crashes
vars == <<row, box, late, cred, unrevoked, jobs, noted, pc, loc, blind, early, faults,
          crashes>>
world == <<late, cred, unrevoked, jobs, noted, blind, early>>

States   == {"REQUESTED", "ACTIVE", "PREPARED", "HIBERNATED", "RESUMING",
             "EVALUATING", "SUCCEEDED", "FAILED", "TERMINATED"}
Terminal == {"TERMINATED"}
Settled  == {"SUCCEEDED", "FAILED", "TERMINATED"}
Transient == {"REQUESTED", "ACTIVE", "PREPARED", "RESUMING", "EVALUATING"}
Attempts == 2          \* PAUSE_ATTEMPTS, WAKE_ATTEMPTS, KILL_ATTEMPTS

\* What a gateway call makes of the sandbox, and where its caller goes next.
Target  == [pause |-> "PAUSED", connect |-> "RUNNING", kill |-> "TERMINATED"]
Success == [pause |-> "hibernate", connect |-> "verify", kill |-> "revoke"]
Giveup  == [pause |-> "fail", connect |-> "fail", kill |-> "revoke"]
Settle  == [pause |-> "settle_pause", connect |-> "settle_connect",
            kill |-> "settle_kill"]
Alive   == box \in {"RUNNING", "PAUSED"}
\* Where start_session has yet to fill in the row.
StartUnrecorded == {"idle", "mint", "create", "record"}

Nowhere == [state |-> "none", machine |-> FALSE, killed |-> FALSE, tries |-> 0,
            resuming |-> FALSE, job |-> 0, seen |-> "none", stale |-> FALSE,
            early |-> FALSE]

Init ==
  /\ row = [state |-> "none", sandbox |-> FALSE, marker |-> FALSE, job |-> 0]
  /\ box = "NONE" /\ late = {} /\ cred = "none" /\ unrevoked = FALSE
  /\ jobs = 0 /\ noted = 0
  /\ pc = [a \in Actor |-> "idle"] /\ loc = [a \in Actor |-> Nowhere]
  /\ blind = FALSE /\ early = FALSE /\ faults = 0 /\ crashes = 0

-----------------------------------------------------------------------------
Goto(a, where) == pc' = [pc EXCEPT ![a] = where]
Forget(a) == loc' = [loc EXCEPT ![a] = Nowhere]
\* A task that ends keeps nothing; the reconciler comes round again, and so
\* does whoever polls.
Return(a) == /\ Goto(a, IF a = "start" THEN "done" ELSE "idle")
             /\ loc' = [loc EXCEPT ![a] = Nowhere]
Fault == faults < MaxFaults /\ faults' = faults + 1

\* sandbox_sessions.transition: one statement checks the state and moves it.
Transition(from, to) == row.state = from /\ row' = [row EXCEPT !.state = to]
Lost(from) == row.state # from /\ UNCHANGED row

Driving(c) == pc[c] \in {"connect", "settle_connect", "verify", "resumed",
                         "deliver", "lookup", "list", "post", "note",
                         "evaluate"}

-----------------------------------------------------------------------------
(* start_session.                                                          *)
CreateSession ==
  /\ pc["start"] = "idle" /\ row.state = "none"
  /\ row' = [row EXCEPT !.state = "REQUESTED"]
  /\ Goto("start", "mint")
  /\ UNCHANGED <<box, world, loc, faults, crashes>>

\* The pool must be empty; the machine, its binding and its token are one
\* transaction.
Mint ==
  /\ pc["start"] = "mint"
  /\ \/ cred' = "active" /\ Goto("start", "create") /\ UNCHANGED faults
     \/ Fault /\ Goto("start", "fail") /\ UNCHANGED cred
  /\ UNCHANGED <<row, box, late, unrevoked, jobs, noted, loc,
                 blind, early, crashes>>

\* One attempt.  Abandoned at its timeout, it has no id to ask about.
Create ==
  /\ pc["start"] = "create"
  /\ \/ /\ box' = "RUNNING" /\ Goto("start", "record")
        /\ \/ loc' = [loc EXCEPT !["start"].seen = "RUNNING"] /\ UNCHANGED faults
           \/ loc' = [loc EXCEPT !["start"].seen = "UNKNOWN"] /\ Fault
        /\ UNCHANGED late
     \/ Fault /\ Goto("start", "fail") /\ UNCHANGED <<box, late, loc>>
     \/ Fault /\ late' = late \cup {"create"} /\ Goto("start", "fail")
        /\ UNCHANGED <<box, loc>>
  /\ UNCHANGED <<row, cred, unrevoked, jobs, noted, blind, early,
                 crashes>>

Record ==
  /\ pc["start"] = "record"
  /\ \/ /\ row.state = "REQUESTED"
        /\ row' = [row EXCEPT !.state = "ACTIVE", !.sandbox = TRUE]
        /\ Goto("start", IF loc["start"].seen = "RUNNING"
                         THEN "bootstrap" ELSE "fail")
     \/ Lost("REQUESTED") /\ Goto("start", "fail")
  /\ Forget("start")
  /\ UNCHANGED <<box, world, faults, crashes>>

\* bootstrap_worker: commands in the sandbox, then the marker it left there.
Bootstrap ==
  /\ pc["start"] = "bootstrap"
  /\ \/ Alive /\ box' = "RUNNING" /\ Goto("start", "prepared")
        /\ UNCHANGED faults
     \/ ~Alive /\ Goto("start", "fail") /\ UNCHANGED <<box, faults>>
     \/ Fault /\ Goto("start", "fail") /\ UNCHANGED box
  /\ UNCHANGED <<row, world, loc, crashes>>

\* Then _assert_budget: no pause of a sandbox that cannot outlast the wait.
Prepared ==
  /\ pc["start"] = "prepared"
  /\ \/ /\ row.state = "ACTIVE"
        /\ row' = [row EXCEPT !.state = "PREPARED", !.marker = TRUE]
        /\ loc' = [loc EXCEPT !["start"].tries = 1]
        /\ \/ Goto("start", "pause") /\ UNCHANGED faults
           \/ Goto("start", "fail") /\ Fault
     \/ Lost("ACTIVE") /\ Goto("start", "fail") /\ UNCHANGED <<loc, faults>>
  /\ UNCHANGED <<box, world, crashes>>

Hibernate ==
  /\ pc["start"] = "hibernate"
  /\ \/ Transition("PREPARED", "HIBERNATED") /\ Return("start")
     \/ Lost("PREPARED") /\ Goto("start", "fail") /\ UNCHANGED loc
  /\ UNCHANGED <<box, world, faults, crashes>>

StartNext == \/ CreateSession \/ Mint \/ Create \/ Record \/ Bootstrap
             \/ Prepared \/ Hibernate

-----------------------------------------------------------------------------
(* _pause_sandbox, _wake_sandbox and _kill_sandbox: at most two calls, and *)
(* nothing is believed but what was seen after one.                        *)
Again(a, op) ==
  IF loc[a].tries < Attempts
  THEN /\ Goto(a, op) /\ loc' = [loc EXCEPT ![a].tries = @ + 1]
  ELSE /\ Goto(a, Giveup[op]) /\ loc' = [loc EXCEPT ![a].tries = 0]
Through(a, op) ==
  /\ Goto(a, Success[op])
  /\ loc' = [loc EXCEPT ![a].tries = 0, ![a].killed = op = "kill"]

\* The call applied.  pause and connect then read the sandbox; a read that
\* fails leaves its state unknown, which is not the state that was wanted.
CallApplies(a, op) ==
  /\ pc[a] = op /\ Alive
  /\ box' = Target[op]
  /\ \/ Through(a, op) /\ UNCHANGED faults
     \/ op # "kill" /\ Fault /\ Again(a, op)
  /\ UNCHANGED <<row, world, crashes>>

\* No such sandbox: confirmation for a kill, a final error for the others.
CallFindsNothing(a, op) ==
  /\ pc[a] = op /\ ~Alive
  /\ IF op = "kill" THEN Through(a, op)
     ELSE Goto(a, Giveup[op]) /\ loc' = [loc EXCEPT ![a].tries = 0]
  /\ UNCHANGED <<row, box, world, faults, crashes>>

\* Refused outright: a terminal error is not retried, a rate limit is.
CallRefused(a, op) ==
  /\ pc[a] = op /\ Fault
  /\ \/ Again(a, op)
     \/ Goto(a, Giveup[op]) /\ loc' = [loc EXCEPT ![a].tries = 0]
  /\ UNCHANGED <<row, box, world, crashes>>

CallAbandoned(a, op) ==
  /\ pc[a] = op /\ Fault
  /\ late' = late \cup {op} /\ Goto(a, Settle[op])
  /\ UNCHANGED <<row, box, cred, unrevoked, jobs, noted, loc,
                 blind, early, crashes>>

\* Mutant: a call that timed out is believed to have applied.
BelieveAfter(a, op) ==
  /\ pc[a] = Settle[op] /\ Through(a, op)
  /\ UNCHANGED <<row, box, world, faults, crashes>>

\* _settle_after: go and look.
SettleAfter(a, op) ==
  /\ pc[a] = Settle[op]
  /\ \/ box = Target[op] /\ Through(a, op) /\ UNCHANGED faults
     \/ box # Target[op] /\ Again(a, op) /\ UNCHANGED faults
     \/ Fault /\ Again(a, op)
  /\ UNCHANGED <<row, box, world, crashes>>

GatewayNext(a) ==
  \E op \in DOMAIN Target :
    \/ CallApplies(a, op) \/ CallFindsNothing(a, op) \/ CallRefused(a, op)
    \/ CallAbandoned(a, op) \/ SettleAfter(a, op)

-----------------------------------------------------------------------------
(* _fail, then cleanup_session.                                            *)
Fail(a) ==
  /\ pc[a] = "fail"
  /\ IF row.state \in Terminal \cup {"FAILED"}
     THEN Goto(a, "cleanup") /\ Forget(a)
     ELSE /\ Goto(a, "mark")
          /\ loc' = [loc EXCEPT ![a] = [Nowhere EXCEPT !.state = row.state]]
  /\ UNCHANGED <<row, box, world, faults, crashes>>

MarkFailed(a) ==
  /\ pc[a] = "mark"
  /\ \/ Transition(loc[a].state, "FAILED")
     \/ Lost(loc[a].state)
  /\ Goto(a, "cleanup") /\ Forget(a)
  /\ UNCHANGED <<box, world, faults, crashes>>

\* Mutants: the sandbox is taken for destroyed before the call that does it;
\* the machine is looked for only where a sandbox was recorded.
CleanupAssumed(a) ==
  /\ pc[a] = "cleanup" /\ row.state \notin Terminal
  /\ loc' = [loc EXCEPT ![a] = [Nowhere EXCEPT
               !.machine = cred # "none", !.killed = TRUE,
               !.tries = IF row.sandbox THEN 1 ELSE 0]]
  /\ Goto(a, IF row.sandbox THEN "kill" ELSE "revoke")
  /\ UNCHANGED <<row, box, world, faults, crashes>>
CleanupByRow(a) ==
  /\ pc[a] = "cleanup" /\ row.state \notin Terminal
  /\ loc' = [loc EXCEPT ![a] = [Nowhere EXCEPT
               !.machine = row.sandbox, !.killed = ~row.sandbox,
               !.tries = IF row.sandbox THEN 1 ELSE 0]]
  /\ Goto(a, IF row.sandbox THEN "kill" ELSE "revoke")
  /\ UNCHANGED <<row, box, world, faults, crashes>>

\* The machine is the row's, which the transition that records the sandbox
\* fills in, or the one under the session's node id; a lookup that raises reads
\* as no machine.  Without a sandbox in the row there is nothing to kill.
Cleanup(a) ==
  /\ pc[a] = "cleanup" /\ row.state \notin Terminal
  /\ \E found \in BOOLEAN :
       /\ loc' = [loc EXCEPT ![a] = [Nowhere EXCEPT
                    !.machine = found, !.killed = ~row.sandbox,
                    !.tries = IF row.sandbox THEN 1 ELSE 0,
                    !.early = pc["start"] \in StartUnrecorded]]
       /\ \/ found = (cred # "none") /\ UNCHANGED <<unrevoked, faults>>
          \/ ~row.sandbox /\ ~found /\ Fault /\ unrevoked' = TRUE
  /\ Goto(a, IF row.sandbox THEN "kill" ELSE "revoke")
  /\ UNCHANGED <<row, box, late, cred, jobs, noted, blind, early, crashes>>

CleanupOver(a) ==
  /\ pc[a] = "cleanup" /\ row.state \in Terminal
  /\ Return(a)
  /\ UNCHANGED <<row, box, world, faults, crashes>>

\* In a finally: it is tried whatever became of the kill.  The event of a
\* revocation that failed is itself written only if the ledger can be.
Revoke(a) ==
  /\ pc[a] = "revoke"
  /\ \/ /\ cred' = IF loc[a].machine THEN "revoked" ELSE cred
        /\ UNCHANGED <<unrevoked, faults>>
     \/ loc[a].machine /\ Fault /\ unrevoked' = TRUE /\ UNCHANGED cred
  /\ IF loc[a].killed
     THEN /\ Goto(a, "close")
          /\ loc' = [loc EXCEPT ![a] = [Nowhere EXCEPT !.early = loc[a].early]]
     ELSE Return(a)
  /\ UNCHANGED <<row, box, late, jobs, noted, blind, early, crashes>>

Close(a) ==
  /\ pc[a] = "close"
  /\ IF row.state \in Terminal THEN Return(a)
     ELSE Goto(a, "terminate") /\ loc' = [loc EXCEPT ![a].state = row.state]
  /\ UNCHANGED <<row, box, world, faults, crashes>>

Terminate(a) ==
  /\ pc[a] = "terminate"
  /\ \/ Transition(loc[a].state, "TERMINATED") /\ early' = loc[a].early
     \/ Lost(loc[a].state) /\ UNCHANGED early
  /\ Return(a)
  /\ UNCHANGED <<box, late, cred, unrevoked, jobs, noted, blind, faults, crashes>>

CleanupNext(a) == \/ Fail(a) \/ MarkFailed(a) \/ Cleanup(a) \/ CleanupOver(a)
                  \/ Revoke(a) \/ Close(a) \/ Terminate(a)

-----------------------------------------------------------------------------
(* on_model_ready.                                                         *)
\* A controller died half-way through a wake.  An ACTIVE row without a marker
\* is one that start_session is still building.  Mutant: either will do.
WakesAnyActive == row.state \in {"RESUMING", "ACTIVE"}
Wakes == row.state = "RESUMING" \/ (row.state = "ACTIVE" /\ row.marker)

ModelReady(c) ==
  /\ pc[c] = "idle" /\ row.state # "none"
  /\ IF row.sandbox /\ (Wakes \/ row.state \in {"EVALUATING", "HIBERNATED"})
     THEN /\ loc' = [loc EXCEPT ![c].resuming = row.state # "ACTIVE",
                                ![c].tries = 1]
          /\ Goto(c, CASE row.state = "EVALUATING" -> "join"
                       [] row.state = "HIBERNATED" -> "head"
                       [] OTHER -> "connect")
          /\ blind' = (blind \/ (Wakes /\ \E d \in Request : Driving(d)))
     ELSE Return(c) /\ UNCHANGED blind
  /\ UNCHANGED <<row, box, late, cred, unrevoked, jobs, noted, early,
                 faults, crashes>>

\* oss.head: the trained artifact is there, or not yet (nothing moves, and the
\* next poll asks again).
HeadModel(c) ==
  /\ pc[c] = "head"
  /\ \/ Goto(c, "claim") /\ UNCHANGED loc
     \/ Return(c)
  /\ UNCHANGED <<row, box, world, faults, crashes>>

Claim(c) ==
  /\ pc[c] = "claim"
  /\ \/ Transition("HIBERNATED", "RESUMING") /\ Goto(c, "connect")
        /\ UNCHANGED loc
     \/ Lost("HIBERNATED") /\ Return(c)
  /\ UNCHANGED <<box, world, faults, crashes>>

\* verify_worker runs a command, and a command wakes a paused sandbox.
Verify(c) ==
  /\ pc[c] = "verify"
  /\ \/ Alive /\ box' = "RUNNING" /\ UNCHANGED faults
        /\ Goto(c, IF loc[c].resuming THEN "resumed" ELSE "deliver")
     \/ ~Alive /\ Goto(c, "fail") /\ UNCHANGED <<box, faults>>
     \/ Fault /\ Goto(c, "fail") /\ UNCHANGED box
  /\ Forget(c)
  /\ UNCHANGED <<row, world, crashes>>

Resumed(c) ==
  /\ pc[c] = "resumed"
  /\ \/ Transition("RESUMING", "ACTIVE") /\ Goto(c, "deliver")
        /\ UNCHANGED loc
     \/ Lost("RESUMING") /\ Return(c)
  /\ UNCHANGED <<box, world, faults, crashes>>

\* Presigned URLs written into the sandbox and seen there.
Deliver(c) ==
  /\ pc[c] = "deliver"
  /\ \/ Alive /\ box' = "RUNNING" /\ Goto(c, "lookup") /\ UNCHANGED faults
     \/ ~Alive /\ Goto(c, "fail") /\ UNCHANGED <<box, faults>>
     \/ Fault /\ Goto(c, "fail") /\ UNCHANGED box
  /\ UNCHANGED <<row, world, loc, crashes>>

\* The job of the row, else of the ledger.
Lookup(c) ==
  /\ pc[c] = "lookup"
  /\ LET known == IF row.job # 0 THEN row.job ELSE noted
     IN /\ loc' = [loc EXCEPT ![c].job = known]
        /\ Goto(c, IF known # 0 THEN "evaluate" ELSE "list")
  /\ UNCHANGED <<row, box, world, faults, crashes>>

\* Mutant: submits without asking what the coordinator has.
ListNothing(c) ==
  /\ pc[c] = "list" /\ Goto(c, "post")
  /\ UNCHANGED <<row, box, world, loc, faults, crashes>>

\* CoordinatorEvaluationDriver.submit: a job of the session's name, if the
\* coordinator lists one; a listing that fails reads like an empty one.
List(c) ==
  /\ pc[c] = "list"
  /\ \/ /\ jobs > 0 /\ loc' = [loc EXCEPT ![c].job = 1]
        /\ Goto(c, "note") /\ UNCHANGED <<blind, faults>>
     \/ jobs = 0 /\ Goto(c, "post") /\ UNCHANGED <<loc, blind, faults>>
     \/ Fault /\ blind' = TRUE /\ Goto(c, "post") /\ UNCHANGED loc
  /\ UNCHANGED <<row, box, late, cred, unrevoked, jobs, noted, early,
                 crashes>>

\* Accepted; accepted with the answer lost; or refused.
Post(c) ==
  /\ pc[c] = "post" /\ jobs < MaxJobs
  /\ \/ /\ jobs' = jobs + 1
        /\ loc' = [loc EXCEPT ![c].job = jobs + 1]
        /\ Goto(c, "note") /\ UNCHANGED faults
     \/ /\ Fault /\ Goto(c, "fail") /\ UNCHANGED loc
        /\ jobs' \in {jobs, jobs + 1}
  /\ UNCHANGED <<row, box, late, cred, unrevoked, noted, blind, early,
                 crashes>>

\* A ledger write that fails is dropped.
Note(c) ==
  /\ pc[c] = "note"
  /\ \/ noted' = (IF noted = 0 THEN loc[c].job ELSE noted) /\ UNCHANGED faults
     \/ Fault /\ UNCHANGED noted
  /\ Goto(c, "evaluate")
  /\ UNCHANGED <<row, box, late, cred, unrevoked, jobs, loc,
                 blind, early, crashes>>

Evaluate(c) ==
  /\ pc[c] = "evaluate"
  /\ \/ /\ row.state = "ACTIVE"
        /\ row' = [row EXCEPT !.state = "EVALUATING", !.job = loc[c].job]
        /\ Goto(c, "await") /\ Forget(c)
     \/ Lost("ACTIVE") /\ Return(c)
  /\ UNCHANGED <<box, world, faults, crashes>>

\* A bounded wait: the verdict, or the deadline, or a driver that raises (which
\* a call that joined an evaluation under way does not turn into a failure).
Await(c) ==
  /\ pc[c] \in {"await", "join"}
  /\ \/ Goto(c, "accept") /\ Forget(c) /\ UNCHANGED faults
     \/ Goto(c, "fail") /\ Forget(c) /\ UNCHANGED faults
     \/ pc[c] = "join" /\ Fault /\ Return(c)
  /\ UNCHANGED <<row, box, world, crashes>>

Accept(c) ==
  /\ pc[c] = "accept"
  /\ \/ Transition("EVALUATING", "SUCCEEDED") \/ Lost("EVALUATING")
  /\ Goto(c, "cleanup")
  /\ UNCHANGED <<box, world, loc, faults, crashes>>

ControllerNext(c) ==
  \/ ModelReady(c) \/ HeadModel(c) \/ Claim(c) \/ Verify(c) \/ Resumed(c)
  \/ Deliver(c) \/ Lookup(c) \/ List(c) \/ Post(c) \/ Note(c) \/ Evaluate(c)
  \/ Await(c) \/ Accept(c)

-----------------------------------------------------------------------------
(* reconcile: rows that own a sandbox, judged as they were listed.         *)
Unfinished == row.sandbox /\ row.state \notin Terminal

\* Not moved for an hour (stale_after_s): whoever drove it is gone.
Abandoned == /\ row.state \in Transient
             /\ \A a \in Actor \ {"sweep"} : pc[a] \in {"idle", "done"}

SweepLists ==
  /\ pc["sweep"] = "idle" /\ Unfinished
  /\ \E old \in {FALSE} \cup {x \in {TRUE} : Abandoned} :
       loc' = [loc EXCEPT !["sweep"].seen = row.state, !["sweep"].stale = old]
  /\ Goto("sweep", "inspect")
  /\ UNCHANGED <<row, box, world, faults, crashes>>

\* Mutant: a run that is over is nobody's business any more.
SweepJudgesUnfinished ==
  /\ pc["sweep"] = "inspect"
  /\ Goto("sweep", IF loc["sweep"].seen \in Settled THEN "idle"
                   ELSE IF ~Alive \/ loc["sweep"].stale THEN "fail" ELSE "idle")
  /\ Forget("sweep")
  /\ UNCHANGED <<row, box, world, faults, crashes>>

\* Past its deadline, or stale, or gone, and the run not over: failed.  The run
\* over and the sandbox still listed: killed.
SweepJudges ==
  /\ pc["sweep"] = "inspect"
  /\ LET was    == loc["sweep"].seen
         paused == was = "PREPARED" /\ box = "PAUSED"
     IN \/ was \in Settled /\ Goto("sweep", "cleanup") /\ UNCHANGED faults
        \/ /\ was \notin Settled /\ (~Alive \/ loc["sweep"].stale)
           /\ Goto("sweep", "fail") /\ UNCHANGED faults
        \/ /\ was \notin Settled /\ Alive /\ ~loc["sweep"].stale
           /\ Goto("sweep", IF paused THEN "catchup" ELSE "idle")
           /\ UNCHANGED faults
        \/ Fault /\ Goto("sweep", "idle")
  /\ Forget("sweep")
  /\ UNCHANGED <<row, box, world, crashes>>

SweepExpires ==
  /\ pc["sweep"] = "inspect" /\ loc["sweep"].seen \notin Settled /\ Alive
  /\ Goto("sweep", "fail") /\ Forget("sweep")
  /\ UNCHANGED <<row, box, world, faults, crashes>>

\* A pause that applied while its answer was lost.
SweepCatchesUp ==
  /\ pc["sweep"] = "catchup"
  /\ \/ Transition("PREPARED", "HIBERNATED") \/ Lost("PREPARED")
  /\ Return("sweep")
  /\ UNCHANGED <<box, world, faults, crashes>>

OwnerCleansUp(q) ==
  /\ pc[q] = "idle" /\ row.state # "none"
  /\ Goto(q, "cleanup")
  /\ UNCHANGED <<row, box, world, loc, faults, crashes>>

-----------------------------------------------------------------------------
(* The world: threads that outlive their await, the provider, and the      *)
(* death of whoever was driving.                                           *)
LateCall(op) ==
  /\ op \in late /\ late' = late \ {op}
  /\ box' = CASE op = "create" -> "RUNNING"
              [] op # "create" /\ Alive -> Target[op]
              [] OTHER -> box
  /\ UNCHANGED <<row, cred, unrevoked, jobs, noted, pc, loc, blind, early,
                 faults, crashes>>

\* The provider takes a sandbox back at its deadline.
Reclaim ==
  /\ Alive /\ box' = "TERMINATED"
  /\ UNCHANGED <<row, world, pc, loc, faults, crashes>>

Crash(a) ==
  /\ pc[a] \notin {"idle", "done"} /\ crashes < MaxCrashes
  /\ crashes' = crashes + 1
  /\ Return(a)
  /\ UNCHANGED <<row, box, world, faults>>

Next ==
  \/ StartNext
  \/ \E a \in Actor : GatewayNext(a) \/ CleanupNext(a) \/ Crash(a)
  \/ \E q \in Request : ControllerNext(q) \/ OwnerCleansUp(q)
  \/ SweepLists \/ SweepJudges \/ SweepExpires \/ SweepCatchesUp
  \/ \E op \in late : LateCall(op)
  \/ Reclaim

Spec == Init /\ [][Next]_vars

\* The reconciler is a task of the API that restarts with it and sweeps on a
\* timer, and a sandbox's deadline passes.  Nobody else need ever move.
SweepStep == \/ SweepLists \/ SweepJudges \/ SweepExpires \/ SweepCatchesUp
             \/ GatewayNext("sweep") \/ CleanupNext("sweep")
FairSpec == Spec /\ WF_vars(SweepStep) /\ SF_vars(SweepExpires)

-----------------------------------------------------------------------------
(* Types.                                                                  *)
PlaceOf == {"idle", "done", "mint", "create", "record", "bootstrap", "prepared",
            "hibernate", "fail", "mark", "cleanup", "revoke", "close",
            "terminate", "head", "claim", "verify", "resumed", "deliver",
            "lookup", "list", "post", "note", "evaluate", "await", "join",
            "accept", "inspect", "catchup"}
           \cup DOMAIN Target \cup {Settle[op] : op \in DOMAIN Target}
Local == [state : States \cup {"none"}, machine : BOOLEAN, killed : BOOLEAN,
          tries : 0..Attempts, resuming : BOOLEAN, job : Nat,
          seen : States \cup {"none", "RUNNING", "UNKNOWN"}, stale : BOOLEAN,
          early : BOOLEAN]
TypeOK ==
  /\ row \in [state : States \cup {"none"}, sandbox : BOOLEAN,
              marker : BOOLEAN, job : Nat]
  /\ box \in {"NONE", "RUNNING", "PAUSED", "TERMINATED"}
  /\ late \in SUBSET {"create", "pause", "connect", "kill"}
  /\ cred \in {"none", "active", "revoked"}
  /\ unrevoked \in BOOLEAN /\ blind \in BOOLEAN /\ early \in BOOLEAN
  /\ jobs \in Nat /\ noted \in Nat
  /\ pc \in [Actor -> PlaceOf] /\ loc \in [Actor -> Local]
  /\ faults \in Nat /\ crashes \in Nat

-----------------------------------------------------------------------------
(* Safety.                                                                 *)

SandboxGone  == row.sandbox => ~Alive
TokenRevoked == cred = "active" => unrevoked

\* A TERMINATED row is a promise, for it is swept no more: its sandbox is not
\* running, where it would bill until its own deadline, and the token minted for
\* the session is revoked, unless revoking it failed or its machine could not be
\* looked up.  Not promised of a row cleaned up while start_session had yet to
\* fill it in: what that cleanup took for absent can still be made.
TerminatedIsOver ==
  row.state = "TERMINATED" /\ ~early => SandboxGone /\ TokenRevoked

\* HIBERNATED is written on a sighting, never because pause() returned: while
\* the row says it, the sandbox is not on billed time, whatever calls were
\* abandoned, retried or applied late, and whichever of start_session and the
\* reconciler wrote it.
HibernatedIsNotBilled == row.state = "HIBERNATED" => box # "RUNNING"

\* A controller that died between submitting the evaluation and recording it is
\* followed by one that finds the job: a second one takes two controllers
\* driving at once, or a listing that failed.
OneEvaluation == jobs > 1 => blind

\* The row moves along the lifecycle of sandbox_sessions.py and no other way, its
\* columns are filled in once and never cleared, the job it names is one that the
\* coordinator has, and none was asked for before the sandbox was prepared,
\* whichever actors race, die half-way or act on what they read before an await.
Lifecycle == INSTANCE SessionBook WITH state <- row.state, recorded <- row.sandbox,
               prepared <- row.marker, job <- row.job, asked <- jobs,
               awake <- box = "RUNNING"
KeepsSessionBook == Lifecycle!Spec

\* Calling on_model_ready twice produces one evaluation job.
OneEvaluationJob == jobs <= 1

\* Every sandbox a session ever recorded is in the end killed and its row
\* closed, with nobody watching and every controller free to stop anywhere: but
\* for a row closed by a cleanup that came before the sandbox was recorded.
SandboxEndsGone ==
  row.sandbox ~> (row.state = "TERMINATED" /\ (box = "TERMINATED" \/ early))
=============================================================================

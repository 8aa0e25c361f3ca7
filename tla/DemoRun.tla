------------------------------ MODULE DemoRun ------------------------------
(***************************************************************************)
(* The public demo (demo.py and its routes in app.py): buttons anybody may *)
(* press, each at most one run at a time; reads of the page that write     *)
(* down what they see end, and write off a run past its age.  Every await  *)
(* of a handler is a place where another handler may move.                 *)
(***************************************************************************)
EXTENDS Deployment, Naturals, Sequences

CONSTANTS
  Buttons,          \* one for each coordinator of the one spec, and "guest"
  MaxDemoRuns       \* runs ever started
ASSUME DemoAssumption == MaxDemoRuns \in Nat

VARIABLES
  runs,             \* the rows of demo jobs in the order of their creation
  demoCaller,       \* where each handler is (the end it is about to write
                    \* down, when it heard of one), and what it read
  configured        \* the buttons whose owner and pool exist
demoVars == <<runs, demoCaller, configured>>

Ended == {"SUCCEEDED", "CANCELLED"}
DemoCallerIdle ==
  [at |-> "idle", button |-> "none", press |-> FALSE, run |-> 0, seen |-> 0]

DemoInit ==
  /\ runs = <<>> /\ demoCaller = [p \in Process |-> DemoCallerIdle]
  /\ configured = {}

\* run_for_venue and guest_run: the newest row of the button, or 0.
IsLatest(i, button) ==
  /\ i # 0 => runs[i].button = button
  /\ \A k \in (i + 1)..Len(runs) : runs[k].button # button
DemoGoto(p, at) ==
  demoCaller' = [demoCaller EXCEPT ![p] =
                   IF at = "idle" THEN DemoCallerIdle ELSE [@ EXCEPT !.at = at]]
Write(i, status) == runs' = [runs EXCEPT ![i].row = status]
\* After the refresh a press goes on to submit, and a read of the page is over.
AfterEnd(p) == IF demoCaller[p].press THEN "submit" ELSE "idle"

-----------------------------------------------------------------------------
(* public_demo_run, public_demo_run_mine and public_demo.                  *)

Begun(button, press, at, i) ==
  [at |-> at, button |-> button, press |-> press, run |-> i, seen |-> Len(runs)]
PressUnread(p, button) ==
  /\ demoCaller[p].at = "idle"
  /\ demoCaller' = [demoCaller EXCEPT ![p] = Begun(button, TRUE, "submit", 0)]
  /\ UNCHANGED <<runs, configured>>
Press(p, button) ==
  /\ demoCaller[p].at = "idle"
  /\ \E i \in 0..Len(runs) :
       /\ IsLatest(i, button)
       /\ demoCaller' = [demoCaller EXCEPT ![p] =
            Begun(button, TRUE, IF i = 0 \/ runs[i].row \in Ended THEN "submit" ELSE "ask", i)]
  /\ UNCHANGED <<runs, configured>>

\* The page refreshes the latest run of each button, and no other.
ReadPage(p, button) ==
  /\ demoCaller[p].at = "idle"
  /\ \E i \in DOMAIN runs :
       /\ IsLatest(i, button) /\ runs[i].row \notin Ended
       /\ demoCaller' = [demoCaller EXCEPT ![p] = Begun(button, FALSE, "ask", i)]
  /\ UNCHANGED <<runs, configured>>

\* _refresh_demo_run.  A coordinator that is down, slow or has lost the job
\* answers nothing.
AskCoordinator(p) ==
  LET i == demoCaller[p].run IN
  /\ demoCaller[p].at = "ask"
  /\ \E heard \in {runs[i].state, "none"} :
       DemoGoto(p, IF heard \in Ended THEN heard ELSE IF runs[i].old THEN "cancel" ELSE "idle")
  /\ UNCHANGED <<runs, configured>>
WriteEndSeen(p) ==
  /\ demoCaller[p].at \in Ended
  /\ Write(demoCaller[p].run, demoCaller[p].at) /\ DemoGoto(p, AfterEnd(p))
  /\ UNCHANGED configured
\* The cancel is best effort; the row is stamped whatever became of it.
CancelStuck(p, arrives) ==
  LET i == demoCaller[p].run IN
  /\ demoCaller[p].at = "cancel" /\ DemoGoto(p, "stamp")
  /\ runs' = IF arrives /\ runs[i].state = "RUNNING"
             THEN [runs EXCEPT ![i].state = "CANCELLED"] ELSE runs
  /\ UNCHANGED configured
StampCancelled(p) ==
  /\ demoCaller[p].at = "stamp"
  /\ Write(demoCaller[p].run, "CANCELLED") /\ DemoGoto(p, AfterEnd(p))
  /\ UNCHANGED configured

\* A submission may be refused at every one of its own steps; it needs an
\* owner and a pool, which for the guests the first join makes.
StartRun(p) ==
  LET button == demoCaller[p].button IN
  /\ demoCaller[p].at = "submit" /\ DemoGoto(p, "idle") /\ Len(runs) < MaxDemoRuns
  /\ button \in configured
  /\ runs' = Append(runs, [button |-> button, row |-> "PENDING", state |-> "RUNNING",
                           old |-> FALSE, seen |-> demoCaller[p].seen])
  /\ UNCHANGED configured
RunRefused(p) ==
  /\ demoCaller[p].at = "submit" /\ DemoGoto(p, "idle")
  /\ UNCHANGED <<runs, configured>>

-----------------------------------------------------------------------------
(* Around it: runs end, one way or another; their owner's list of jobs     *)
(* writes that down; they age, which nothing asks of one that has ended;   *)
(* and what a button needs is set up.                                      *)

RunEnds(i) ==
  /\ runs[i].state = "RUNNING" /\ runs' = [runs EXCEPT ![i].state = "SUCCEEDED"]
  /\ UNCHANGED <<demoCaller, configured>>
OwnerLists(i) ==
  /\ runs[i].state \in Ended /\ runs[i].row # runs[i].state /\ Write(i, runs[i].state)
  /\ UNCHANGED <<demoCaller, configured>>
PastMaxAge(i) ==
  /\ ~runs[i].old /\ runs[i].row \notin Ended /\ runs' = [runs EXCEPT ![i].old = TRUE]
  /\ UNCHANGED <<demoCaller, configured>>
Configured(button) ==
  /\ configured' = configured \cup {button} /\ UNCHANGED <<runs, demoCaller>>

DemoNext ==
  \/ \E p \in Process, button \in Buttons : Press(p, button) \/ ReadPage(p, button)
  \/ \E p \in Process :
       \/ AskCoordinator(p) \/ WriteEndSeen(p) \/ StampCancelled(p)
       \/ StartRun(p) \/ RunRefused(p)
  \/ \E p \in Process, arrives \in BOOLEAN : CancelStuck(p, arrives)
  \/ \E i \in DOMAIN runs : RunEnds(i) \/ OwnerLists(i) \/ PastMaxAge(i)
  \/ \E button \in Buttons \ configured : Configured(button)

DemoTypeOK ==
  /\ \A i \in DOMAIN runs :
       /\ runs[i].button \in Buttons /\ runs[i].row \in Ended \cup {"PENDING"}
       /\ runs[i].state \in Ended \cup {"RUNNING"}
  /\ configured \subseteq Buttons

-----------------------------------------------------------------------------
(* Correctness.                                                            *)

\* Of one button, with none in between.
Follows(i, j) ==
  /\ i < j /\ runs[i].button = runs[j].button
  /\ \A k \in (i + 1)..(j - 1) : runs[k].button # runs[i].button

\* One run of a button at a time: a run follows one that has not ended only by
\* a press that looked before that one was there.  (The page then refreshes the
\* later of the two and the earlier is seen no more; it does not keep a third
\* from being started.)  And a run's row says of an end only what the
\* coordinator says, but for a run past its age.
PressesJoinTheRun ==
  /\ \A i, j \in DOMAIN runs :
       (Follows(i, j) /\ runs[i].row \notin Ended) => runs[j].seen < i
  /\ \A i \in DOMAIN runs :
       (runs[i].row \in Ended /\ runs[i].state # runs[i].row) => runs[i].old
=============================================================================

---------------------------- MODULE SessionBook ----------------------------
(***************************************************************************)
(* What the row of a sandbox session promises.  It moves along the         *)
(* lifecycle and no other way: FAILED from anywhere unsettled, TERMINATED  *)
(* from anywhere, and neither is left but for TERMINATED.  What is written *)
(* in it stays: its sandbox, that it was prepared, and the one evaluation  *)
(* job, which the coordinator was asked for, and only once the sandbox had *)
(* been prepared.  A row that says HIBERNATED has no sandbox awake.        *)
(***************************************************************************)
EXTENDS Naturals

VARIABLES
  state,       \* of the lifecycle; "none" before there is a row
  recorded,    \* the row names a sandbox
  prepared,    \* and the marker of its environment
  job,         \* and its evaluation job; 0 if none
  asked,       \* how many jobs the coordinator was asked for
  awake        \* the sandbox is on billed time
vars == <<state, recorded, prepared, job, asked, awake>>
facts == <<recorded, prepared, job, asked, awake>>

Init == /\ state = "none" /\ recorded = FALSE /\ prepared = FALSE
        /\ job = 0 /\ asked = 0 /\ awake = FALSE

Move(from, to) == state = from /\ state' = to

Begin     == Move("none", "REQUESTED") /\ UNCHANGED facts
Create    == /\ Move("REQUESTED", "ACTIVE") /\ ~recorded /\ recorded' = TRUE
             /\ UNCHANGED <<prepared, job, asked, awake>>
Prepare   == /\ Move("ACTIVE", "PREPARED") /\ recorded /\ ~prepared /\ prepared' = TRUE
             /\ UNCHANGED <<recorded, job, asked, awake>>
Hibernate == Move("PREPARED", "HIBERNATED") /\ ~awake /\ UNCHANGED facts
Wake      == Move("HIBERNATED", "RESUMING") /\ UNCHANGED facts
Resume    == Move("RESUMING", "ACTIVE") /\ UNCHANGED facts
Evaluate  == /\ Move("ACTIVE", "EVALUATING") /\ prepared /\ job = 0 /\ job' \in 1..asked
             /\ UNCHANGED <<recorded, prepared, asked, awake>>
Succeed   == Move("EVALUATING", "SUCCEEDED") /\ UNCHANGED facts
Fail      == /\ state \notin {"none", "FAILED", "TERMINATED"} /\ state' = "FAILED"
             /\ UNCHANGED facts
Terminate == /\ state \notin {"none", "TERMINATED"} /\ state' = "TERMINATED"
             /\ UNCHANGED facts

\* The coordinator and the sandbox move without the row.
Ask  == prepared /\ asked' = asked + 1 /\ UNCHANGED <<state, recorded, prepared, job, awake>>
Stir == /\ state # "none" /\ awake' = ~awake /\ (awake' => state # "HIBERNATED")
        /\ UNCHANGED <<state, recorded, prepared, job, asked>>

Next == \/ Begin \/ Create \/ Prepare \/ Hibernate \/ Wake \/ Resume \/ Evaluate
        \/ Succeed \/ Fail \/ Terminate \/ Ask \/ Stir

Spec == Init /\ [][Next]_vars
=============================================================================

---------------------------- MODULE VenueRouting ----------------------------
(***************************************************************************)
(* Two coordinators, or venues, behind one API (app.py).  A job lives in   *)
(* the one it was submitted to; agents know of neither, and the second has *)
(* never heard of a machine until a claim or a heartbeat tells it.  A      *)
(* claim is offered to the venues that have work, and every later call     *)
(* about its lease is sent where the rows say it was issued.  Each process *)
(* runs at most one claim at a time; a machine may have several under way, *)
(* an agent giving up waiting before the API does, and several leases.     *)
(* Every machine may run every job.                                        *)
(***************************************************************************)
EXTENDS Deployment, Naturals, Sequences

CONSTANTS
  Node,             \* machines
  Work,             \* jobs, of one task
  Grants            \* bound: leases issued
ASSUME VenueAssumption == Grants \in Nat

VARIABLES
  job,              \* its venue, its task there, and its row of jobs
  lease,            \* by order of issue: venue, job, whether it is live, and
                    \* while it is whether its attempt is recorded
  registry,         \* of the second venue: it is in memory
  claimer           \* of each process: the claim it runs, and the jobs it
                    \* owes a machine: they have waited for all of it, and the
                    \* rows and every venue asked have been heard
venueVars == <<job, lease, registry, claimer>>

Venue == {"render", "fc"}
Default == "render"
IdleClaim == [at |-> "idle", node |-> Nobody, rest |-> <<>>, lease |-> 0, owed |-> {}]

VenueInit ==
  /\ job = [j \in Work |-> [venue |-> Default, task |-> "none", row |-> "none"]]
  /\ lease = <<>> /\ registry = [n \in Node |-> "unknown"]
  /\ claimer = [p \in Process |-> IdleClaim]

-----------------------------------------------------------------------------
(* Submission and observation.                                             *)

\* submit_job: the coordinator first, then the row; a crash may fall between.
PostJob(j, v) ==
  /\ job[j].task = "none"
  /\ job' = [job EXCEPT ![j] = [venue |-> v, task |-> "queued", row |-> "none"]]
  /\ UNCHANGED <<lease, registry, claimer>>
InsertJob(j) ==
  /\ job[j].task # "none" /\ job[j].row = "none"
  /\ job' = [job EXCEPT ![j].row = "active"]
  /\ UNCHANGED <<lease, registry, claimer>>
\* A page that shows the job writes its end down.
SyncObservedState(j) ==
  /\ job[j].task = "ended" /\ job[j].row = "active"
  /\ job' = [job EXCEPT ![j].row = "ended"]
  /\ UNCHANGED <<lease, registry, claimer>>

Over(row) == [row EXCEPT !.live = FALSE, !.recorded = FALSE]
\* A job that no longer waits.
NoLonger(j, c) == [c EXCEPT !.owed = @ \ {j}]
CancelJob(j) ==
  /\ job[j].row # "none" /\ job[j].task \in {"queued", "leased"}
  /\ job' = [job EXCEPT ![j].task = "ended"]
  /\ lease' = [l \in DOMAIN lease |->
                 IF lease[l].job = j THEN Over(lease[l]) ELSE lease[l]]
  /\ claimer' = [p \in Process |-> NoLonger(j, claimer[p])]
  /\ UNCHANGED registry

-----------------------------------------------------------------------------
(* The venues by themselves.  An agent registers with the default one, and *)
(* does so again when it is told to: that one knows every machine.         *)
FcRestarts ==
  /\ \E n \in Node : registry[n] # "unknown"
  /\ registry' = [n \in Node |-> "unknown"]
  /\ UNCHANGED <<job, lease, claimer>>
NodeGoesQuiet(n) ==
  /\ registry[n] = "online" /\ registry' = [registry EXCEPT ![n] = "quiet"]
  /\ UNCHANGED <<job, lease, claimer>>
LeaseAgesOut(l) ==
  /\ lease[l].live /\ lease' = [lease EXCEPT ![l] = Over(@)]
  /\ job' = [job EXCEPT ![lease[l].job].task = "queued"]
  /\ UNCHANGED <<registry, claimer>>

Standing(n, v) == IF v = Default THEN "online" ELSE registry[n]
Queue(v) == {j \in Work : job[j].venue = v /\ job[j].task = "queued"}
\* One of a venue's jobs is leased to a machine it holds to be online.
Grant(n, v, j) ==
  /\ Len(lease) < Grants /\ Standing(n, v) = "online" /\ j \in Queue(v)
  /\ lease' = Append(lease, [venue |-> v, job |-> j, live |-> TRUE, recorded |-> FALSE])
  /\ job' = [job EXCEPT ![j].task = "leased"]

\* active_job_venues: by the rows, whose status may be older than the venue's.
Active(v) == \E j \in Work : job[j].row = "active" /\ job[j].venue = v

\* Mutant: the default too only while it has work.
VenuesWithWork ==
  CASE Active("fc") /\ ~Active(Default) -> <<"fc">>
    [] Active("fc") /\ Active(Default)  -> <<"fc", Default>>
    [] OTHER                            -> <<Default>>
ClaimableVenues == (IF Active("fc") THEN <<"fc">> ELSE <<>>) \o <<Default>>

\* A venue with work is told of every heartbeat, and of the machine if it does
\* not know it.
Heartbeat(n) ==
  /\ Active("fc") /\ registry[n] # "online" /\ registry' = [registry EXCEPT ![n] = "online"]
  /\ UNCHANGED <<job, lease, claimer>>

-----------------------------------------------------------------------------
(* claim: venue by venue, until one grants a lease.                        *)
\* What a claim made now might be given: the default's jobs, recorded or not,
\* and the second venue's that are.
Claimable == {j \in Work : /\ job[j].task = "queued"
                           /\ job[j].venue = Default \/ job[j].row = "active"}

\* Where it goes is read once; a query that fails leaves the default.
BeginClaim(p, n) ==
  /\ claimer[p].at = "idle"
  /\ \E rest \in {ClaimableVenues, <<Default>>} :
       claimer' = [claimer EXCEPT ![p] =
         [IdleClaim EXCEPT !.at = "ask", !.node = n, !.rest = rest,
                           !.owed = IF rest = ClaimableVenues THEN Claimable ELSE {}]]
  /\ UNCHANGED <<job, lease, registry>>

\* The next venue, or the last one's answer.
NextVenue(c, heard) ==
  [c EXCEPT !.at = IF Len(c.rest) = 1 THEN "empty" ELSE "ask",
            !.rest = Tail(@), !.owed = IF heard THEN @ ELSE {}]
Asking(p) == claimer[p].at \in {"ask", "reask"}

VenueGrants(p) ==
  /\ Asking(p)
  /\ \E j \in Work :
       /\ Grant(claimer[p].node, Head(claimer[p].rest), j)
       /\ claimer' = [q \in Process |->
            IF q = p THEN [IdleClaim EXCEPT !.at = "granted", !.lease = Len(lease) + 1]
            ELSE NoLonger(j, claimer[q])]
  /\ UNCHANGED registry
\* 204: nothing for a machine it knows; nor for one it has not heard from lately,
\* whose heartbeat is told to it behind the claim's back.
VenueHasNothing(p) ==
  LET v == Head(claimer[p].rest)
      standing == Standing(claimer[p].node, v)
  IN /\ Asking(p)
     /\ standing # "unknown" /\ (standing = "online" => Queue(v) = {})
     /\ claimer' = [claimer EXCEPT ![p] = NextVenue(@, standing = "online")]
     /\ UNCHANGED <<job, lease, registry>>
\* "register first": the venue is told of the machine, and asked again.
VenueRefuses(p) ==
  LET c == claimer[p] IN
  /\ Asking(p) /\ Standing(c.node, Head(c.rest)) = "unknown"
  /\ claimer' = [claimer EXCEPT ![p] =
                   IF c.at = "ask" THEN [c EXCEPT !.at = "register"] ELSE NextVenue(c, FALSE)]
  /\ UNCHANGED <<job, lease, registry>>

RegisterWithVenue(p) ==
  LET c == claimer[p] IN
  /\ c.at = "register"
  /\ \/ /\ registry' = [registry EXCEPT ![c.node] = "online"]
        /\ claimer' = [claimer EXCEPT ![p].at = "reask"]
     \/ claimer' = [claimer EXCEPT ![p] = NextVenue(c, FALSE)]
        /\ UNCHANGED registry
  /\ UNCHANGED <<job, lease>>

\* A gateway answers 5xx, or nothing answers: the venue may have granted.  The
\* first falls through to the next venue, the second ends the claim.
VenueUnheard(p) ==
  LET c == claimer[p] IN
  /\ Asking(p)
  /\ \E over \in {NextVenue(c, FALSE), IdleClaim} :
       \/ \E j \in Work :
            /\ Grant(c.node, Head(c.rest), j)
            /\ claimer' = [q \in Process |-> NoLonger(j, IF q = p THEN over ELSE claimer[q])]
       \/ claimer' = [claimer EXCEPT ![p] = over] /\ UNCHANGED <<job, lease>>
  /\ UNCHANGED registry

\* The lease goes to the agent, after record_attempt, which is best-effort; or
\* the last venue's answer does.
AnswerClaim(p) ==
  LET c == claimer[p] IN
  /\ c.at \in {"granted", "empty"}
  /\ \/ c.at = "granted" /\ lease' = [lease EXCEPT ![c.lease].recorded = lease[c.lease].live]
     \/ UNCHANGED lease
  /\ claimer' = [claimer EXCEPT ![p] = IdleClaim]
  /\ UNCHANGED <<job, registry>>

-----------------------------------------------------------------------------
(* The calls a machine makes for a lease.                                  *)
Known(l) == lease[l].recorded /\ job[lease[l].job].row # "none"
LeaseVenue(l) == IF Known(l) THEN job[lease[l].job].venue ELSE Default

\* complete and fail: the venue a failed lookup leaves is the default, and one
\* that does not hold the lease refuses.
CallLease(l, answer) ==
  /\ lease[l].live /\ lease[l].venue \in {LeaseVenue(l), Default}
  /\ job' = [job EXCEPT ![lease[l].job].task =
               IF answer = "complete" THEN "ended" ELSE "queued"]
  /\ lease' = [lease EXCEPT ![l] = Over(@)]
  /\ UNCHANGED <<registry, claimer>>

VenueNext ==
  \/ \E j \in Work : \/ \E v \in Venue : PostJob(j, v)
                     \/ InsertJob(j) \/ SyncObservedState(j) \/ CancelJob(j)
  \/ FcRestarts
  \/ \E l \in DOMAIN lease :
       LeaseAgesOut(l) \/ \E answer \in {"complete", "fail"} : CallLease(l, answer)
  \/ \E n \in Node : NodeGoesQuiet(n) \/ Heartbeat(n)
  \/ \E p \in Process :
       \/ \E n \in Node : BeginClaim(p, n)
       \/ VenueGrants(p) \/ VenueHasNothing(p) \/ VenueRefuses(p)
       \/ RegisterWithVenue(p) \/ VenueUnheard(p) \/ AnswerClaim(p)

VenueSpec == VenueInit /\ [][VenueNext]_venueVars

VenueTypeOK ==
  /\ \A j \in Work : job[j] \in [venue : Venue, row : {"none", "active", "ended"},
                                 task : {"none", "queued", "leased", "ended"}]
  /\ \A l \in DOMAIN lease : lease[l] \in [venue : Venue, job : Work, live : BOOLEAN,
                                           recorded : BOOLEAN]
  /\ registry \in [Node -> {"unknown", "online", "quiet"}]
  /\ \A p \in Process : /\ claimer[p].node \in Node \cup {Nobody}
                        /\ claimer[p].owed \subseteq Work

-----------------------------------------------------------------------------
\* A claim comes back empty only if no job waited for the whole of it: none of
\* the default venue's, whatever the rows say of it, and none of the second
\* venue's that the rows show, though that one has forgotten the machine, other
\* claims and cancellations run meanwhile and leases age out (claim).  Not so
\* when the rows could not be read, when a venue gave no answer, would not have
\* the machine or forgot it again, or had not heard its last heartbeat.
NoWorkIsPassedBy ==
  \A p \in Process : claimer[p].at = "empty" => claimer[p].owed = {}
=============================================================================

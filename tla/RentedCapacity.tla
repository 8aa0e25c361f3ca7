--------------------------- MODULE RentedCapacity ---------------------------
(***************************************************************************)
(* The life of a rented machine: one rented_capacity row, the lease (a     *)
(* `leased` machines row with its token and pool binding) minted for it,   *)
(* the machine the venue bills for, and everybody who moves them:          *)
(*                                                                         *)
(*   acquire_for_job       capacity/acquire.py, one per rental, from the   *)
(*                         row to ACTIVE or through _abandon;              *)
(*   reconcile_rented      capacity/reconcile.py, the loop in app.py;      *)
(*   settle_finished_jobs  capacity/settle.py, called by the job routes;   *)
(*   release_capacity      what both of them run, statement by statement;  *)
(*   the revoke route      app.py, an owner ending a credential;           *)
(*   the venue, the job and the machine itself (external).                 *)
(*                                                                         *)
(* Every database statement and every call to the venue is a step of its   *)
(* own, so that any two actors interleave between them.  A column or a     *)
(* local variable that is only ever null or not, true or false, is the set *)
(* of the rentals (or tasks) for which it is set.                          *)
(***************************************************************************)
EXTENDS Naturals

CONSTANTS
    Rental,      \* acquisitions; each opens one row and mints one machine
    Sweep,       \* tasks running the reconcile loop
    Settle,      \* requests running the settle hook
    NoRental,    \* "no rental in hand"
    Lagging,     \* rentals whose venue listing may lag behind the machine, once
    Armed,       \* settings.rented_capacity_destroy
    NotFoundIsGone, \* the adapter takes a "not found" from release as a destroy
    MaxClaims,   \* bound: tasks one machine claims
    MaxFaults    \* bound: deaths of a sweep or a settle, failures of the database

ASSUME NoRentalAssumption == NoRental \notin Rental
ASSUME TasksAssumption == Sweep \cap Settle = {}
ASSUME BoundsAssumption == MaxClaims \in Nat /\ MaxFaults \in Nat
ASSUME SwitchesAssumption == Armed \in BOOLEAN /\ NotFoundIsGone \in BOOLEAN

VARIABLES
    (* public.rented_capacity *)
    state,        \* "none" before the row exists
    handle,       \* provider_handle is not null
    machine,      \* machine_id is not null
    goneNoted,    \* failure_code = RECONCILE_VENUE_SAYS_GONE (no other is read)
    stamped,      \* released_at is not null
    (* the minted machine: public.machines, machine_pools, attempts, jobs *)
    lease,        \* its status
    bound,        \* it has a machine_pools row
    work,         \* it holds an unresolved attempt that its lease still covers
    claims,       \* how many tasks it has claimed (bounded by MaxClaims)
    jobOver,      \* the job it was rented for is terminal
    due,          \* its sweep window (QUIET, NEVER_SEEN, IDLE...) has run out
    (* the venue *)
    venue,        \* the machine there
    call,         \* the create request, on the venue's side
    lag,          \* its listing: behind the machine or not
    (* acquire_for_job *)
    acq,          \* where it stands
    gotHandle, gotCredential, asked, settled,    \* its local variables
    (* sweeps and settles *)
    pc, todo, hand,      \* program counter, rentals still listed, rental in hand
    sawMachine, corroborated, verdict,    \* release_capacity's snapshot and result
    restarted,    \* the loop runs on a startup edge
    cleared,      \* machines the revoke route found idle and has not revoked yet
    faults        \* deaths and database failures so far (bounded by MaxFaults)

rowVars   == <<state, handle, machine, goneNoted, stamped>>
leaseVars == <<lease, bound>>
workVars  == <<work, claims>>
venueVars == <<venue, call>>
heldVars  == <<gotHandle, gotCredential, asked, settled>>
acqVars   == <<acq, heldVars>>
snapVars  == <<hand, sawMachine, corroborated, verdict, restarted>>
taskVars  == <<pc, todo, snapVars>>
worldVars == <<jobOver, due, lag, cleared, faults>>

vars == <<rowVars, leaseVars, workVars, venueVars, acqVars, taskVars, worldVars>>

Task == Sweep \cup Settle

States    == {"none", "REQUESTED", "ACTIVE", "RELEASED", "FAILED"}
Sweepable == {"REQUESTED", "ACTIVE"}
Open(r)   == state[r] \in Sweepable
Closed(r) == state[r] \in {"RELEASED", "FAILED"}

\* A machine runs, or a create request is on its way to making one.
Bills(r)  == venue[r] = "live" \/ call[r] = "pending"

Abandoning == {"evidence", "destroy", "unmint", "close"}
AcqSteps   == {"idle", "opened", "minted", "asked", "answered", "done", "dead",
               "failed"} \cup Abandoning

Releasing == {"noHandle", "destroy", "observe", "noteGone", "revoke",
              "notDestroyed", "mark"}
TaskSteps == {"idle", "next", "finished", "credentials"} \cup Releasing

(* What release_capacity knows of the machine.  "closed": the row was already
   RELEASED; "held": a first absent reading has just been noted. *)
Verdicts == {"unknown", "gone", "held", "closed"}

TypeOK ==
    /\ state \in [Rental -> States]
    /\ handle \subseteq Rental /\ machine \subseteq Rental
    /\ goneNoted \subseteq Rental /\ stamped \subseteq Rental
    /\ lease \in [Rental -> {"none", "active", "revoked"}]
    /\ bound \subseteq Rental
    /\ work \in [Rental -> {"idle", "running"}]
    /\ claims \in [Rental -> 0..MaxClaims]
    /\ jobOver \subseteq Rental /\ due \subseteq Rental /\ cleared \subseteq Rental
    /\ venue \in [Rental -> {"none", "live", "gone"}]
    /\ call \in [Rental -> {"none", "pending", "served"}]
    /\ lag \in [Rental -> {"never", "lagging", "over"}]
    /\ acq \in [Rental -> AcqSteps]
    /\ gotHandle \subseteq Rental /\ gotCredential \subseteq Rental
    /\ asked \subseteq Rental /\ settled \subseteq Rental
    /\ pc \in [Task -> TaskSteps]
    /\ todo \in [Task -> SUBSET Rental]
    /\ hand \in [Task -> Rental \cup {NoRental}]
    /\ verdict \in [Task -> Verdicts]
    /\ sawMachine \subseteq Task /\ corroborated \subseteq Task
    /\ restarted \subseteq Task
    /\ faults \in 0..MaxFaults

Init ==
    /\ state = [r \in Rental |-> "none"]
    /\ handle = {} /\ machine = {} /\ goneNoted = {} /\ stamped = {}
    /\ lease = [r \in Rental |-> "none"]
    /\ bound = {}
    /\ work = [r \in Rental |-> "idle"]
    /\ claims = [r \in Rental |-> 0]
    /\ jobOver = {} /\ due = {} /\ cleared = {}
    /\ venue = [r \in Rental |-> "none"]
    /\ call = [r \in Rental |-> "none"]
    /\ lag = [r \in Rental |-> "never"]
    /\ acq = [r \in Rental |-> "idle"]
    /\ gotHandle = {} /\ gotCredential = {} /\ asked = {} /\ settled = {}
    /\ pc = [p \in Task |-> "idle"]
    /\ todo = [p \in Task |-> {}]
    /\ hand = [p \in Task |-> NoRental]
    /\ verdict = [p \in Task |-> "unknown"]
    /\ sawMachine = {} /\ corroborated = {} /\ restarted = {}
    /\ faults = 0

-----------------------------------------------------------------------------
(* What the sweeps read. *)

\* WORK_IN_FLIGHT_SQL: an unresolved, still covered attempt of the machine the
\* row names; a row that names no machine matches no attempt.
WorkInFlight(r) == r \in machine /\ work[r] = "running"

\* Mutant: only ACTIVE rows are swept, as if REQUESTED ones had no machine.
UnreleasedActiveOnly ==
    {r \in Rental : state[r] = "ACTIVE" /\ r \in due /\ ~WorkInFlight(r)}

\* unreleased_rows: a revoked credential gets no allowance; every other branch
\* waits for its window, and those that can select a machine at all are guarded
\* on the work in flight.  The window of JOB_FINISHED runs from the job's end
\* whatever the machine claims meanwhile, and may run out at any moment.
Unreleased ==
    {r \in Rental : /\ Open(r)
                    /\ \/ r \in machine /\ lease[r] = "revoked"
                       \/ (r \in due \/ r \in jobOver) /\ ~WorkInFlight(r)}

\* rentals_for_jobs, for the jobs a route has just observed to be terminal.
RentalsOfFinishedJobs ==
    {r \in Rental : Open(r) /\ r \in jobOver /\ ~WorkInFlight(r)}

\* A lease is live while its token authenticates or it is bound to a pool.
LeaseLive(r) == lease[r] = "active" \/ r \in bound

\* Mutant: behind the destroy flag.
OrphansWhenArmed ==
    {r \in Rental : Armed /\ LeaseLive(r) /\ r \in due /\ r \notin machine
                    /\ work[r] = "idle"}

\* orphaned_leases: leases past the boot grace that no open row names, without
\* those holding work (the revoke is guarded on it).
OrphanedLeases ==
    {r \in Rental : /\ LeaseLive(r)
                    /\ r \in due
                    /\ ~(r \in machine /\ Open(r))
                    /\ work[r] = "idle"}

\* finished_rentals_with_live_credentials
FinishedWithLiveCredentials ==
    {r \in Rental : Closed(r) /\ r \in machine /\ LeaseLive(r)}

-----------------------------------------------------------------------------
(* acquire_for_job *)

AcqMoves(r, from, to) == acq[r] = from /\ acq' = [acq EXCEPT ![r] = to]

\* The budget gate passed and the REQUESTED row is committed before anything
\* is asked of the venue.
OpenRow(r) ==
    /\ AcqMoves(r, "idle", "opened")
    /\ state' = [state EXCEPT ![r] = "REQUESTED"]
    /\ UNCHANGED <<handle, machine, goneNoted, stamped, leaseVars, workVars,
                   venueVars, heldVars, taskVars, worldVars>>

\* provision_rented_machine commits machine, binding and token together.  A
\* cancelled await loses the credential while its thread still commits it.
Mint(r) ==
    /\ \/ /\ AcqMoves(r, "opened", "minted")
          /\ gotCredential' = gotCredential \cup {r}
       \/ /\ AcqMoves(r, "opened", "evidence")
          /\ UNCHANGED gotCredential
    /\ lease' = [lease EXCEPT ![r] = "active"]
    /\ bound' = bound \cup {r}
    /\ UNCHANGED <<rowVars, workVars, venueVars, gotHandle, asked, settled,
                   taskVars, worldVars>>

\* PoolNotFound, PoolHasLiveSession, NodeAlreadyEnrolled: nothing was minted.
MintRefused(r) ==
    /\ AcqMoves(r, "opened", "evidence")
    /\ UNCHANGED <<rowVars, leaseVars, workVars, venueVars, heldVars, taskVars,
                   worldVars>>

AskVenue(r) ==
    /\ AcqMoves(r, "minted", "asked")
    /\ asked' = asked \cup {r}
    /\ call' = [call EXCEPT ![r] = "pending"]
    /\ UNCHANGED <<rowVars, leaseVars, workVars, venue, gotHandle, gotCredential,
                   settled, taskVars, worldVars>>

\* provider.acquire returned a handle (the rate is judged in the next step).
VenueAnswered(r) ==
    /\ venue[r] # "none"
    /\ AcqMoves(r, "asked", "answered")
    /\ gotHandle' = gotHandle \cup {r}
    /\ UNCHANGED <<rowVars, leaseVars, workVars, venueVars, gotCredential, asked,
                   settled, taskVars, worldVars>>

\* provider.acquire raised or was cancelled: no handle.  It may have destroyed
\* what it created, as its contract asks, or not; the request may have been
\* dropped or still be on its way.
VenueRaised(r) ==
    /\ AcqMoves(r, "asked", "evidence")
    /\ \/ UNCHANGED venueVars
       \/ /\ venue[r] = "live"
          /\ venue' = [venue EXCEPT ![r] = "gone"]
          /\ UNCHANGED call
       \/ /\ call[r] = "pending"
          /\ call' = [call EXCEPT ![r] = "none"]
          /\ UNCHANGED venue
    /\ UNCHANGED <<rowVars, leaseVars, workVars, heldVars, taskVars, worldVars>>

\* The answered rate broke a ceiling (BudgetRefused on the second look).
RateRefused(r) ==
    /\ AcqMoves(r, "answered", "evidence")
    /\ UNCHANGED <<rowVars, leaseVars, workVars, venueVars, heldVars, taskVars,
                   worldVars>>

\* _move_to_active, guarded on state = REQUESTED: handle, machine and state in
\* one statement.  A cancelled await abandons after the update has landed.
MoveToActive(r) ==
    /\ state[r] = "REQUESTED"
    /\ AcqMoves(r, "answered", "done") \/ AcqMoves(r, "answered", "evidence")
    /\ state' = [state EXCEPT ![r] = "ACTIVE"]
    /\ handle' = handle \cup {r}
    /\ machine' = machine \cup {r}
    /\ due' = due \ {r}
    /\ UNCHANGED <<goneNoted, stamped, leaseVars, workVars, venueVars, heldVars,
                   taskVars, jobOver, lag, cleared, faults>>

(* _abandon *)

\* _record_evidence fills in what is known and clears nothing.  Best effort.
RecordEvidence(r) ==
    /\ AcqMoves(r, "evidence", "destroy")
    /\ \/ /\ handle' = handle \cup (gotHandle \cap {r})
          /\ machine' = machine \cup (gotCredential \cap {r})
       \/ UNCHANGED <<handle, machine>>
    /\ UNCHANGED <<state, goneNoted, stamped, leaseVars, workVars, venueVars,
                   heldVars, taskVars, worldVars>>

\* What the venue's listing shows of a machine it has created.
Listed(r) == venue[r] = "live" /\ lag[r] # "lagging"

\* release(handle) confirmed the destroy.  EcsGpuProvider takes "no such
\* instance" for one too.
Destroys(r) ==
    \/ venue' = [venue EXCEPT ![r] = "gone"]
    \/ NotFoundIsGone /\ ~Listed(r) /\ UNCHANGED venue

\* release(handle) refused or raised: the machine may be gone all the same, the
\* reply and not the destroy having failed.
DoesNotConfirm(r) ==
    \/ UNCHANGED venue
    \/ venue' = [venue EXCEPT ![r] = "gone"]

\* Stop the money, and decide what is known: with a handle, what release said;
\* without one, nothing is owed only if the venue was never asked.
AbandonMachine(r) ==
    /\ AcqMoves(r, "destroy", "unmint")
    /\ \/ r \in gotHandle /\ Destroys(r) /\ settled' = settled \cup {r}
       \/ r \in gotHandle /\ DoesNotConfirm(r) /\ UNCHANGED settled
       \/ r \in asked \ gotHandle /\ UNCHANGED <<venue, settled>>
       \/ r \notin asked /\ settled' = settled \cup {r} /\ UNCHANGED venue
    /\ UNCHANGED <<rowVars, leaseVars, workVars, call, gotHandle, gotCredential,
                   asked, taskVars, worldVars>>

\* revoke_sandbox_machine: one transaction drops every binding and the token.
Revoke(r) ==
    /\ lease' = [lease EXCEPT ![r] = "revoked"]
    /\ bound' = bound \ {r}

AbandonCredential(r) ==
    /\ AcqMoves(r, "unmint", "close")
    /\ \/ r \in gotCredential /\ Revoke(r)
       \/ UNCHANGED leaseVars
    /\ UNCHANGED <<rowVars, workVars, venueVars, heldVars, taskVars, worldVars>>

\* _close_failed
CloseFailed(r) ==
    /\ state' = [state EXCEPT ![r] = IF @ \in Sweepable THEN "FAILED" ELSE @]
    /\ stamped' = stamped \cup (gotHandle \cap {r})
    /\ goneNoted' = goneNoted \ {r}

\* Mutants of _keep_sweepable: a state migration 0022 does not know; the doubtful
\* row closed like the settled one; the stamp of the reopened row kept.
KeepUnknownState(r) ==
    /\ state' = [state EXCEPT ![r] = "RETRY"]
    /\ goneNoted' = goneNoted \ {r}
    /\ UNCHANGED stamped
CloseInDoubt(r) ==
    /\ state' = [state EXCEPT ![r] = IF @ \in Sweepable THEN "FAILED" ELSE @]
    /\ goneNoted' = goneNoted \ {r}
    /\ UNCHANGED stamped
KeepStamp(r) ==
    /\ state' = [state EXCEPT ![r] = IF @ \in Sweepable THEN @ ELSE "REQUESTED"]
    /\ goneNoted' = goneNoted \ {r}
    /\ UNCHANGED stamped

\* _keep_sweepable: a terminal state is reopened, with its released_at dropped.
KeepSweepable(r) ==
    /\ state' = [state EXCEPT ![r] = IF @ \in Sweepable THEN @ ELSE "REQUESTED"]
    /\ stamped' = IF Open(r) THEN stamped ELSE stamped \ {r}
    /\ goneNoted' = goneNoted \ {r}

\* The last write of _abandon; losing it is survivable and is not retried.
AbandonClose(r) ==
    /\ AcqMoves(r, "close", "failed")
    /\ \/ r \in settled /\ CloseFailed(r)
       \/ r \notin settled /\ KeepSweepable(r)
       \/ UNCHANGED <<state, stamped, goneNoted>>
    /\ UNCHANGED <<handle, machine, leaseVars, workVars, venueVars, heldVars,
                   taskVars, worldVars>>

\* The process dies, or the task is cancelled inside _abandon.
AcquireDies(r) ==
    /\ acq[r] \notin {"idle", "done", "failed", "dead"}
    /\ acq' = [acq EXCEPT ![r] = "dead"]
    /\ UNCHANGED <<rowVars, leaseVars, workVars, venueVars, heldVars, taskVars,
                   worldVars>>

Acquire(r) ==
    \/ OpenRow(r) \/ Mint(r) \/ MintRefused(r) \/ AskVenue(r)
    \/ VenueAnswered(r) \/ VenueRaised(r) \/ RateRefused(r) \/ MoveToActive(r)
    \/ RecordEvidence(r) \/ AbandonMachine(r) \/ AbandonCredential(r)
    \/ AbandonClose(r) \/ AcquireDies(r)

-----------------------------------------------------------------------------
(* release_capacity, run by a sweep or a settle p on the rental in its hand.
   The whole row is read once; every later step works from that snapshot. *)

TaskMoves(p, from, to) ==
    /\ pc[p] = from
    /\ pc' = [pc EXCEPT ![p] = to]

\* The local variables of release_capacity go with the call.
Forgets(p) ==
    /\ hand' = [hand EXCEPT ![p] = NoRental]
    /\ verdict' = [verdict EXCEPT ![p] = "unknown"]
    /\ sawMachine' = sawMachine \ {p}
    /\ corroborated' = corroborated \ {p}

Returns(p, from) ==
    /\ TaskMoves(p, from, "next")
    /\ Forgets(p)
    /\ UNCHANGED restarted

PutIf(S, x, condition) == IF condition THEN S \cup {x} ELSE S \ {x}

\* _fetch_row, and where the row it reads sends release_capacity: already
\* released, without a handle to destroy by, or on to the venue.
Fetch(p) ==
    /\ \E r \in todo[p] :
          /\ \/ /\ state[r] = "RELEASED"
                /\ TaskMoves(p, "next", "revoke")
                /\ verdict' = [verdict EXCEPT ![p] = "closed"]
             \/ /\ state[r] # "RELEASED" /\ r \notin handle
                /\ TaskMoves(p, "next", "noHandle")
                /\ verdict' = [verdict EXCEPT ![p] = "unknown"]
             \/ /\ state[r] # "RELEASED" /\ r \in handle
                /\ TaskMoves(p, "next", "destroy")
                /\ verdict' = [verdict EXCEPT ![p] = "unknown"]
          /\ todo' = [todo EXCEPT ![p] = @ \ {r}]
          /\ hand' = [hand EXCEPT ![p] = r]
          /\ sawMachine' = PutIf(sawMachine, p, r \in machine)
          /\ corroborated' = PutIf(corroborated, p, r \in goneNoted)
    /\ UNCHANGED <<rowVars, leaseVars, workVars, venueVars, acqVars, restarted,
                   worldVars>>

\* _note(NO_HANDLE), guarded on the handle still being null; a note may be lost.
NoteNoHandle(p) ==
    /\ Returns(p, "noHandle")
    /\ \/ hand[p] \notin handle /\ goneNoted' = goneNoted \ {hand[p]}
       \/ UNCHANGED goneNoted
    /\ UNCHANGED <<state, handle, machine, stamped, leaseVars, workVars, venueVars,
                   acqVars, todo, worldVars>>

\* provider.release confirmed the destroy.
Destroyed(p) ==
    /\ TaskMoves(p, "destroy", "revoke")
    /\ verdict' = [verdict EXCEPT ![p] = "gone"]
    /\ Destroys(hand[p])
    /\ UNCHANGED <<rowVars, leaseVars, workVars, call, acqVars, todo, hand,
                   sawMachine, corroborated, restarted, worldVars>>

\* provider.release refused or raised.
NotConfirmed(p) ==
    /\ TaskMoves(p, "destroy", "observe")
    /\ DoesNotConfirm(hand[p])
    /\ UNCHANGED <<rowVars, leaseVars, workVars, call, acqVars, todo, snapVars,
                   worldVars>>

\* Mutant: one absent reading closes the row.
ObserveGoneOnce(p) ==
    /\ TaskMoves(p, "observe", "revoke")
    /\ ~Listed(hand[p])
    /\ verdict' = [verdict EXCEPT ![p] = "gone"]
    /\ UNCHANGED <<rowVars, leaseVars, workVars, venueVars, acqVars, todo, hand,
                   sawMachine, corroborated, restarted, worldVars>>

\* _venue_says_gone answered yes: one absent reading is noted, the second, on a
\* row whose snapshot already carried the note, counts as a destroy.
ObserveGone(p) ==
    /\ pc[p] = "observe" /\ ~Listed(hand[p])
    /\ \/ /\ p \in corroborated
          /\ TaskMoves(p, "observe", "revoke")
          /\ verdict' = [verdict EXCEPT ![p] = "gone"]
       \/ /\ p \notin corroborated
          /\ TaskMoves(p, "observe", "noteGone")
          /\ UNCHANGED verdict
    /\ UNCHANGED <<rowVars, leaseVars, workVars, venueVars, acqVars, todo, hand,
                   sawMachine, corroborated, restarted, worldVars>>

\* It exists, or the venue could not be asked.
ObserveNotGone(p) ==
    /\ TaskMoves(p, "observe", "revoke")
    /\ UNCHANGED <<rowVars, leaseVars, workVars, venueVars, acqVars, todo,
                   snapVars, worldVars>>

\* Mutant: the note also puts the row back among the sweepable ones.
NoteAndReopen(r, gone) ==
    /\ state' = [state EXCEPT ![r] = IF @ \in Sweepable THEN @ ELSE "REQUESTED"]
    /\ stamped' = stamped \ {r}
    /\ goneNoted' = PutIf(goneNoted, r, gone)

\* _note, guarded on the row not being RELEASED; a note may be lost.
Note(r, gone) ==
    /\ \/ state[r] # "RELEASED" /\ goneNoted' = PutIf(goneNoted, r, gone)
       \/ UNCHANGED goneNoted
    /\ UNCHANGED <<state, stamped>>

NoteGone(p) ==
    /\ TaskMoves(p, "noteGone", "revoke")
    /\ verdict' = [verdict EXCEPT ![p] = "held"]
    /\ Note(hand[p], TRUE)
    /\ UNCHANGED <<handle, machine, leaseVars, workVars, venueVars, acqVars, todo,
                   hand, sawMachine, corroborated, restarted, worldVars>>

\* Where release_capacity goes once the credential has been dealt with.
AfterRevoke(p) ==
    \/ /\ verdict[p] = "gone"
       /\ TaskMoves(p, "revoke", "mark")
       /\ UNCHANGED snapVars
    \/ /\ verdict[p] = "unknown"
       /\ TaskMoves(p, "revoke", "notDestroyed")
       /\ UNCHANGED snapVars
    \/ /\ verdict[p] \in {"held", "closed"}
       /\ Returns(p, "revoke")

\* _revoke_credential: nothing to do without a machine; a failure is swallowed.
RevokeDone(p) ==
    /\ p \in sawMachine
    /\ Revoke(hand[p])
    /\ AfterRevoke(p)
    /\ UNCHANGED <<rowVars, workVars, venueVars, acqVars, todo, worldVars>>

RevokeSkipped(p) ==
    /\ AfterRevoke(p)
    /\ UNCHANGED <<rowVars, leaseVars, workVars, venueVars, acqVars, todo,
                   worldVars>>

NoteNotDestroyed(p) ==
    /\ Returns(p, "notDestroyed")
    /\ Note(hand[p], FALSE)
    /\ UNCHANGED <<handle, machine, leaseVars, workVars, venueVars, acqVars, todo,
                   worldVars>>

\* _mark_released: FAILED keeps its state, a RELEASED row is left alone.
MarkReleased(p) ==
    /\ Returns(p, "mark")
    /\ state' = [state EXCEPT ![hand[p]] =
                    IF @ \in Sweepable THEN "RELEASED" ELSE @]
    /\ stamped' = stamped \cup {hand[p]}
    /\ UNCHANGED <<handle, machine, goneNoted, leaseVars, workVars, venueVars,
                   acqVars, todo, worldVars>>

\* One more of the bounded faults.
Fault ==
    /\ faults < MaxFaults
    /\ faults' = faults + 1
    /\ UNCHANGED <<jobOver, due, lag, cleared>>

\* The database refuses the read or the mark: release_capacity raises, and the
\* loop that called it goes on with the next rental.
FetchRaises(p) ==
    /\ Fault
    /\ pc[p] = "next"
    /\ \E r \in todo[p] : todo' = [todo EXCEPT ![p] = @ \ {r}]
    /\ UNCHANGED <<rowVars, leaseVars, workVars, venueVars, acqVars, pc, snapVars>>

MarkRaises(p) ==
    /\ Fault
    /\ Returns(p, "mark")
    /\ UNCHANGED <<rowVars, leaseVars, workVars, venueVars, acqVars, todo>>

ReleaseCapacity(p) ==
    \/ FetchRaises(p) \/ MarkRaises(p)
    \/ Fetch(p) \/ NoteNoHandle(p) \/ Destroyed(p) \/ NotConfirmed(p)
    \/ ObserveGone(p) \/ ObserveNotGone(p) \/ NoteGone(p)
    \/ RevokeDone(p) \/ RevokeSkipped(p) \/ NoteNotDestroyed(p) \/ MarkReleased(p)

-----------------------------------------------------------------------------
(* reconcile_rented and settle_finished_jobs *)

\* A pass starts.  Passes are minutes apart, longer than a venue listing lags,
\* except the one a restarted process runs on its startup edge.
PassStarts(p) ==
    /\ TaskMoves(p, "idle", "next")
    /\ p \in restarted \/ \A r \in Rental : lag[r] # "lagging"
    /\ restarted' = restarted \ {p}
    /\ UNCHANGED <<rowVars, leaseVars, workVars, venueVars, acqVars, hand,
                   sawMachine, corroborated, verdict>>

\* The selection is made once, and worked through afterwards.  Disarmed, nothing
\* is released; and a selection that fails is taken for an empty one.
SweepBegins(p) ==
    /\ PassStarts(p)
    /\ todo' = [todo EXCEPT ![p] = IF Armed THEN Unreleased ELSE {}]
    /\ UNCHANGED worldVars

SweepBeginsBlind(p) ==
    /\ Fault
    /\ PassStarts(p)
    /\ UNCHANGED todo

\* The credential half runs armed or not: the orphans first...
ListOrphans(p) ==
    /\ todo[p] = {}
    /\ TaskMoves(p, "next", "finished")
    /\ todo' = [todo EXCEPT ![p] = OrphanedLeases]
    /\ UNCHANGED <<rowVars, leaseVars, workVars, venueVars, acqVars, snapVars,
                   worldVars>>

\* ...then the finished rentals, each machine once.
ListFinished(p) ==
    /\ TaskMoves(p, "finished", "credentials")
    /\ todo' = [todo EXCEPT ![p] = @ \cup FinishedWithLiveCredentials]
    /\ UNCHANGED <<rowVars, leaseVars, workVars, venueVars, acqVars, snapVars,
                   worldVars>>

EndLease(p) ==
    /\ pc[p] = "credentials"
    /\ \E r \in todo[p] :
          /\ todo' = [todo EXCEPT ![p] = @ \ {r}]
          /\ Revoke(r)
    /\ UNCHANGED <<rowVars, workVars, venueVars, acqVars, pc, snapVars, worldVars>>

EndLeaseFailed(p) ==
    /\ pc[p] = "credentials"
    /\ \E r \in todo[p] : todo' = [todo EXCEPT ![p] = @ \ {r}]
    /\ UNCHANGED <<rowVars, leaseVars, workVars, venueVars, acqVars, pc, snapVars,
                   worldVars>>

\* One of the two queries fails, and the credential half with it.
CredentialSweepFails(p) ==
    /\ Fault
    /\ \/ TaskMoves(p, "next", "idle") /\ todo[p] = {}
       \/ TaskMoves(p, "finished", "idle")
    /\ todo' = [todo EXCEPT ![p] = {}]
    /\ UNCHANGED <<rowVars, leaseVars, workVars, venueVars, acqVars, snapVars>>

SweepEnds(p) ==
    /\ todo[p] = {}
    /\ TaskMoves(p, "credentials", "idle")
    /\ UNCHANGED <<rowVars, leaseVars, workVars, venueVars, acqVars, todo,
                   snapVars, worldVars>>

\* A route observes a finished job and settles what was rented for it.
SettleBegins(p) ==
    /\ Armed
    /\ RentalsOfFinishedJobs # {}
    /\ TaskMoves(p, "idle", "next")
    /\ todo' = [todo EXCEPT ![p] = RentalsOfFinishedJobs]
    /\ UNCHANGED <<rowVars, leaseVars, workVars, venueVars, acqVars, snapVars,
                   worldVars>>

SettleEnds(p) ==
    /\ todo[p] = {}
    /\ TaskMoves(p, "next", "idle")
    /\ UNCHANGED <<rowVars, leaseVars, workVars, venueVars, acqVars, todo,
                   snapVars, worldVars>>

\* The process dies between two statements; the loop runs again at startup.
TaskDies(p) ==
    /\ Fault
    /\ pc[p] # "idle"
    /\ pc' = [pc EXCEPT ![p] = "idle"]
    /\ todo' = [todo EXCEPT ![p] = {}]
    /\ restarted' = restarted \cup ({p} \cap Sweep)
    /\ Forgets(p)
    /\ UNCHANGED <<rowVars, leaseVars, workVars, venueVars, acqVars>>

\* One pass of the loop, and nothing but it.
SweepWorks(p) ==
    \/ SweepBegins(p) \/ SweepBeginsBlind(p) \/ ReleaseCapacity(p)
    \/ ListOrphans(p) \/ ListFinished(p) \/ CredentialSweepFails(p)
    \/ EndLease(p) \/ EndLeaseFailed(p) \/ SweepEnds(p)

SweepStep(p) == SweepWorks(p) \/ TaskDies(p)

SettleStep(p) ==
    SettleBegins(p) \/ ReleaseCapacity(p) \/ SettleEnds(p) \/ TaskDies(p)

-----------------------------------------------------------------------------
(* POST /machines/{id}/revoke without force: the question, then the revoke,
   which ends the token and leaves the pool bindings. *)
OwnerAsks(r) ==
    /\ lease[r] = "active" /\ work[r] = "idle" /\ r \notin cleared
    /\ cleared' = cleared \cup {r}
    /\ UNCHANGED <<rowVars, leaseVars, workVars, venueVars, acqVars, taskVars,
                   jobOver, due, lag, faults>>

OwnerRevokes(r) ==
    /\ r \in cleared
    /\ cleared' = cleared \ {r}
    /\ lease' = [lease EXCEPT ![r] = "revoked"]
    /\ UNCHANGED <<rowVars, bound, workVars, venueVars, acqVars, taskVars,
                   jobOver, due, lag, faults>>

(* The world outside: the venue, the machine and the job. *)
VenueCreates(r) ==
    /\ call[r] = "pending"
    /\ call' = [call EXCEPT ![r] = "served"]
    /\ venue' = [venue EXCEPT ![r] = "live"]
    /\ UNCHANGED <<rowVars, leaseVars, workVars, acqVars, taskVars, worldVars>>

VenueLoses(r) ==
    /\ venue[r] = "live"
    /\ venue' = [venue EXCEPT ![r] = "gone"]
    /\ UNCHANGED <<rowVars, leaseVars, workVars, call, acqVars, taskVars, worldVars>>

ListingLags(r) ==
    /\ r \in Lagging /\ venue[r] = "live" /\ lag[r] = "never"
    /\ lag' = [lag EXCEPT ![r] = "lagging"]
    /\ UNCHANGED <<rowVars, leaseVars, workVars, venueVars, acqVars, taskVars,
                   jobOver, due, cleared, faults>>

ListingCatchesUp(r) ==
    /\ lag[r] = "lagging"
    /\ lag' = [lag EXCEPT ![r] = "over"]
    /\ UNCHANGED <<rowVars, leaseVars, workVars, venueVars, acqVars, taskVars,
                   jobOver, due, cleared, faults>>

\* The machine claims a task of any job of its pool; a claim restarts the windows.
Claim(r) ==
    /\ venue[r] = "live" /\ lease[r] = "active" /\ r \in bound
    /\ work[r] = "idle" /\ claims[r] < MaxClaims
    /\ work' = [work EXCEPT ![r] = "running"]
    /\ claims' = [claims EXCEPT ![r] = @ + 1]
    /\ due' = due \ {r}
    /\ UNCHANGED <<rowVars, leaseVars, venueVars, acqVars, taskVars, jobOver, lag,
                   cleared, faults>>

\* The attempt is resolved, or its lease runs out of cover.
WorkEnds(r) ==
    /\ work[r] = "running"
    /\ work' = [work EXCEPT ![r] = "idle"]
    /\ UNCHANGED <<rowVars, leaseVars, claims, venueVars, acqVars, taskVars,
                   worldVars>>

JobEnds(r) ==
    /\ state[r] # "none" /\ r \notin jobOver
    /\ jobOver' = jobOver \cup {r}
    /\ UNCHANGED <<rowVars, leaseVars, workVars, venueVars, acqVars, taskVars, due,
                   lag, cleared, faults>>

\* The window that applies to the rental or to its lease runs out.
WindowElapses(r) ==
    /\ state[r] # "none" /\ r \notin due
    /\ due' = due \cup {r}
    /\ UNCHANGED <<rowVars, leaseVars, workVars, venueVars, acqVars, taskVars,
                   jobOver, lag, cleared, faults>>

World(r) ==
    \/ OwnerAsks(r) \/ OwnerRevokes(r) \/ VenueCreates(r) \/ VenueLoses(r)
    \/ ListingLags(r) \/ ListingCatchesUp(r) \/ Claim(r) \/ WorkEnds(r)
    \/ JobEnds(r) \/ WindowElapses(r)

Next ==
    \/ \E r \in Rental : Acquire(r) \/ World(r)
    \/ \E p \in Sweep : SweepStep(p)
    \/ \E p \in Settle : SettleStep(p)

Spec == Init /\ [][Next]_vars

-----------------------------------------------------------------------------
(* Fairness.  The loop in app.py swallows every failure and runs again, so a
   sweep keeps moving, and after the last fault its passes complete; a venue
   asked again and again in the end confirms a destroy, and a revoke, one
   transaction on our own database, in the end commits.  Windows run out and
   work ends with no observer.  Nothing is assumed of an acquisition or of a
   settle: one may hang, the other may never be called. *)
Fairness ==
    /\ \A p \in Sweep : /\ WF_vars(SweepWorks(p))
                        /\ SF_vars(Destroyed(p))
                        /\ SF_vars(EndLease(p))
    /\ \A r \in Rental : WF_vars(WorkEnds(r)) /\ WF_vars(WindowElapses(r))

FairSpec == Spec /\ Fairness

-----------------------------------------------------------------------------
(* Safety. *)

\* A closed row is a claim that nothing is billing: no machine runs at the venue
\* behind a RELEASED or FAILED row, and no create request is still on its way to
\* making one (reconcile.py, acquire._close_failed, _mark_released).
NothingBillsBehindAClosedRow ==
    \A r \in Rental : Closed(r) => ~Bills(r)

\* released_at is set only on a closed row whose machine is gone, and on every
\* RELEASED one: a row reopened by _keep_sweepable takes the stamp back.
ReleasedAtIsEvidence ==
    \A r \in Rental :
        /\ r \in stamped => Closed(r) /\ venue[r] # "live"
        /\ state[r] = "RELEASED" => r \in stamped

\* A row settled by one actor is never reopened by a note of another: only the
\* acquisition that could not destroy its own machine reopens its row.
OnlyItsAcquisitionReopensARow ==
    [][\A r \in Rental : Closed(r) /\ Open(r)' => acq[r] = "close"]_vars

\* No release_capacity, of a sweep or of a settle, destroys a machine that holds
\* a task its lease still covers and its token can still report.
NoTaskDestroyed ==
    [][\A p \in Task :
          pc[p] = "destroy" /\ venue[hand[p]] = "live"
             /\ venue'[hand[p]] = "gone"
             /\ pc'[p] \in {"revoke", "observe"}
          => ~(work[hand[p]] = "running" /\ lease[hand[p]] = "active")]_vars

\* The implementation of MachineLiability: a rental is owed while its row is open,
\* and may bill from the create request to the end of the machine.
Owed      == {r \in Rental : Open(r)}
Billing   == {r \in Rental : Bills(r)}
Liability == INSTANCE MachineLiability WITH owed <- Owed, billing <- Billing

\* Rows and machines keep the promise of MachineLiability, step by step: nothing
\* bills that no open row owes for, and no row is settled before the machine ends.
KeepsLiability == Liability!Spec

(* The inductive invariant.  What it says of money speaks of the rentals whose
   venue listing never lags: for the others one absent reading may be false, and
   only the pace of the sweeps, which no inductive argument sees, keeps the
   promise. *)
Honest == Rental \ Lagging

\* Nothing exists for a rental before its venue was asked; a handle names
\* something the venue has created; the stamp belongs to the closed rows.
RowInv(r) ==
    /\ acq[r] = "idle" <=> state[r] = "none"
    /\ acq[r] \in {"idle", "opened", "minted"} => r \notin asked /\ ~Closed(r)
    /\ r \notin asked => venue[r] = "none" /\ call[r] = "none"
    /\ call[r] = "pending" => venue[r] = "none"
    /\ acq[r] = "answered" => r \in gotHandle
    /\ r \in gotHandle \/ r \in handle => venue[r] # "none"
    /\ r \in stamped => Closed(r)
    /\ state[r] = "RELEASED" => r \in stamped

\* What _abandon calls settled is, and what is closed bills nothing.
HonestInv(r) ==
    /\ lag[r] = "never"
    /\ r \in settled => acq[r] \in {"unmint", "close", "failed", "dead"} /\ ~Bills(r)
    /\ Closed(r) => ~Bills(r)

\* A release_capacity under way has a rental in hand, whose machine the venue
\* has made; it takes it for destroyed only when it is.
TaskInv(p) ==
    /\ pc[p] \in Releasing => hand[p] \in Rental
    /\ hand[p] \in Rental /\ (pc[p] \in {"destroy", "observe"} \/ verdict[p] = "gone")
          => venue[hand[p]] # "none"
    /\ hand[p] \in Honest /\ verdict[p] = "gone" => venue[hand[p]] = "gone"
    /\ pc[p] = "mark" => verdict[p] = "gone"

IInv ==
    /\ TypeOK
    /\ \A r \in Rental : RowInv(r)
    /\ \A r \in Honest : HonestInv(r)
    /\ \A p \in Task : TaskInv(p)

(* Liveness, under FairSpec. *)

\* A machine the row can name is in the end destroyed and its row closed, with
\* no page open and whatever the acquisition that made it does.
NamedMachineIsReleased ==
    \A r \in Rental :
        r \in handle ~> (Closed(r) /\ venue[r] = "gone")

\* Every lease ends: once the rental is closed, or the acquisition is over and
\* no row names the machine, the token is in the end revoked and unbound.
LeaseEnds ==
    \A r \in Rental :
        (Closed(r) \/ (acq[r] \in {"dead", "failed"} /\ r \notin machine))
            ~> ~LeaseLive(r)
=============================================================================

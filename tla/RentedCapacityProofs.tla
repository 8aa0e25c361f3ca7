------------------------ MODULE RentedCapacityProofs ------------------------
(***************************************************************************)
(* What holds of RentedCapacity for any number of rentals, sweeps and      *)
(* settles.  The inductive invariant IInv is proved action by action, in   *)
(* four families of lemmas (types, rows, honest rentals, tasks), each cut  *)
(* along the disjuncts of Next; the properties follow from it, and so does *)
(* the refinement of MachineLiability.                                     *)
(***************************************************************************)
EXTENDS RentedCapacity, TLAPS

USE NoRentalAssumption, BoundsAssumption, SwitchesAssumption
USE DEF rowVars, leaseVars, workVars, venueVars, heldVars, acqVars, snapVars,
        taskVars, worldVars

\* Every initial state satisfies the inductive invariant.
LEMMA InitIInv == Init => IInv
BY DEF Init, IInv, TypeOK, RowInv, HonestInv, TaskInv, Honest, Closed, Bills,
       AcqSteps, Abandoning, TaskSteps, States, Verdicts, Releasing, Task

\* Types are kept by a step of acquire_for_job.
LEMMA TypeAcquire ==
  ASSUME IInv, NEW r \in Rental,
         Acquire(r)
  PROVE  TypeOK'
<1> USE DEF IInv, TypeOK, TaskInv, Releasing, AcqSteps, Abandoning, TaskSteps,
        States, Verdicts, Task
<1>1. CASE OpenRow(r) BY <1>1 DEF OpenRow, AcqMoves
<1>2. CASE Mint(r) BY <1>2 DEF Mint, AcqMoves
<1>3. CASE MintRefused(r) BY <1>3 DEF MintRefused, AcqMoves
<1>4. CASE AskVenue(r) BY <1>4 DEF AskVenue, AcqMoves
<1>5. CASE VenueAnswered(r) BY <1>5 DEF VenueAnswered, AcqMoves
<1>6. CASE VenueRaised(r) BY <1>6 DEF VenueRaised, AcqMoves
<1>7. CASE RateRefused(r) BY <1>7 DEF RateRefused, AcqMoves
<1>8. CASE MoveToActive(r) BY <1>8 DEF MoveToActive, AcqMoves
<1>9. CASE RecordEvidence(r) BY <1>9 DEF RecordEvidence, AcqMoves
<1>10. CASE AbandonMachine(r)
      BY <1>10 DEF AbandonMachine, AcqMoves, Destroys, DoesNotConfirm, Listed
<1>11. CASE AbandonCredential(r)
      BY <1>11 DEF AbandonCredential, AcqMoves, Revoke
<1>12. CASE AbandonClose(r)
      BY <1>12 DEF AbandonClose, AcqMoves, CloseFailed, KeepSweepable,
          Sweepable, Open
<1>13. CASE AcquireDies(r) BY <1>13 DEF AcquireDies
<1> QED BY <1>1, <1>2, <1>3, <1>4, <1>5, <1>6, <1>7, <1>8, <1>9, <1>10, <1>11,
        <1>12, <1>13
        DEF Acquire

\* Types are kept by a step of an owner, a venue, a job or a machine.
LEMMA TypeWorld ==
  ASSUME IInv, NEW r \in Rental,
         World(r)
  PROVE  TypeOK'
<1> USE DEF IInv, TypeOK, TaskInv, Releasing, AcqSteps, Abandoning, TaskSteps,
        States, Verdicts, Task
<1>1. CASE OwnerAsks(r) BY <1>1 DEF OwnerAsks
<1>2. CASE OwnerRevokes(r) BY <1>2 DEF OwnerRevokes
<1>3. CASE VenueCreates(r) BY <1>3 DEF VenueCreates
<1>4. CASE VenueLoses(r) BY <1>4 DEF VenueLoses
<1>5. CASE ListingLags(r) BY <1>5 DEF ListingLags
<1>6. CASE ListingCatchesUp(r) BY <1>6 DEF ListingCatchesUp
<1>7. CASE Claim(r) BY <1>7 DEF Claim
<1>8. CASE WorkEnds(r) BY <1>8 DEF WorkEnds
<1>9. CASE JobEnds(r) BY <1>9 DEF JobEnds
<1>10. CASE WindowElapses(r) BY <1>10 DEF WindowElapses
<1> QED BY <1>1, <1>2, <1>3, <1>4, <1>5, <1>6, <1>7, <1>8, <1>9, <1>10
        DEF World

\* Types are kept by a step of release_capacity.
LEMMA TypeRelease ==
  ASSUME IInv, NEW p \in Task,
         ReleaseCapacity(p)
  PROVE  TypeOK'
<1> USE DEF IInv, TypeOK, TaskInv, Releasing, AcqSteps, Abandoning, TaskSteps,
        States, Verdicts, Task
<1>1. CASE FetchRaises(p) BY <1>1 DEF FetchRaises, Fault
<1>2. CASE MarkRaises(p) BY <1>2 DEF MarkRaises, TaskMoves, Returns, Forgets, Fault
<1>3. CASE Fetch(p) BY <1>3 DEF Fetch, TaskMoves, PutIf
<1>4. CASE NoteNoHandle(p) BY <1>4 DEF NoteNoHandle, TaskMoves, Returns, Forgets
<1>5. CASE Destroyed(p) BY <1>5 DEF Destroyed, TaskMoves, Destroys, Listed
<1>6. CASE NotConfirmed(p) BY <1>6 DEF NotConfirmed, TaskMoves, DoesNotConfirm
<1>7. CASE ObserveGone(p) BY <1>7 DEF ObserveGone, TaskMoves, Listed
<1>8. CASE ObserveNotGone(p) BY <1>8 DEF ObserveNotGone, TaskMoves
<1>9. CASE NoteGone(p) BY <1>9 DEF NoteGone, TaskMoves, Note, PutIf
<1>10. CASE RevokeDone(p)
      BY <1>10 DEF RevokeDone, TaskMoves, Returns, Forgets, Revoke, AfterRevoke
<1>11. CASE RevokeSkipped(p)
      BY <1>11 DEF RevokeSkipped, TaskMoves, Returns, Forgets, AfterRevoke
<1>12. CASE NoteNotDestroyed(p)
      BY <1>12 DEF NoteNotDestroyed, TaskMoves, Returns, Forgets, Note, PutIf
<1>13. CASE MarkReleased(p)
      BY <1>13 DEF MarkReleased, TaskMoves, Returns, Forgets, Sweepable
<1> QED BY <1>1, <1>2, <1>3, <1>4, <1>5, <1>6, <1>7, <1>8, <1>9, <1>10, <1>11,
        <1>12, <1>13
        DEF ReleaseCapacity

\* Types are kept by any other step of a sweep or a settle.
LEMMA TypeTask ==
  ASSUME IInv, NEW p \in Task,
         \/ SweepBegins(p) \/ SweepBeginsBlind(p) \/ ListOrphans(p)
         \/ ListFinished(p) \/ CredentialSweepFails(p) \/ EndLease(p)
         \/ EndLeaseFailed(p) \/ SweepEnds(p) \/ SettleBegins(p)
         \/ SettleEnds(p) \/ TaskDies(p)
  PROVE  TypeOK'
<1> USE DEF IInv, TypeOK, TaskInv, Releasing, AcqSteps, Abandoning, TaskSteps,
        States, Verdicts, Task
<1>1. CASE SweepBegins(p)
      BY <1>1 DEF SweepBegins, TaskMoves, PassStarts, Unreleased
<1>2. CASE SweepBeginsBlind(p)
      BY <1>2 DEF SweepBeginsBlind, TaskMoves, PassStarts, Fault
<1>3. CASE ListOrphans(p) BY <1>3 DEF ListOrphans, TaskMoves, OrphanedLeases
<1>4. CASE ListFinished(p)
      BY <1>4 DEF ListFinished, TaskMoves, FinishedWithLiveCredentials
<1>5. CASE CredentialSweepFails(p)
      BY <1>5 DEF CredentialSweepFails, TaskMoves, Fault
<1>6. CASE EndLease(p) BY <1>6 DEF EndLease, Revoke
<1>7. CASE EndLeaseFailed(p) BY <1>7 DEF EndLeaseFailed
<1>8. CASE SweepEnds(p) BY <1>8 DEF SweepEnds, TaskMoves
<1>9. CASE SettleBegins(p)
      BY <1>9 DEF SettleBegins, TaskMoves, RentalsOfFinishedJobs
<1>10. CASE SettleEnds(p) BY <1>10 DEF SettleEnds, TaskMoves
<1>11. CASE TaskDies(p) BY <1>11 DEF TaskDies, Forgets, Fault
<1> QED BY <1>1, <1>2, <1>3, <1>4, <1>5, <1>6, <1>7, <1>8, <1>9, <1>10, <1>11

\* RowInv is kept by a step of acquire_for_job.
LEMMA RowAcquire ==
  ASSUME IInv, NEW x \in Rental, NEW r \in Rental,
         Acquire(r)
  PROVE  RowInv(x)'
<1> USE DEF IInv, TypeOK, RowInv, TaskInv, Releasing, Closed, Bills, States,
        Task
<1>1. CASE OpenRow(r) BY <1>1 DEF OpenRow, AcqMoves
<1>2. CASE Mint(r) BY <1>2 DEF Mint, AcqMoves
<1>3. CASE MintRefused(r) BY <1>3 DEF MintRefused, AcqMoves
<1>4. CASE AskVenue(r) BY <1>4 DEF AskVenue, AcqMoves
<1>5. CASE VenueAnswered(r) BY <1>5 DEF VenueAnswered, AcqMoves
<1>6. CASE VenueRaised(r) BY <1>6 DEF VenueRaised, AcqMoves
<1>7. CASE RateRefused(r) BY <1>7 DEF RateRefused, AcqMoves
<1>8. CASE MoveToActive(r) BY <1>8 DEF MoveToActive, AcqMoves
<1>9. CASE RecordEvidence(r) BY <1>9 DEF RecordEvidence, AcqMoves
<1>10. CASE AbandonMachine(r)
      BY <1>10 DEF AbandonMachine, AcqMoves, Destroys, DoesNotConfirm, Listed
<1>11. CASE AbandonCredential(r)
      BY <1>11 DEF AbandonCredential, AcqMoves, Revoke
<1>12. CASE AbandonClose(r)
      BY <1>12 DEF AbandonClose, AcqMoves, CloseFailed, KeepSweepable,
          Sweepable, Open
<1>13. CASE AcquireDies(r) BY <1>13 DEF AcquireDies
<1> QED BY <1>1, <1>2, <1>3, <1>4, <1>5, <1>6, <1>7, <1>8, <1>9, <1>10, <1>11,
        <1>12, <1>13
        DEF Acquire

\* RowInv is kept by a step of an owner, a venue, a job or a machine.
LEMMA RowWorld ==
  ASSUME IInv, NEW x \in Rental, NEW r \in Rental,
         World(r)
  PROVE  RowInv(x)'
<1> USE DEF IInv, TypeOK, RowInv, TaskInv, Releasing, Closed, Bills, States,
        Task
<1>1. CASE OwnerAsks(r) BY <1>1 DEF OwnerAsks
<1>2. CASE OwnerRevokes(r) BY <1>2 DEF OwnerRevokes
<1>3. CASE VenueCreates(r) BY <1>3 DEF VenueCreates
<1>4. CASE VenueLoses(r) BY <1>4 DEF VenueLoses
<1>5. CASE ListingLags(r) BY <1>5 DEF ListingLags
<1>6. CASE ListingCatchesUp(r) BY <1>6 DEF ListingCatchesUp
<1>7. CASE Claim(r) BY <1>7 DEF Claim
<1>8. CASE WorkEnds(r) BY <1>8 DEF WorkEnds
<1>9. CASE JobEnds(r) BY <1>9 DEF JobEnds
<1>10. CASE WindowElapses(r) BY <1>10 DEF WindowElapses
<1> QED BY <1>1, <1>2, <1>3, <1>4, <1>5, <1>6, <1>7, <1>8, <1>9, <1>10
        DEF World

\* RowInv is kept by a step of release_capacity.
LEMMA RowRelease ==
  ASSUME IInv, NEW x \in Rental, NEW p \in Task,
         ReleaseCapacity(p)
  PROVE  RowInv(x)'
<1> USE DEF IInv, TypeOK, RowInv, TaskInv, Releasing, Closed, Bills, States,
        Task
<1>1. CASE FetchRaises(p) BY <1>1 DEF FetchRaises, Fault
<1>2. CASE MarkRaises(p) BY <1>2 DEF MarkRaises, TaskMoves, Returns, Forgets, Fault
<1>3. CASE Fetch(p) BY <1>3 DEF Fetch, TaskMoves, PutIf
<1>4. CASE NoteNoHandle(p) BY <1>4 DEF NoteNoHandle, TaskMoves, Returns, Forgets
<1>5. CASE Destroyed(p) BY <1>5 DEF Destroyed, TaskMoves, Destroys, Listed
<1>6. CASE NotConfirmed(p) BY <1>6 DEF NotConfirmed, TaskMoves, DoesNotConfirm
<1>7. CASE ObserveGone(p) BY <1>7 DEF ObserveGone, TaskMoves, Listed
<1>8. CASE ObserveNotGone(p) BY <1>8 DEF ObserveNotGone, TaskMoves
<1>9. CASE NoteGone(p) BY <1>9 DEF NoteGone, TaskMoves, Note, PutIf
<1>10. CASE RevokeDone(p)
      BY <1>10 DEF RevokeDone, TaskMoves, Returns, Forgets, Revoke, AfterRevoke
<1>11. CASE RevokeSkipped(p)
      BY <1>11 DEF RevokeSkipped, TaskMoves, Returns, Forgets, AfterRevoke
<1>12. CASE NoteNotDestroyed(p)
      BY <1>12 DEF NoteNotDestroyed, TaskMoves, Returns, Forgets, Note, PutIf
<1>13. CASE MarkReleased(p)
      BY <1>13 DEF MarkReleased, TaskMoves, Returns, Forgets, Sweepable
<1> QED BY <1>1, <1>2, <1>3, <1>4, <1>5, <1>6, <1>7, <1>8, <1>9, <1>10, <1>11,
        <1>12, <1>13
        DEF ReleaseCapacity

\* RowInv is kept by any other step of a sweep or a settle.
LEMMA RowTask ==
  ASSUME IInv, NEW x \in Rental, NEW p \in Task,
         \/ SweepBegins(p) \/ SweepBeginsBlind(p) \/ ListOrphans(p)
         \/ ListFinished(p) \/ CredentialSweepFails(p) \/ EndLease(p)
         \/ EndLeaseFailed(p) \/ SweepEnds(p) \/ SettleBegins(p)
         \/ SettleEnds(p) \/ TaskDies(p)
  PROVE  RowInv(x)'
<1> USE DEF IInv, TypeOK, RowInv, TaskInv, Releasing, Closed, Bills, States,
        Task
<1>1. CASE SweepBegins(p)
      BY <1>1 DEF SweepBegins, TaskMoves, PassStarts, Unreleased
<1>2. CASE SweepBeginsBlind(p)
      BY <1>2 DEF SweepBeginsBlind, TaskMoves, PassStarts, Fault
<1>3. CASE ListOrphans(p) BY <1>3 DEF ListOrphans, TaskMoves, OrphanedLeases
<1>4. CASE ListFinished(p)
      BY <1>4 DEF ListFinished, TaskMoves, FinishedWithLiveCredentials
<1>5. CASE CredentialSweepFails(p)
      BY <1>5 DEF CredentialSweepFails, TaskMoves, Fault
<1>6. CASE EndLease(p) BY <1>6 DEF EndLease, Revoke
<1>7. CASE EndLeaseFailed(p) BY <1>7 DEF EndLeaseFailed
<1>8. CASE SweepEnds(p) BY <1>8 DEF SweepEnds, TaskMoves
<1>9. CASE SettleBegins(p)
      BY <1>9 DEF SettleBegins, TaskMoves, RentalsOfFinishedJobs
<1>10. CASE SettleEnds(p) BY <1>10 DEF SettleEnds, TaskMoves
<1>11. CASE TaskDies(p) BY <1>11 DEF TaskDies, Forgets, Fault
<1> QED BY <1>1, <1>2, <1>3, <1>4, <1>5, <1>6, <1>7, <1>8, <1>9, <1>10, <1>11

\* HonestInv is kept by a step of acquire_for_job.
LEMMA HonestAcquire ==
  ASSUME IInv, NEW x \in Honest, NEW r \in Rental,
         Acquire(r)
  PROVE  HonestInv(x)'
<1> USE DEF IInv, TypeOK, RowInv, HonestInv, TaskInv, Releasing, Honest,
        Closed, Bills, States, Task
<1>1. CASE OpenRow(r) BY <1>1 DEF OpenRow, AcqMoves
<1>2. CASE Mint(r) BY <1>2 DEF Mint, AcqMoves
<1>3. CASE MintRefused(r) BY <1>3 DEF MintRefused, AcqMoves
<1>4. CASE AskVenue(r) BY <1>4 DEF AskVenue, AcqMoves
<1>5. CASE VenueAnswered(r) BY <1>5 DEF VenueAnswered, AcqMoves
<1>6. CASE VenueRaised(r) BY <1>6 DEF VenueRaised, AcqMoves
<1>7. CASE RateRefused(r) BY <1>7 DEF RateRefused, AcqMoves
<1>8. CASE MoveToActive(r) BY <1>8 DEF MoveToActive, AcqMoves
<1>9. CASE RecordEvidence(r) BY <1>9 DEF RecordEvidence, AcqMoves
<1>10. CASE AbandonMachine(r)
      BY <1>10 DEF AbandonMachine, AcqMoves, Destroys, DoesNotConfirm, Listed
<1>11. CASE AbandonCredential(r)
      BY <1>11 DEF AbandonCredential, AcqMoves, Revoke
<1>12. CASE AbandonClose(r)
      BY <1>12 DEF AbandonClose, AcqMoves, CloseFailed, KeepSweepable,
          Sweepable, Open
<1>13. CASE AcquireDies(r) BY <1>13 DEF AcquireDies
<1> QED BY <1>1, <1>2, <1>3, <1>4, <1>5, <1>6, <1>7, <1>8, <1>9, <1>10, <1>11,
        <1>12, <1>13
        DEF Acquire

\* HonestInv is kept by a step of an owner, a venue, a job or a machine.
LEMMA HonestWorld ==
  ASSUME IInv, NEW x \in Honest, NEW r \in Rental,
         World(r)
  PROVE  HonestInv(x)'
<1> USE DEF IInv, TypeOK, RowInv, HonestInv, TaskInv, Releasing, Honest,
        Closed, Bills, States, Task
<1>1. CASE OwnerAsks(r) BY <1>1 DEF OwnerAsks
<1>2. CASE OwnerRevokes(r) BY <1>2 DEF OwnerRevokes
<1>3. CASE VenueCreates(r) BY <1>3 DEF VenueCreates
<1>4. CASE VenueLoses(r) BY <1>4 DEF VenueLoses
<1>5. CASE ListingLags(r) BY <1>5 DEF ListingLags
<1>6. CASE ListingCatchesUp(r) BY <1>6 DEF ListingCatchesUp
<1>7. CASE Claim(r) BY <1>7 DEF Claim
<1>8. CASE WorkEnds(r) BY <1>8 DEF WorkEnds
<1>9. CASE JobEnds(r) BY <1>9 DEF JobEnds
<1>10. CASE WindowElapses(r) BY <1>10 DEF WindowElapses
<1> QED BY <1>1, <1>2, <1>3, <1>4, <1>5, <1>6, <1>7, <1>8, <1>9, <1>10
        DEF World

\* HonestInv is kept by a step of release_capacity.
LEMMA HonestRelease ==
  ASSUME IInv, NEW x \in Honest, NEW p \in Task,
         ReleaseCapacity(p)
  PROVE  HonestInv(x)'
<1> USE DEF IInv, TypeOK, RowInv, HonestInv, TaskInv, Releasing, Honest,
        Closed, Bills, States, Task
<1>1. CASE FetchRaises(p) BY <1>1 DEF FetchRaises, Fault
<1>2. CASE MarkRaises(p) BY <1>2 DEF MarkRaises, TaskMoves, Returns, Forgets, Fault
<1>3. CASE Fetch(p) BY <1>3 DEF Fetch, TaskMoves, PutIf
<1>4. CASE NoteNoHandle(p) BY <1>4 DEF NoteNoHandle, TaskMoves, Returns, Forgets
<1>5. CASE Destroyed(p) BY <1>5 DEF Destroyed, TaskMoves, Destroys, Listed
<1>6. CASE NotConfirmed(p) BY <1>6 DEF NotConfirmed, TaskMoves, DoesNotConfirm
<1>7. CASE ObserveGone(p) BY <1>7 DEF ObserveGone, TaskMoves, Listed
<1>8. CASE ObserveNotGone(p) BY <1>8 DEF ObserveNotGone, TaskMoves
<1>9. CASE NoteGone(p) BY <1>9 DEF NoteGone, TaskMoves, Note, PutIf
<1>10. CASE RevokeDone(p)
      BY <1>10 DEF RevokeDone, TaskMoves, Returns, Forgets, Revoke, AfterRevoke
<1>11. CASE RevokeSkipped(p)
      BY <1>11 DEF RevokeSkipped, TaskMoves, Returns, Forgets, AfterRevoke
<1>12. CASE NoteNotDestroyed(p)
      BY <1>12 DEF NoteNotDestroyed, TaskMoves, Returns, Forgets, Note, PutIf
<1>13. CASE MarkReleased(p)
      BY <1>13 DEF MarkReleased, TaskMoves, Returns, Forgets, Sweepable
<1> QED BY <1>1, <1>2, <1>3, <1>4, <1>5, <1>6, <1>7, <1>8, <1>9, <1>10, <1>11,
        <1>12, <1>13
        DEF ReleaseCapacity

\* HonestInv is kept by any other step of a sweep or a settle.
LEMMA HonestTask ==
  ASSUME IInv, NEW x \in Honest, NEW p \in Task,
         \/ SweepBegins(p) \/ SweepBeginsBlind(p) \/ ListOrphans(p)
         \/ ListFinished(p) \/ CredentialSweepFails(p) \/ EndLease(p)
         \/ EndLeaseFailed(p) \/ SweepEnds(p) \/ SettleBegins(p)
         \/ SettleEnds(p) \/ TaskDies(p)
  PROVE  HonestInv(x)'
<1> USE DEF IInv, TypeOK, RowInv, HonestInv, TaskInv, Releasing, Honest,
        Closed, Bills, States, Task
<1>1. CASE SweepBegins(p)
      BY <1>1 DEF SweepBegins, TaskMoves, PassStarts, Unreleased
<1>2. CASE SweepBeginsBlind(p)
      BY <1>2 DEF SweepBeginsBlind, TaskMoves, PassStarts, Fault
<1>3. CASE ListOrphans(p) BY <1>3 DEF ListOrphans, TaskMoves, OrphanedLeases
<1>4. CASE ListFinished(p)
      BY <1>4 DEF ListFinished, TaskMoves, FinishedWithLiveCredentials
<1>5. CASE CredentialSweepFails(p)
      BY <1>5 DEF CredentialSweepFails, TaskMoves, Fault
<1>6. CASE EndLease(p) BY <1>6 DEF EndLease, Revoke
<1>7. CASE EndLeaseFailed(p) BY <1>7 DEF EndLeaseFailed
<1>8. CASE SweepEnds(p) BY <1>8 DEF SweepEnds, TaskMoves
<1>9. CASE SettleBegins(p)
      BY <1>9 DEF SettleBegins, TaskMoves, RentalsOfFinishedJobs
<1>10. CASE SettleEnds(p) BY <1>10 DEF SettleEnds, TaskMoves
<1>11. CASE TaskDies(p) BY <1>11 DEF TaskDies, Forgets, Fault
<1> QED BY <1>1, <1>2, <1>3, <1>4, <1>5, <1>6, <1>7, <1>8, <1>9, <1>10, <1>11

\* TaskInv is kept by a step of acquire_for_job.
LEMMA TaskAcquire ==
  ASSUME IInv, NEW q \in Task, NEW r \in Rental,
         Acquire(r)
  PROVE  TaskInv(q)'
<1> USE DEF IInv, TypeOK, RowInv, HonestInv, TaskInv, Releasing, Honest, Task
<1>1. CASE OpenRow(r) BY <1>1 DEF OpenRow, AcqMoves
<1>2. CASE Mint(r) BY <1>2 DEF Mint, AcqMoves
<1>3. CASE MintRefused(r) BY <1>3 DEF MintRefused, AcqMoves
<1>4. CASE AskVenue(r) BY <1>4 DEF AskVenue, AcqMoves
<1>5. CASE VenueAnswered(r) BY <1>5 DEF VenueAnswered, AcqMoves
<1>6. CASE VenueRaised(r) BY <1>6 DEF VenueRaised, AcqMoves
<1>7. CASE RateRefused(r) BY <1>7 DEF RateRefused, AcqMoves
<1>8. CASE MoveToActive(r) BY <1>8 DEF MoveToActive, AcqMoves
<1>9. CASE RecordEvidence(r) BY <1>9 DEF RecordEvidence, AcqMoves
<1>10. CASE AbandonMachine(r)
      BY <1>10 DEF AbandonMachine, AcqMoves, Destroys, DoesNotConfirm, Listed
<1>11. CASE AbandonCredential(r)
      BY <1>11 DEF AbandonCredential, AcqMoves, Revoke
<1>12. CASE AbandonClose(r)
      BY <1>12 DEF AbandonClose, AcqMoves, CloseFailed, KeepSweepable,
          Sweepable, Open
<1>13. CASE AcquireDies(r) BY <1>13 DEF AcquireDies
<1> QED BY <1>1, <1>2, <1>3, <1>4, <1>5, <1>6, <1>7, <1>8, <1>9, <1>10, <1>11,
        <1>12, <1>13
        DEF Acquire

\* TaskInv is kept by a step of an owner, a venue, a job or a machine.
LEMMA TaskWorld ==
  ASSUME IInv, NEW q \in Task, NEW r \in Rental,
         World(r)
  PROVE  TaskInv(q)'
<1> USE DEF IInv, TypeOK, RowInv, HonestInv, TaskInv, Releasing, Honest, Task
<1>1. CASE OwnerAsks(r) BY <1>1 DEF OwnerAsks
<1>2. CASE OwnerRevokes(r) BY <1>2 DEF OwnerRevokes
<1>3. CASE VenueCreates(r) BY <1>3 DEF VenueCreates
<1>4. CASE VenueLoses(r) BY <1>4 DEF VenueLoses
<1>5. CASE ListingLags(r) BY <1>5 DEF ListingLags
<1>6. CASE ListingCatchesUp(r) BY <1>6 DEF ListingCatchesUp
<1>7. CASE Claim(r) BY <1>7 DEF Claim
<1>8. CASE WorkEnds(r) BY <1>8 DEF WorkEnds
<1>9. CASE JobEnds(r) BY <1>9 DEF JobEnds
<1>10. CASE WindowElapses(r) BY <1>10 DEF WindowElapses
<1> QED BY <1>1, <1>2, <1>3, <1>4, <1>5, <1>6, <1>7, <1>8, <1>9, <1>10
        DEF World

\* TaskInv is kept by a step of release_capacity.
LEMMA TaskRelease ==
  ASSUME IInv, NEW q \in Task, NEW p \in Task,
         ReleaseCapacity(p)
  PROVE  TaskInv(q)'
<1> USE DEF IInv, TypeOK, RowInv, HonestInv, TaskInv, Releasing, Honest, Task
<1>1. CASE FetchRaises(p) BY <1>1 DEF FetchRaises, Fault
<1>2. CASE MarkRaises(p) BY <1>2 DEF MarkRaises, TaskMoves, Returns, Forgets, Fault
<1>3. CASE Fetch(p) BY <1>3 DEF Fetch, TaskMoves, PutIf
<1>4. CASE NoteNoHandle(p) BY <1>4 DEF NoteNoHandle, TaskMoves, Returns, Forgets
<1>5. CASE Destroyed(p) BY <1>5 DEF Destroyed, TaskMoves, Destroys, Listed
<1>6. CASE NotConfirmed(p) BY <1>6 DEF NotConfirmed, TaskMoves, DoesNotConfirm
<1>7. CASE ObserveGone(p) BY <1>7 DEF ObserveGone, TaskMoves, Listed
<1>8. CASE ObserveNotGone(p) BY <1>8 DEF ObserveNotGone, TaskMoves
<1>9. CASE NoteGone(p) BY <1>9 DEF NoteGone, TaskMoves, Note, PutIf
<1>10. CASE RevokeDone(p)
      BY <1>10 DEF RevokeDone, TaskMoves, Returns, Forgets, Revoke, AfterRevoke
<1>11. CASE RevokeSkipped(p)
      BY <1>11 DEF RevokeSkipped, TaskMoves, Returns, Forgets, AfterRevoke
<1>12. CASE NoteNotDestroyed(p)
      BY <1>12 DEF NoteNotDestroyed, TaskMoves, Returns, Forgets, Note, PutIf
<1>13. CASE MarkReleased(p)
      BY <1>13 DEF MarkReleased, TaskMoves, Returns, Forgets, Sweepable
<1> QED BY <1>1, <1>2, <1>3, <1>4, <1>5, <1>6, <1>7, <1>8, <1>9, <1>10, <1>11,
        <1>12, <1>13
        DEF ReleaseCapacity

\* TaskInv is kept by any other step of a sweep or a settle.
LEMMA TaskTask ==
  ASSUME IInv, NEW q \in Task, NEW p \in Task,
         \/ SweepBegins(p) \/ SweepBeginsBlind(p) \/ ListOrphans(p)
         \/ ListFinished(p) \/ CredentialSweepFails(p) \/ EndLease(p)
         \/ EndLeaseFailed(p) \/ SweepEnds(p) \/ SettleBegins(p)
         \/ SettleEnds(p) \/ TaskDies(p)
  PROVE  TaskInv(q)'
<1> USE DEF IInv, TypeOK, RowInv, HonestInv, TaskInv, Releasing, Honest, Task
<1>1. CASE SweepBegins(p)
      BY <1>1 DEF SweepBegins, TaskMoves, PassStarts, Unreleased
<1>2. CASE SweepBeginsBlind(p)
      BY <1>2 DEF SweepBeginsBlind, TaskMoves, PassStarts, Fault
<1>3. CASE ListOrphans(p) BY <1>3 DEF ListOrphans, TaskMoves, OrphanedLeases
<1>4. CASE ListFinished(p)
      BY <1>4 DEF ListFinished, TaskMoves, FinishedWithLiveCredentials
<1>5. CASE CredentialSweepFails(p)
      BY <1>5 DEF CredentialSweepFails, TaskMoves, Fault
<1>6. CASE EndLease(p) BY <1>6 DEF EndLease, Revoke
<1>7. CASE EndLeaseFailed(p) BY <1>7 DEF EndLeaseFailed
<1>8. CASE SweepEnds(p) BY <1>8 DEF SweepEnds, TaskMoves
<1>9. CASE SettleBegins(p)
      BY <1>9 DEF SettleBegins, TaskMoves, RentalsOfFinishedJobs
<1>10. CASE SettleEnds(p) BY <1>10 DEF SettleEnds, TaskMoves
<1>11. CASE TaskDies(p) BY <1>11 DEF TaskDies, Forgets, Fault
<1> QED BY <1>1, <1>2, <1>3, <1>4, <1>5, <1>6, <1>7, <1>8, <1>9, <1>10, <1>11

-----------------------------------------------------------------------------
\* Every step of the system, and every stutter, keeps the inductive invariant.
LEMMA StepIInv == IInv /\ [Next]_vars => IInv'
<1> SUFFICES ASSUME IInv, [Next]_vars PROVE IInv'
  OBVIOUS
<1>1. ASSUME NEW r \in Rental, Acquire(r) PROVE IInv'
  BY <1>1, TypeAcquire, RowAcquire, HonestAcquire, TaskAcquire
      DEF IInv, Honest, Task
<1>2. ASSUME NEW r \in Rental, World(r) PROVE IInv'
  BY <1>2, TypeWorld, RowWorld, HonestWorld, TaskWorld DEF IInv, Honest, Task
<1>3. ASSUME NEW p \in Task, ReleaseCapacity(p) PROVE IInv'
  BY <1>3, TypeRelease, RowRelease, HonestRelease, TaskRelease
      DEF IInv, Honest, Task
<1>4. ASSUME NEW p \in Task,
             \/ SweepBegins(p) \/ SweepBeginsBlind(p) \/ ListOrphans(p)
             \/ ListFinished(p) \/ CredentialSweepFails(p) \/ EndLease(p)
             \/ EndLeaseFailed(p) \/ SweepEnds(p) \/ SettleBegins(p)
             \/ SettleEnds(p) \/ TaskDies(p)
      PROVE  IInv'
  BY <1>4, TypeTask, RowTask, HonestTask, TaskTask DEF IInv, Honest, Task
<1>5. ASSUME NEW p \in Sweep, SweepStep(p) PROVE IInv'
  BY <1>3, <1>4, <1>5 DEF SweepStep, SweepWorks, Task
<1>6. ASSUME NEW p \in Settle, SettleStep(p) PROVE IInv'
  BY <1>3, <1>4, <1>6 DEF SettleStep, Task
<1>7. CASE UNCHANGED vars
  BY <1>7 DEF vars, IInv, TypeOK, RowInv, HonestInv, TaskInv, Honest,
             Closed, Bills, Task
<1> QED BY <1>1, <1>2, <1>5, <1>6, <1>7 DEF Next

\* The inductive invariant holds throughout: what the code believes of a rental
\* whose venue listing is honest (asked, settled, gone, closed) is true of it.
THEOREM InductiveInvariant == Spec => []IInv
BY InitIInv, StepIInv, PTL DEF Spec

\* Every variable keeps its type: in particular a row only ever takes the states
\* that migration 0022 allows.
THEOREM TypeCorrect == Spec => []TypeOK
<1>1. IInv => TypeOK
  BY DEF IInv
<1> QED BY <1>1, InductiveInvariant, PTL

\* If no venue listing lags behind its machines, no machine is ever billed behind
\* a row the control plane has stopped looking at, whoever closed it: the last
\* write of _abandon, a sweep or a settle, in any interleaving and through any
\* crash.
THEOREM NoHiddenBill ==
    ASSUME Lagging = {}
    PROVE  Spec => []NothingBillsBehindAClosedRow
<1>1. IInv => NothingBillsBehindAClosedRow
  BY DEF IInv, HonestInv, Honest, NothingBillsBehindAClosedRow
<1> QED BY <1>1, InductiveInvariant, PTL

-----------------------------------------------------------------------------
\* A step that touches the row or the machine of r and of no other rental, in
\* one of the ways MachineLiability allows.
Maps(r) ==
    /\ \A x \in Rental \ {r} : (Open(x)' <=> Open(x)) /\ (Bills(x)' <=> Bills(x))
    /\ \/ Open(r)' /\ ~Open(r) /\ (Bills(r)' <=> Bills(r))
       \/ Open(r) /\ ~Open(r)' /\ ~Bills(r) /\ ~Bills(r)'
       \/ Bills(r)' /\ ~Bills(r) /\ Open(r) /\ Open(r)'
       \/ Bills(r) /\ ~Bills(r)' /\ (Open(r)' <=> Open(r))
       \/ (Open(r)' <=> Open(r)) /\ (Bills(r)' <=> Bills(r))

\* Such a step is a step of MachineLiability or a stutter.
LEMMA MapsLiability ==
  ASSUME NEW r \in Rental, Maps(r)
  PROVE  [Liability!Next]_<<Owed, Billing>>
<1> USE DEF Maps, Owed, Billing, Liability!Next, Liability!Owe,
            Liability!StartBilling, Liability!StopBilling, Liability!SettleRental
<1>1. CASE Open(r)' /\ ~Open(r) /\ (Bills(r)' <=> Bills(r))
  <2> Liability!Owe(r) BY <1>1
  <2> QED OBVIOUS
<1>2. CASE Open(r) /\ ~Open(r)' /\ ~Bills(r) /\ ~Bills(r)'
  <2> Liability!SettleRental(r) BY <1>2
  <2> QED OBVIOUS
<1>3. CASE Bills(r)' /\ ~Bills(r) /\ Open(r) /\ Open(r)'
  <2> Liability!StartBilling(r) BY <1>3
  <2> QED OBVIOUS
<1>4. CASE Bills(r) /\ ~Bills(r)' /\ (Open(r)' <=> Open(r))
  <2> Liability!StopBilling(r) BY <1>4
  <2> QED OBVIOUS
<1>5. CASE (Open(r)' <=> Open(r)) /\ (Bills(r)' <=> Bills(r))
  <2> UNCHANGED <<Owed, Billing>> BY <1>5
  <2> QED OBVIOUS
<1> QED BY <1>1, <1>2, <1>3, <1>4, <1>5

\* A step of acquire_for_job maps to a step of MachineLiability.
LEMMA MapsAcquire ==
  ASSUME Lagging = {}, IInv, NEW r \in Rental,
         Acquire(r)
  PROVE  Maps(r)
<1> USE DEF IInv, TypeOK, RowInv, HonestInv, Honest, Maps, Open, Closed, Bills,
        States, Sweepable
<1>1. CASE OpenRow(r) BY <1>1 DEF OpenRow, AcqMoves
<1>2. CASE Mint(r) BY <1>2 DEF Mint, AcqMoves
<1>3. CASE MintRefused(r) BY <1>3 DEF MintRefused, AcqMoves
<1>4. CASE AskVenue(r) BY <1>4 DEF AskVenue, AcqMoves
<1>5. CASE VenueAnswered(r) BY <1>5 DEF VenueAnswered, AcqMoves
<1>6. CASE VenueRaised(r) BY <1>6 DEF VenueRaised, AcqMoves
<1>7. CASE RateRefused(r) BY <1>7 DEF RateRefused, AcqMoves
<1>8. CASE MoveToActive(r) BY <1>8 DEF MoveToActive, AcqMoves
<1>9. CASE RecordEvidence(r) BY <1>9 DEF RecordEvidence, AcqMoves
<1>10. CASE AbandonMachine(r)
      BY <1>10 DEF AbandonMachine, AcqMoves, Destroys, DoesNotConfirm, Listed
<1>11. CASE AbandonCredential(r)
      BY <1>11 DEF AbandonCredential, AcqMoves, Revoke
<1>12. CASE AbandonClose(r)
      BY <1>12 DEF AbandonClose, AcqMoves, CloseFailed, KeepSweepable,
          Sweepable, Open
<1>13. CASE AcquireDies(r) BY <1>13 DEF AcquireDies
<1> QED BY <1>1, <1>2, <1>3, <1>4, <1>5, <1>6, <1>7, <1>8, <1>9, <1>10, <1>11,
        <1>12, <1>13
        DEF Acquire

\* A step of an owner, a venue, a job or a machine maps to a step of MachineLiability.
LEMMA MapsWorld ==
  ASSUME Lagging = {}, IInv, NEW r \in Rental,
         World(r)
  PROVE  Maps(r)
<1> USE DEF IInv, TypeOK, RowInv, HonestInv, Honest, Maps, Open, Closed, Bills,
        States, Sweepable
<1>1. CASE OwnerAsks(r) BY <1>1 DEF OwnerAsks
<1>2. CASE OwnerRevokes(r) BY <1>2 DEF OwnerRevokes
<1>3. CASE VenueCreates(r) BY <1>3 DEF VenueCreates
<1>4. CASE VenueLoses(r) BY <1>4 DEF VenueLoses
<1>5. CASE ListingLags(r) BY <1>5 DEF ListingLags
<1>6. CASE ListingCatchesUp(r) BY <1>6 DEF ListingCatchesUp
<1>7. CASE Claim(r) BY <1>7 DEF Claim
<1>8. CASE WorkEnds(r) BY <1>8 DEF WorkEnds
<1>9. CASE JobEnds(r) BY <1>9 DEF JobEnds
<1>10. CASE WindowElapses(r) BY <1>10 DEF WindowElapses
<1> QED BY <1>1, <1>2, <1>3, <1>4, <1>5, <1>6, <1>7, <1>8, <1>9, <1>10
        DEF World

\* So does a step of release_capacity: most touch neither a row's state nor a
\* machine; the destroys stop the billing, and the mark settles what it stopped.
LEMMA MapsRelease ==
  ASSUME Lagging = {}, IInv, NEW p \in Task, ReleaseCapacity(p)
  PROVE  \/ UNCHANGED <<state, venue, call>>
         \/ \E r \in Rental : Maps(r)
<1> USE DEF IInv, TypeOK, RowInv, HonestInv, TaskInv, Releasing, Honest, Open,
        Closed, Bills, States, Sweepable, Maps, TaskMoves
<1>1. CASE Destroyed(p)
  <2>1. PICK r \in Rental : r = hand[p]
    BY <1>1 DEF Destroyed
  <2>2. Maps(r)
    BY <1>1, <2>1 DEF Destroyed, Destroys, Listed
  <2> QED BY <2>2
<1>2. CASE NotConfirmed(p)
  <2>1. PICK r \in Rental : r = hand[p]
    BY <1>2 DEF NotConfirmed
  <2>2. Maps(r)
    BY <1>2, <2>1 DEF NotConfirmed, DoesNotConfirm
  <2> QED BY <2>2
<1>3. CASE MarkReleased(p)
  <2>1. PICK r \in Rental : r = hand[p] /\ ~Bills(r)
    BY <1>3 DEF MarkReleased, Returns
  <2>2. Maps(r)
    BY <1>3, <2>1 DEF MarkReleased
  <2> QED BY <2>2
<1>4. CASE \/ FetchRaises(p) \/ MarkRaises(p) \/ Fetch(p)
           \/ ObserveGone(p) \/ ObserveNotGone(p)
  BY <1>4 DEF FetchRaises, MarkRaises, Fetch, ObserveGone, ObserveNotGone
<1>5. CASE NoteNoHandle(p) \/ NoteGone(p) \/ NoteNotDestroyed(p)
  BY <1>5 DEF NoteNoHandle, NoteGone, NoteNotDestroyed, Note
<1>6. CASE RevokeDone(p) \/ RevokeSkipped(p)
  BY <1>6 DEF RevokeDone, RevokeSkipped
<1> QED BY <1>1, <1>2, <1>3, <1>4, <1>5, <1>6 DEF ReleaseCapacity

\* The rest of a sweep or a settle touches neither.
LEMMA MapsTask ==
  ASSUME NEW p \in Task,
         \/ SweepBegins(p) \/ SweepBeginsBlind(p) \/ ListOrphans(p)
         \/ ListFinished(p) \/ CredentialSweepFails(p) \/ EndLease(p)
         \/ EndLeaseFailed(p) \/ SweepEnds(p) \/ SettleBegins(p)
         \/ SettleEnds(p) \/ TaskDies(p)
  PROVE  UNCHANGED <<state, venue, call>>
BY DEF SweepBegins, SweepBeginsBlind, PassStarts, ListOrphans, ListFinished,
       CredentialSweepFails, EndLease, EndLeaseFailed, SweepEnds, SettleBegins,
       SettleEnds, TaskDies

\* Every step, seen from MachineLiability, is one of its steps or a stutter.
LEMMA StepLiability ==
  ASSUME Lagging = {}, IInv, [Next]_vars
  PROVE  [Liability!Next]_<<Owed, Billing>>
<1>1. CASE UNCHANGED <<state, venue, call>>
  BY <1>1 DEF Owed, Billing, Open, Bills
<1>2. ASSUME NEW r \in Rental, Acquire(r) \/ World(r) PROVE Maps(r)
  BY <1>2, MapsAcquire, MapsWorld
<1>3. ASSUME NEW p \in Task, ReleaseCapacity(p)
      PROVE  \/ UNCHANGED <<state, venue, call>>
             \/ \E r \in Rental : Maps(r)
  BY <1>3, MapsRelease
<1>4. ASSUME NEW p \in Sweep, SweepStep(p)
      PROVE  \/ UNCHANGED <<state, venue, call>>
             \/ \E r \in Rental : Maps(r)
  BY <1>3, <1>4, MapsTask DEF SweepStep, SweepWorks, Task
<1>5. ASSUME NEW p \in Settle, SettleStep(p)
      PROVE  \/ UNCHANGED <<state, venue, call>>
             \/ \E r \in Rental : Maps(r)
  BY <1>3, <1>5, MapsTask DEF SettleStep, Task
<1>6. CASE \E r \in Rental : Maps(r)
  BY <1>6, MapsLiability
<1>7. CASE UNCHANGED vars
  BY <1>1, <1>7 DEF vars
<1> QED BY <1>1, <1>2, <1>4, <1>5, <1>6, <1>7 DEF Next

\* The whole of rented capacity implements MachineLiability: seen only through
\* what is owed and what bills, it never bills what it does not owe, and never
\* settles what still bills.
THEOREM ImplementsLiability ==
    ASSUME Lagging = {}
    PROVE  Spec => KeepsLiability
<1>1. Init => Liability!Init
  BY DEF Init, Liability!Init, Owed, Billing, Open, Bills, Sweepable
<1>2. IInv /\ [Next]_vars => [Liability!Next]_<<Owed, Billing>>
  BY StepLiability
<1> QED
  BY <1>1, <1>2, InductiveInvariant, PTL DEF Spec, KeepsLiability, Liability!Spec

-----------------------------------------------------------------------------
\* released_at stays evidence that the machine is gone: only _mark_released and
\* _close_failed write it, on rows they close, and a reopened row loses it.
THEOREM StampIsEvidence ==
    ASSUME Lagging = {}
    PROVE  Spec => []ReleasedAtIsEvidence
<1>1. IInv => ReleasedAtIsEvidence
  BY DEF IInv, RowInv, HonestInv, Honest, Bills, ReleasedAtIsEvidence
<1> QED BY <1>1, InductiveInvariant, PTL

\* The only steps that touch a row's state.
LEMMA StateWriters ==
  ASSUME [Next]_vars
  PROVE  \/ UNCHANGED state
         \/ \E r \in Rental : OpenRow(r) \/ MoveToActive(r) \/ AbandonClose(r)
         \/ \E p \in Task : MarkReleased(p)
<1>1. ASSUME NEW r \in Rental, Acquire(r)
      PROVE  UNCHANGED state \/ OpenRow(r) \/ MoveToActive(r) \/ AbandonClose(r)
  BY <1>1 DEF Acquire, Mint, MintRefused, AskVenue, VenueAnswered, VenueRaised,
      RateRefused, RecordEvidence, AbandonMachine, AbandonCredential, AcquireDies
<1>2. ASSUME NEW r \in Rental, World(r) PROVE UNCHANGED state
  BY <1>2 DEF World, OwnerAsks, OwnerRevokes, VenueCreates, VenueLoses,
      ListingLags, ListingCatchesUp, Claim, WorkEnds, JobEnds, WindowElapses
<1>3. ASSUME NEW p \in Task, ReleaseCapacity(p)
      PROVE  UNCHANGED state \/ MarkReleased(p)
  BY <1>3 DEF ReleaseCapacity, FetchRaises, MarkRaises, Fetch,
      NoteNoHandle, Destroyed, NotConfirmed, ObserveGone, ObserveNotGone,
      NoteGone, RevokeDone, RevokeSkipped,
      NoteNotDestroyed, Note
<1>4. ASSUME NEW p \in Sweep, SweepStep(p)
      PROVE  UNCHANGED state \/ MarkReleased(p)
  BY <1>3, <1>4, MapsTask DEF SweepStep, SweepWorks, Task
<1>5. ASSUME NEW p \in Settle, SettleStep(p)
      PROVE  UNCHANGED state \/ MarkReleased(p)
  BY <1>3, <1>5, MapsTask DEF SettleStep, Task
<1>6. CASE UNCHANGED vars
  BY <1>6 DEF vars
<1> QED BY <1>1, <1>2, <1>4, <1>5, <1>6 DEF Next, Task

\* However sweeps, settles and acquisitions interleave, a row that one of them
\* closed is reopened only by the acquisition that opened it, in the last write
\* of _abandon.  No assumption on the venues' listings is needed.
THEOREM OnlyItsAcquisitionReopens == Spec => OnlyItsAcquisitionReopensARow
<1>1. IInv /\ [Next]_vars =>
         [\A r \in Rental : Closed(r) /\ Open(r)' => acq[r] = "close"]_vars
  <2> SUFFICES ASSUME IInv, [Next]_vars, NEW x \in Rental, Closed(x), Open(x)'
               PROVE  acq[x] = "close"
    OBVIOUS
  <2> USE DEF IInv, TypeOK, RowInv, Closed, Open, Sweepable
  <2>1. CASE UNCHANGED state
    BY <2>1
  <2>2. ASSUME NEW r \in Rental, OpenRow(r) PROVE FALSE
    BY <2>2 DEF OpenRow, AcqMoves
  <2>3. ASSUME NEW r \in Rental, MoveToActive(r) PROVE FALSE
    BY <2>3 DEF MoveToActive
  <2>4. ASSUME NEW r \in Rental, AbandonClose(r) PROVE acq[x] = "close"
    BY <2>4 DEF AbandonClose, AcqMoves, CloseFailed, KeepSweepable
  <2>5. ASSUME NEW p \in Task, MarkReleased(p) PROVE FALSE
    BY <2>5 DEF MarkReleased, Returns
  <2> QED BY <2>1, <2>2, <2>3, <2>4, <2>5, StateWriters
<1> QED
  BY <1>1, InductiveInvariant, PTL DEF Spec, OnlyItsAcquisitionReopensARow
=============================================================================

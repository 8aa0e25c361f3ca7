# A verification development of the FlashML control plane

FlashML Cloud (`src/flashml-cloud/apps/api/flashml_cloud_api`) is the control
plane of a compute market: a FastAPI application over one Postgres database that
enrols volunteer and rented machines, forwards jobs to coordinators
(flashruntime), lets machines (flashnode agents) claim and report work through
it, keeps a ledger of credits, and rents machines that cost real money. This
directory holds TLA+ models of its parts, the TLC configurations that check them
on small instances, and proofs, checked by TLAPS, for every size of instance.

All paths below are relative to `src/flashml-cloud/apps/api/flashml_cloud_api/`
unless they start with `src/` or `migrations/`.

    tlc -workers 2 -config RentedInterleavings.cfg RentedCapacity.tla
    tlc -workers 2 -config Settlement.cfg MCAttemptSettlement.tla
    tlc -workers 2 -config Sandbox.cfg SandboxSession.tla
    tlc -workers 2 -config ControlPlane.cfg MCControlPlane.tla
    tlapm RentedCapacityProofs.tla          # and the other *Proofs.tla

## 1. Files

| module | what it is |
|---|---|
| `RentedCapacity` | the life of a rented machine: acquisition, sweeps, settle hook, owner, venue |
| `MachineLiability` | what rented capacity promises about money; `RentedCapacity` implements it |
| `AttemptSettlement` | from a claimed lease to the credits it moves |
| `EscrowBook` | what the market promises about a buyer's credits; `AttemptSettlement` implements it |
| `SandboxSession` | an evaluation session in a rented sandbox: its controllers, its reconciler, the provider |
| `SessionBook` | what a session's row promises; `SandboxSession` implements it |
| `Deployment` | accounts and API processes, shared by the modules below |
| `Enrolment` | device codes, a machine, its tokens, its owner and the reaper |
| `CliLogin` | CLI codes and credentials |
| `Membership` | admission, workspaces, invites |
| `Matching`, `Ranking` | listings, bids, entitlements; the rank of asks and the newcomers' allowance |
| `MatchBook` | what the market promises about bids and matches; `Matching` implements it |
| `CreditLedger` | starting grants and credit requests |
| `SandboxBootstrap` | turning a sandbox into a node, command by command |
| `JobArtifacts` | a job's files on the disk, in the bucket and in its row |
| `FederatedRun` | the driver of a federated run, its resume and its deletion |
| `ConnectionPool` | the pool of database connections |
| `VenueRouting` | two coordinators behind one API |
| `AgentRun` | an agent's tool loop, its checkpoints and its spending |
| `Submission` | from a repository or an upload to a posted job |
| `Migrations` | the migration runner |
| `RouterPlan` | plans, recommendations, quotes and the tradeoff curve |
| `DemoRun`, `GuestJoin` | the public demo: its buttons, and machines of strangers that join it |
| `ControlPlane` | the sixteen parts from `Enrolment` to `GuestJoin`, side by side |
| `MCAttemptSettlement`, `MCControlPlane` | constants for TLC |
| `RentedCapacityProofs`, `AttemptSettlementProofs`, `SandboxProofs` | theorems about `RentedCapacity`, `AttemptSettlement`, `SandboxSession` |
| `AccountProofs` | theorems about `Enrolment`, `CliLogin`, `GuestJoin`, `Membership`, `CreditLedger`, `Matching`, `Ranking` |
| `RunProofs` | theorems about `AgentRun`, `DemoRun`, `FederatedRun`, `JobArtifacts`, `Submission` |
| `PlatformProofs` | theorems about `Migrations`, `ConnectionPool`, `VenueRouting`, `SandboxBootstrap`, `RouterPlan` |
| `ControlPlaneProofs` | the theorems about the components, for `ControlPlane` as a whole |
| `SumTheorems` | lemmas about sums and folds over finite sets, and some arithmetic |

`PROJECT.json` maps every definition to the lines it stands for, every run to
its properties, every property to a mutated definition that breaks it, and every
hazard of the code to the properties that would catch it.

Operators marked "Mutant" in a module are alternatives of the definition that
follows them, as a plausible mistake would have it. Nothing in the
specification uses them.

## 2. Inventory

The control plane keeps all durable state in Postgres. Routes run in a thread
pool or as coroutines, and background loops as asyncio tasks of the same process;
connections are in autocommit mode, so unless a function opens
`conn.transaction()` each statement commits by itself and any other actor may run
before the next one. Outside the process are the coordinators (jobs, leases,
accepted outputs), the agents, the venues that rent machines, the sandbox
provider and object storage.

| component | state it keeps | operations | hard about it | correct when |
|---|---|---|---|---|
| Rented capacity (`capacity/`, `sandbox_identity.py`) | a row per acquisition, the machine minted for it, its token and pool binding | acquire, abandon, sweep, settle hook, release, revoke | crashes between statements, lost answers of the venue, a listing that lags, decisions on snapshots | no closed row hides a machine that bills; machines that can be named are destroyed; leases end |
| Attempts and settlement (agent routes of `app.py`, `db.py`, `marketplace.py`) | attempts, contributions, matches, credit entries and balances | claim, heartbeat, complete, fail, expire | repeated reports, inferred outcomes that are corrected, a ledger hop whose failure is swallowed | no credit made or lost, only accepted work paid, nothing held for finished work |
| Bids, listings, routing (`routing.py`, `marketplace.py`) | listings, bids, matches granted | list, withdraw, route a submit, refill | plans on a stale book, two walks over one bid | entitlements within what was bid for; no demand missed; newcomers bounded |
| Credits (`marketplace.py`) | accounts, entries, credit requests | first balance, ask, decide | overlapping first reads, decisions of two administrators | a balance is what its entries say; each grant once |
| Enrolment and CLI login (`enrolment.py`, `cli_auth.py`, `db.py`) | codes, machines, tokens, credentials | start, approve, redeem, revoke, delete, reap | approve and redeem are several statements | one token per code; what was revoked stays dead |
| Pools, invites, access (`access.py`, `db.py`) | profiles, requests, members, invites | ask, decide, invite, accept, revoke | a decision between the statements of an acceptance | no use of an invite is lost; members are admitted |
| Sandbox sessions (`sandbox_orchestrator.py`, `sandbox_sessions.py`) | a row moved by compare-and-set, the sandbox, a credential, events | start, wake on a model, evaluate, settle, clean up, reconcile | several controllers, provider calls abandoned at a timeout that still apply | one evaluation; an ended session's sandbox and credential are gone |
| Sandbox bootstrap (`sandbox_bootstrap.py`) | files and processes in the sandbox | write, launch, await, verify, retry | a command given up after it ran; a second call | one worker, no credential left behind |
| Federated driver (`fedavg.py`) | a run row, rounds, a thread per run | submit rounds, average, resume, delete | a crash between a round and its row | the rows are one training history |
| Venues (`app.py`) | a job's venue, attempts, a registry in the memory of the second coordinator | claim, report, upload, cancel | two coordinators of which one may refuse, be silent or have forgotten the machine | a claim passes no work by |
| Submission (`app.py`, `compile.py`, `elastic.py`, `datasets.py`) | staged code, a posted job, a row | check, resolve, slice, stage, post, insert | failures in the middle, paged listings | a job that runs finds its code, and its tasks hold its data once |
| Router and quotes (`router/`) | none: machines and evidence in, a page out | plan, quote, advise, probe | ties, thin evidence, deadlines | what a plan is named for is true of it |
| Artifacts (`artifact_mirror.py`, `alibaba_oss.py`) | files, a mirror, a manifest, usage | measure, mirror, delete | deletion beside an observation | deleted is gone; a manifest is whole |
| Agents (`agent_loop.py`, `agent_wallet.py`) | a checkpoint directory, an allowance | step, approve, buy, checkpoint, resume | death between a purchase and its checkpoint | at most one purchase lost to memory per death |
| Connection pool (`db.py:279-515`) | an idle stack, a count, a closed flag | check out, return, discard, close | a worker inside a connection that is closed | one borrower each, and the count is right |
| Demo (`demo.py`) | runs, a guest pool | press, refresh, write off, join | presses and joins that overlap | presses join the run; joins converge on a pool |
| Migrations (`migrate.py`) | a version table | apply, baseline, reconcile | two runners, a crash | the schema is what is recorded |

*Not modelled.* The rental budget (`capacity/budget.py`: a sum checked before an
insert; the gate and the insert are in `acquire_for_job`, which nothing outside
tests calls, and `RentedCapacity` keeps no prices); prices and currency
(`prices.py`: decimal arithmetic over a table, with no state); verification
verdicts (`verify.py`: advisory, nothing acts on them); metrics, network and
contribution pages (reads; their one write, the expiry reconciler, is in
`AttemptSettlement`); GitHub, repositories and settings (configuration and
calls of another service, whose answers are inputs of `Submission`); the web
console and the scripts (clients).

Coordinators, agents, venues and the provider are outside the repository. They
appear as external actions, as permissive as the code that calls them must
tolerate.

## 3. Rented capacity

### How the model corresponds to the code
| variables | code |
|---|---|
| `state`, `handle`, `machine`, `goneNoted`, `stamped` | columns of `rented_capacity`; a nullable column is the set of rentals for which it is set; of `failure_code` only "the venue says it is gone" is ever read back |
| `lease`, `bound` | `machines.status` of the minted machine, its `machine_pools` row |
| `work`, `claims`, `jobOver`, `due` | what the selections read of attempts, jobs and clocks |
| `venue`, `call`, `lag` | the machine at the venue, the create request, the venue's listing |
| `acq` and `gotHandle`, `gotCredential`, `asked`, `settled` | where `acquire_for_job` stands, and its local variables |
| `pc`, `todo`, `hand`, `sawMachine`, `corroborated`, `verdict` | where a sweep or a settle stands, and the snapshot `release_capacity` works from |

Every statement and every call of the venue is one action: `OpenRow`, `Mint`,
`AskVenue`, ... for `acquire_for_job`; `RecordEvidence`, `AbandonMachine`,
`AbandonCredential`, `AbandonClose` for `_abandon`; `Fetch`, `NoteNoHandle`,
`Destroyed` / `NotConfirmed`, `ObserveGone` / `ObserveNotGone`, `NoteGone`,
`RevokeDone` / `RevokeSkipped`, `NoteNotDestroyed`, `MarkReleased` for
`release_capacity`; `SweepBegins`, `ListOrphans`, `ListFinished`, `EndLease`,
`SweepEnds` for the loop; `SettleBegins`, `SettleEnds` for the hook. A handled
failure is an action or a disjunct of its own; what no handler catches is
`AcquireDies`, `TaskDies`, `FetchRaises`, `MarkRaises`, `SweepBeginsBlind`,
`CredentialSweepFails`.

Abstractions. The numeric windows of the sweep's selection (a quiet machine, one
never seen, an idle one, a lease past its boot grace) are one set `due`, whose
members may join at any moment: the windows only ever delay a selection, so the
model selects at least whenever the code does. A machine claims tasks of its
pool whatever the job it was rented for. The venue's listing lags at most once
for a rental in `Lagging`. `NotFoundIsGone` is the ECS adapter's reading of "no
such instance" as a destroy. `_move_to_active`'s branch for a row that is no
longer `REQUESTED` is left out: no other actor moves a row without a handle out
of it. `acquire_for_job` is the capacity package's entry point; in this commit
only tests call it.

### Runs
| run | instance | what it shows |
|---|---|---|
| `rented_interleavings` | one rental, one sweep, one settle, one claim, one fault (1.2 million states) | no row is closed over a machine that bills; `released_at` is evidence of its end; only the acquisition that could not destroy its machine reopens a closed row; the inductive invariant; `MachineLiability` is implemented |
| `rented_lag` | one lagging rental, one sweep | two absent readings, from passes further apart than the lag, never close the row of a live machine, at a venue whose "not found" from a release does not count as a destroy (`NotFoundIsGone` is FALSE: with it a lagging venue would close the row at once) |
| `rented_live` | one rental, one sweep, one fault, fair | a machine with a recorded handle is in the end gone and its row closed, whatever its acquisition does |
| `rented_disarmed` | the same with `RENTED_CAPACITY_DESTROY` unset | every lease still ends |
| `rented_lag_settle` | one lagging rental, a sweep and a settle | finding 1 |
| `rented_task` | one rental, a sweep and a settle | finding 2 |

*Why the bounds are enough.* Rows do not interact: every statement is keyed on
one row and its machine, so one rental suffices for a property of a row (the
proofs are for any number). One sweep and one settle are the two actors that run
concurrently in a deployment; `release_capacity` is idempotent in its own
snapshot, so a third brings no new kind of snapshot. One claim lets a machine be
idle, busy and idle again. One fault puts a crash or a database failure at every
point of every pass; the acquisition's own failures are not counted.

*Fairness* (`FairSpec`). `WF(SweepWorks)`: the loop catches every exception and
runs again at startup and on a timer (`app.py:3927-3997`); faults are finitely
many. `SF(Destroyed)`: a venue asked in every pass in the end confirms one
destroy. `SF(EndLease)`: a revoke, a transaction of our own database, in the end
commits. `WF(WorkEnds)`, `WF(WindowElapses)`: leases and clocks run out. Nothing
is assumed of acquisitions, settles, owners or the venue's own actions.

Deadlock is checked in every run of this module: the loop never stops.

### Proofs
`RentedCapacityProofs` proves, for any sets of rentals, sweeps and settles and any
bounds: `InductiveInvariant`, `TypeCorrect` and `OnlyItsAcquisitionReopens` for
any lagging set, `NoHiddenBill`, `StampIsEvidence` and `ImplementsLiability` when
no listing lags (`Lagging = {}`).
Assumptions: `NoRental` is no rental, no task is both sweep and settle, the
bounds are naturals and the switches Boolean.

*The argument.* "A closed row bills nothing" is not inductive: `MarkReleased`
closes the row on the strength of a verdict, and `CloseFailed` on that of the
acquisition's `settled`. `IInv` adds what these local variables mean. `TaskInv`:
a task with verdict "gone" holds a rental whose machine is gone at the venue, and
a task past `Fetch` with a handle holds one the venue has made. `HonestInv`: what
`_abandon` calls settled does not bill and will not. `RowInv`: nothing exists at
the venue before it was asked, a pending request means there is no machine yet, a
handle means there was one, and only closed rows are stamped. With these, a
machine that is gone stays gone (a create request is served once), so a verdict
taken from the venue is still true when the row is closed, whatever happens in
between. The proof is cut into four families of lemmas (types, rows, honest
rentals, tasks), each along the disjuncts of `Next`. For lagging rentals one
reading may be false, and only the pace of the sweeps keeps the promise; that is
left to `rented_lag`.

## 4. Attempts and settlement

### How the model corresponds to the code
The instance is one machine and one job, the pair by which the code finds a match
for a lease (`match_for_claim`, `_close_out_attempt_money`); a job has one buyer
and a machine one host.

| variables | code |
|---|---|
| `coord` | the lease at the coordinator, and what it answers reports with |
| `claiming`, `found` | where `POST /leases/claim` stands with a lease, the match it found |
| `completing`, `crediting`, `failing` | complete and fail handlers between the coordinator's answer and the database |
| `outcome`, `stale`, `contributed` | `attempts.outcome`, its deadline plus grace in the past, the `contributions` row |
| `granted`, `claimed`, `latest` | `matches.state`, the match with the latest `claimed_at` |
| `posted`, `hold`, `spent`, `released`, `refunded` | `credit_entries` of a lease by reason: that there is one, and its amount |
| `spendable`, `escrow`, `earned` | `credit_accounts.balance_zc` of the buyer and the host |
| `unposted` | history: movements rolled back to a savepoint and swallowed |

A database transaction is one action, because `post` and the outcome updates lock
the rows they work on; the outcome and its money are one transaction in the code
(`claim_attempt_credit`, `record_attempt_failure`, `reconcile_expired_attempts`)
and one action here, with `CloseOut` for the savepoint inside it. The steps of
the routes are actions of their own: `Claim`, `RecordAttempt`, `MatchForClaim`,
`HoldEscrow` / `HoldFails`; `Complete` then `ClaimAttemptCredit` then
`RecordContribution`; `Fail` then `RecordAttemptFailure`. `ClaimLost` and
`ReportLost` are a process that dies, or a statement that fails, in between. The
coordinator accepts a repeated report again, so two handlers of one lease may
run. `ReconcileExpired` resolves one row; the code's one statement resolves any
number, but what it does to one row reads and writes nothing of another but the
buyer's balance, to which it adds.

Abstractions. Amounts are kept, with the code's rounding (`HoldZc`, `ChargeZc`);
the duration of an accepted attempt is any of `1..MaxSeconds`. The deadline of an
attempt passes only after its claim route has ended: the grace alone is 900
seconds. `hold_escrow_on_claim`'s answer to a lease already held for is left out,
since a claim runs once for a lease; so is `close_match`, which nothing calls.

### Runs
| run | instance | what it shows |
|---|---|---|
| `settlement` | two leases, two matches at rates 2 and 3, a balance of 4 that cannot cover both holds (170,723 states) | the books balance, only accepted work is paid, a finished lease holds nothing, observed outcomes stand; `EscrowBook` is implemented. That all accepted work is credited is not claimed: a process that dies between taking the right to credit and writing the contribution (`app.py:11775`) loses it |
| `settlement_claims` | two leases, one match for two tasks | finding 3 |
| `settlement_inference` | the same | finding 4 |

*Why the bounds are enough.* Two leases give each lease a concurrent one on the
same balance and the same match; two matches at different rates give a lease
settled under another match than the one it was held under. With an estimate of
two seconds, up to three accepted ones and two seconds to the "hour", a charge is
below, equal to or above its hold, and the price of an odd duration is rounded.

The runs of this module do not check deadlock: when every lease has ended,
nothing more happens. No liveness is stated: the reconciler runs when somebody
opens the metrics page (`app.py:8648`), so nothing in the code makes it run.

### Proofs
`AttemptSettlementProofs` proves, for any set of leases, any matches, rates,
estimates and grant: `InductiveInvariant`, `TypeCorrect`, `PaidOnlyForAcceptedWork`,
`EscrowComesBack`, `ObservedOutcomesStand`, `ImplementsBook` and `TheBooksBalance`.
Assumptions: natural rates and bounds, `Hour` positive, `NoMatch` is no match,
and, since a sum over infinitely many leases means nothing, finitely many leases.

*The argument.* Two lemmas bound the arithmetic (`HoldZcType`, `ChargeBounds`: a
charge is between nothing and what is held). `SettleMoves` and `RefundMoves` say
what a movement does to a lease's entries and to the three balances; every action
that moves money is one of them inside `CloseOut`, or a hold. That what is held is
never negative needs `EntryInv`: a lease that was settled or refunded holds
nothing, and a reason that was not posted has amount zero, so a late settle after
a refund charges zero. That an accepted lease has no refund beside a payment needs
`OutcomeInv`, which ties the posted reasons to the outcome, and `ReportInv`, which
ties the outcome to the coordinator's answer: an accepted lease never has a
failure reported and a failed one no acceptance. `ClaimInv` says that nothing is
held and nobody reports before the claim route is done with a lease.
`spendable + escrow + earned = Grant` is part of the invariant.

`BooksBalance` says more: the escrow account is the sum of what the leases hold,
and the host's the sum of what was charged for them. These are folds over the
leases, so a step must be shown to change the sum by what it changes at one
lease. `SumTheorems` supplies that: the sum over a finite set does not depend on
the order, a sum of which one term changes moves by the difference, and a sum of
naturals is one. The induction is by the smallest subset for which a claim would
be false (`SmallestSet`, from the library's well-founded orderings), because the
library's induction theorems take an operator as a parameter. `StepIsEntered`
then gives, for each action that moves money, the one lease whose terms change.

## 5. Sandbox sessions

### How the model corresponds to the code
| variables | code |
|---|---|
| `row` | `sandbox_sessions`: `state`, and whether `sandbox_id` and the marker are filled in, and the job |
| `box`, `late` | the sandbox at the provider; calls abandoned at their timeout whose thread still runs |
| `cred`, `unrevoked` | the token of the machine minted for the session; history: its revocation failed, or the machine could not be looked up and it was skipped |
| `jobs`, `noted` | evaluation jobs the coordinator has taken; the `evaluation.submitted` event |
| `pc`, `loc` | where each actor stands between two awaits, and its local variables |
| `blind` | history: two controllers drove at once, or the coordinator's listing failed |
| `early` | history: the row was closed by a cleanup that had read it before `start_session` filled it in |

The actors are `start_session`, the reconciler of the API (`app.py:3796`) and
requests: background calls of `on_model_ready` and the owner's cleanup, one after
another in each slot. `Transition` is the compare-and-set of
`sandbox_sessions.transition`. `_pause_sandbox`, `_wake_sandbox` and
`_kill_sandbox` share one shape, the actions of `GatewayNext`: a call applies,
finds nothing, is refused or is abandoned (`CallAbandoned` moves it to `late`,
and `LateCall` may apply it at any later moment); `SettleAfter` goes and looks,
and after two attempts the caller gives up. `_fail`, `cleanup_session` and the
revocation are `CleanupNext`; `_resume_and_evaluate` with the coordinator's
driver is `ControllerNext`; `_reconcile_one` is `SweepLists`, `SweepJudges`,
`SweepExpires`, `SweepCatchesUp`. `Reclaim` is the provider's own deadline and
`Crash` the death of any actor.

The commands of the bootstrap are one action here and a module of their own,
`SandboxBootstrap`. `stale_after_s` is the guard `Abandoned`: only a session
nobody drives is as old as that.

### Runs
| run | instance | what it shows |
|---|---|---|
| `sandbox` | a start, the reconciler, one request slot, one fault, one crash (755,758 states) | a closed row hides no sandbox and no token, but in the cases `TerminatedIsOver` names; HIBERNATED is never billed; one evaluation is submitted, unless two controllers drove at once or a listing failed; every recorded sandbox ends, its row closed; `SessionBook` is implemented |
| `sandbox_twice` | two request slots, no fault, no crash | finding 5 |

*Why the bounds are enough.* Sessions share nothing but the provider's account.
One fault puts a refused, lost or abandoned call, a failed statement or a failed
listing at every point of every actor, with a second attempt that meets the late
call of the first; one crash puts a death at every point. Two jobs tell one
evaluation from more than one. The owner may clean up at any moment, while
`start_session` is still at work included, as the route allows (`app.py:10320`).

*Fairness* (`FairSpec`). `WF(SweepStep)`: the loop is a task of the API that
starts with it and sweeps on a timer, catching what a sweep raises.
`SF(SweepExpires)`: a session's deadline passes, so a sweep that keeps inspecting
an unfinished session in the end finds it expired. Nothing is assumed of
controllers, owners, or the provider.

The runs do not check deadlock: a terminated session is over.

### Proofs
`SandboxProofs` proves, for any number of request slots, faults, crashes and jobs:
`SandboxTypes`, `HibernationIsFree`, `OneEvaluationIsAsked`,
`ImplementsSessionBook` and `TerminatedSessionIsOver`, whatever the owner does and
whenever. The last has the exceptions of its property, which section 7 relates to
the code: a cleanup that came before `start_session` had filled in the row
(`early`), and a revocation that failed or was skipped (`unrevoked`).

*The argument.* `PlacesInv` is the control flow: where each kind of actor can
stand. `SleepInv` is what `HibernatedIsNotBilled` needs: HIBERNATED is written
after the sandbox was seen paused, by the starter or by the reconciler's catching
up, and until a controller has claimed the session nobody connects to it, now or
by a call that is still out (`BeforeInv`); so what was seen stays true.
`OneDriver`: unless `blind`, at most one controller is between the claim and the
submission, and who is about to post has seen that the coordinator has no job.
`SettledInv`: who goes on as if the sandbox were destroyed is right and stays
right, because a destroyed sandbox does not come back and the starter, the only
one to create one, is past that, unless whoever cleans up remembers that it was too
early (`CleanersAfterStart`); likewise of the token.
`BookInv` is what `SessionBook` needs besides: a controller drives only where the
row has a marker (`DriveInv`; for a row that is `ACTIVE` that is all there is to
tell it from one under construction), a job about to be recorded is the
coordinator's and the row has none yet (`JobsInv`), and who fails or closes a row
has read a state with such an edge (`ReadInv`). Each step is then shown to be one
of the book's (`Booked`), and what the book keeps is used to keep `BookInv`.
Each is kept by lemmas along the groups of actions: starter, gateway calls,
cleanups, controllers, sweep, the world.

## 6. The components around the database

`ControlPlane` puts sixteen components side by side. They share accounts and API
processes but none of the state modelled, so a behaviour is one component's: the
variable `part` names it, and the others stay as they start. In one run, TLC then
explores the sum of their state spaces and not the product. Each component has a
specification of its own (`EnrolSpec`, `CliSpec`, ...) for the proofs.

A process (`Process`) runs at most one handler at a time; the handler's place and
local variables are a record (`enroller`, `cliHandler`, `guest`, `router`,
`teller`, `clerk`, `borrower`, `claimer`, `runner`, `demoCaller`, `joiner`). An
action is a statement, a transaction or an awaited call; a process may die or be
refused between any two.

### How the parts correspond to the code
| part (states) | state and code | actions |
|---|---|---|
| enrolment (62,625) | `code`, `machine`, `inPool` are `device_codes`, a row of `machines`, its `machine_pools` row; `dead` is history | `approve_device_code` is `FindCode`, `FindMachine`, `WriteMachine` (or `WriteMachineInPool`, one transaction), `MarkDeviceCodeApproved`; `redeem_device_code` is `ClaimDeviceCode`, `SetMachineToken`; `RevokeMachine`, `DeleteMachine`, `ExpireStaleEphemeral` |
| cli (300) | `cliCode`, `credential` | `ReadCliCode` then `ApproveCliCode`, `ClaimCliCode` then `SetCliToken`, `RevokeCliCredential` |
| membership (3,327) | `admittedAt`, `request`, `member`, `invite` | requests and decisions; an acceptance is `TakeUse`, `ReadAdmission`, `Join` or `RecordPendingInvite`, uncommitted until its last step |
| matching (84,808) | `listing`, `wanted`, `entitled` are listings, bids, matches | a submit plans on the book it read and commits later; a refill takes the open bids one lock at a time; `RecordChanges`: a host's acceptance rate, price or workspace changes between two plans |
| ledger (2,856) | `balance`, `entry`, `asked` | the first read of a balance in its statements; `post` and decisions in one transaction each |
| bootstrap (80,998) | `worker`, `told`, `box` are processes, signals and files in the sandbox | one action a command of `bootstrap_worker`, which may fail unrun or be given up after it ran; a probe that cannot be read is taken for a death (`Relaunch`) |
| artifacts (65,638) | `disk`, `bucket`, `manifest`, `usage` | the observing page measures and mirrors; `delete_job_artifacts` frees the disk, lists one page of the prefix, deletes object by object, records |
| federated (38,897) | `runStatus`, `roundRow`, `roundJob`, `credited` | the driver's steps of `run_federated_job`; an operator's resume; a deletion round by round; `CreditAccepted`, the second writer of contributions, when a task is accepted |
| pool (17,021) | `conn`, `idleStack`, `live`, `poolClosed` | what `ConnectionPool` does under one hold of its lock, and opening and looking over outside it |
| venues (45,960) | `job`, `lease`, `registry`, `claimer` | submit, claim over the venues in turn, reports, cancel, restart of the second venue |
| agents (8,554) | `principal`, `agentRun`, `ckpt`, `purse` | `AgentLoop.step` as ask, decide, run the tool, write the checkpoint; death and resume |
| submissions (4,658) | `sub`, `staged`, `posted`, `rowVenue`, `started` | the edge, fetch, parse, preflight, listing pages, slicing, the two compilers (`CompileToJobspec`, `CompileFederatedRound`), admission, staging, posting, inserting, starting |
| migrations (16,813) | `files`, `applied`, and the history `ran` | read once, then one transaction a version |
| router (8,153) | `fleet`, `samples`, `quote` | a page read in one action, its costs rounded to `Grain`; a canary credited and the page read again; the tradeoff curve and where it is cut |
| demo (8,131) | `runs`, `demoCaller`, `configured` | press, read the page, ask the coordinator, write what was heard, cancel, start |
| guests (1,668) | `joiner`, `guestPools`, `joined`, `demoOwner` | look for the pool, make it, bind |

Abstractions, by part. *Enrolment*: one node id; a token is named by the code it
was redeemed with. *Matching*: whole credits; a host lists once; an
offer is a listing with one record its host may have, so that a change of record
replaces the offer by another of its listing; no
route cancels a bid, pauses a listing or expires a match, so no action does.
*Federated*: the average is the runtime's, and a round's weights are a flag and
the job they started from. One driver at a time, as the operator's instructions
say. *Pool*: a process is a thread with one connection. *Agents*: a reply is an
answer, a call of an unknown, a free or a buying tool, or one whose price cannot
be read. *Venues*: jobs have one task, every machine may run every job, and a machine may
hold any number of leases. The upload of an artifact, which names no lease and whose
venue is guessed from the machine's unresolved attempts (`_venue_for_machine`,
`app.py:4386`), is left out: for a machine with two leases the guess may be wrong, as
the code says (`db.py:2434-2439`), and section 7 says when else.
*Submission*: the chunk arithmetic is exact, floats in the code.
*Router*: a slot is a machine and a number, and what the heap holds is how many
tasks each slot has, as a slot's tasks all take its machine's time; a quartile is an
order statistic. A machine offers a slot at least, and one of the workspace costs
nothing (`db.py:5196-5201`). An ask is in
whole millicredits an hour and a duration in whole milliseconds, so a cost is exact
until it is rounded to a multiple of `Grain`: 360,000 for the four decimals of a
credit a quote keeps (`_COST_PLACES`), 16 in the run. A tie is rounded up, where
`round` takes it to even. Evidence is of this job only,
and a median needs two runs where `metrics.MIN_EVIDENCE` says five; every
candidate is an owned machine, so the fit of other venues is computed and removes
none. *Demo*: the submission a press makes is one action that may be refused.

### Properties
Some promises have exceptions that the code itself has. A history variable names
each exception exactly, and the property says what holds without it.

| property | what it says | except |
|---|---|---|
| `RevokedTokenStaysDead`, `ApproverOwnsMachine` | a token live when its machine was retired never works again; an approver on record owns the machine | |
| `OneCliCredential` | one code, one working credential, which once revoked stays so | |
| `InviteIsHonoured` | an accepted invite makes a member, waits, or was declined; members are admitted | of two accepted while waiting the later is kept |
| `NotOverEntitled` | matches never exceed the bid or the listing | |
| `KeepsMatchBook` | `MatchBook`: a match once made stands and is never made again, bids only grow, within what they want | |
| `NewcomersShareOneAllowance` | the newcomers' share is bounded over all classes of a job | `crossed`: two classes refilled at once |
| `NoDemandIsMissed` | at rest, no open ask could serve a waiting bid | `unannounced`: listed after a plan and before its bids, a refill that failed, a machine that came back, a host whose record changed |
| `CreditsAreMintedOnce` | a balance is what its entries come to, grants and adjustments once each | |
| `OneWorkerNoCredential` | one worker under the node id, no credential on the disk | `excused`: a call went on over a live worker, which was not claiming, could not be told to stop, gave a probe that could not be read, or was left by a call the caller repeats |
| `DeletionIsHonest` | usage never understates; after a successful deletion nothing is left | `overtaken`: it emptied the disk under an observation; objects that never come in the first page of a listing |
| `ManifestIsWhole` | all a manifest names is in the bucket | `overtaken` |
| `RowsAreOneHistory` | the rounds of a run build on one another, a succeeded run has them all, and whoever is credited worked on top of weights on record | after a deletion, the building on one another |
| `OneBorrowerEach` | no connection has two holders, and the pool's count is right | `stolen`: a second close of what another thread had checked out |
| `NoWorkIsPassedBy` | a claim that comes back empty passed no job by that waited for the whole of it | rows that could not be read; a venue that was not heard, would not take the machine, forgot it again or had not heard its last heartbeat; at the second venue, jobs without a row |
| `AtMostOnePurchasePerDeath` | what the conversation on disk does not tell of is at most one purchase per death | |
| `PostedJobIsWhole` | a job that runs finds its code and holds its data once, in balanced shares | |
| `SchemaIsWhatIsRecorded` | a version is on record exactly when its SQL ran, once, or it was stamped by hand | |
| `QuotesAreSound` | no way to place the tasks beats a plan at what it is named for; the recommended plan keeps a deadline that can be kept; the advice and the quote agree with the plan | costs are compared as quoted, rounded; the deadline where rounding makes the fastest and the balanced plan cost alike; fleets past the size at which the curve says it was cut; a quote where some open ask may not run the job |
| `PressesJoinTheRun` | a run follows an unended one of its button only by a press that looked before it was there | |
| `JoinsConverge` | a guest is in the pool runs go to, or its pool was made by a join that looked before that pool was there | |

### Run and bounds
`control_plane` checks all of it in one run of 450,407 states.

Two accounts, two processes, two codes (one of them of an ephemeral machine), two
workspaces with an invite of one use: each gives every handler a concurrent one,
on the same row, for another account; the handlers of a third would meet the
same rows. Matching has two small listings and a large one. The host of one of
the small ones is a newcomer, who may prove itself and whose machine may leave and
come back. They meet one
job of two tasks that accepts both classes: enough for a spill, a refill of each
class at once, and a bid filled half. Two accepted files and a page of two objects make a mirror
with its manifest one object more than a deletion lists.
Two rounds and one restart give a driver that resumes inside the run and one
that resumes after it. A pool of two with three openings reaches its limit, its
overflow and a discarded connection. Two leases of one machine over two jobs and
two venues put a claim beside one that takes its job, and jobs at both venues at once. Three steps and two deaths give
an agent a purchase, a death before the checkpoint and a second purchase; an
allowance of six with prices 1 and 5 is spent exactly or exceeded. A manifest of
four files of size 0 or 4, two pages and up to three slots (one more machine than
that online) reach every rounding of the chunks, empty files included. Two
versions are enough for order, and two runners for the race. Fleets are one to
three of seven hosts that differ in venue, class, price, slots, track record and
eligibility; plans are compared with every way to share out up to four tasks. A
grain of 16 makes costs that differ come out alike, and two steps of up to four
machines make the curve end at each of its three stops.
One button and two runs give two presses that overlap, and a press beside a
write-off; the theorem below is for any number of runs.
Two guests and two owners give two pools.

API processes, and the jobs of `VenueRouting`, are interchangeable, which is the
run's symmetry; no property is a liveness property. Deadlock is not checked: the
counters above are bounded, and a behaviour ends when its bound is reached.

### Proofs
All sixteen components are proved about, for any sets and bounds: their types, and
their safety properties. A component's invariant is its
types, what handlers under way know, and the property. Each has a theorem of its
types (`EnrolTyped` to `RouterTyped`), for which a few say more than the property
needs: no agent takes more steps or dies more often than it may (`AgentFits`), a
federated run has no more jobs on record than rounds (`RecordedAreFew`), a launch of
a worker has an attempt left (`LaunchesLeft`), and the
connections of a pool keep their types when one is stolen (`TheftKeepsShape`).

`AccountProofs`:

- *Enrolment* (`DeadTokensStayDead`, `ApprovalGivesNothingAway`): a code is claimed
  once, so a token that was live belongs to a consumed code whose claim is over; no
  handler can write it again (`HandlersRightful`), and whoever is about to mark a
  code owns the machine, whose owner never changes (`MachineKept`).
- *CLI codes* (`CodeYieldsOneCredential`): at most one handler holds the claim, and a
  working credential means that the claim is over (`ClaimedOnce`).
- *Guests* (`GuestsConverge`): a join that will make a pool looked when its owner had
  none among those it saw (`JoinersLooked`), and pools of one owner were made by
  joins that could not see each other (`PoolsApart`).
- *Invites* (`InvitesAreHonoured`): whoever is accepting an invite holds its row, so
  no two hold one workspace's (`OneAcceptance`), and once read as admitted they are
  (`Accepting`).
- *Credits* (`MintedOnce`): an account has one entry for a reason and reference
  (`KeysAreUnique`), adjustments are its approved requests
  (`AdjustedAreApproved`), and the balance is the sum of its entries
  (`BalancesAddUp`), to which a posting adds one, by `SumTheorems`.
- *Matching* (`BidsAreNotOverfilled`, `AllowanceIsOne`, `DemandIsServed`,
  `ImplementsMatchBook`). The ranking is a total order of any book (`RankingOrders`),
  so the walk of `match_bid` down it is an induction over sets of asks, and `MatchBidIs` says what it gives: no more
  than was wanted, than each ask has and than the newcomers' allowance, and
  something of every affordable ask unless one of these ran out. `PlanIs` and
  `RefillIs` carry that to the plan of a submit, over its classes, and to a refill.
  A plan stays within its job and the one allowance until it is committed
  (`RoutersInOrder`), and no two submits are of one job (`OnePlans`); what is
  matched under a bid with what a refill has granted and not committed fits the
  bid and the offers (`Entitled`, `GrantsFit`), as one refill at a time holds a
  bid's lock (`OneGrants`); where no two classes of a job were refilled at once,
  what unproven hosts hold and are being granted is within the allowance
  (`AllowanceKept`). A second induction follows an open ask a bid could use: the
  bid is filled, the ask is in it, the allowance is spent, or the ask's own refill
  has yet to come to the bid (`DemandServed`, `PlansServe`). For `MatchBook`, a
  commit must find under the bid nothing of an offer it grants: a refill reads what
  is matched when it takes the bid's lock and passes over such offers, the lock
  keeps every other refill away until it commits (`GrantsAreFresh`), and then the
  matches of the bid are what they were and the grants (`MarketSum`, `BidGrows`).

`RunProofs`:

- *Agents* (`PurchasesAccountedFor`): the checkpoints are read through the latest
  one, and `Accounted(n)` ties what it tells, the running conversation, the
  purchases and the deaths together.
- *Demo* (`DemoPressesJoin`): a press knows how many runs there were when it looked,
  and that the last of its button had ended if it goes on (`CallersKnow`).
- *Federated runs* (`TrainingIsOneHistory`): the rows are those of the first rounds
  (`RowsInOrder`); the driver, wherever it stands, has them all up to its own round,
  and its job is the last submitted (`DriverAt`); until a deletion its round has
  no row yet and starts from the row before (`DriverExtends`), so that a row it
  adds continues the chain (`RowsAreAChain`). A resume takes up after the latest
  row, which is where the rows in order end.
- *Artifacts* (`ManifestsAreWhole`, `DeletionsAreHonest`): what was to be copied and no
  longer waits to be is in the bucket, and what a deletion's listing does not name is not, but for what is behind its page (`Kept`);
  while the bucket is emptied nobody holds a file (`NobodyHolds`). What a listing
  leaves out is behind a page of others (`BeyondThePage`): `list_prefix` returns at
  most 1000 objects and `delete_prefix` lists once, so such objects may stay (section 7).
- *Submission* (`CodeIsThere`, `TasksAreWhole`, `JobsAreWhole`). What a submission
  asks for is of one venue throughout (`SubAsks`), and by the time it is at a place
  what comes before is done and what comes after is not (`SubProgress`). A file's
  middle byte only grows along the sorted files, so the cursor the code holds back
  at the last chunk never needs holding back (`CursorIsMidpoint`); the chunks are
  therefore in order, apart and together all files (`ChunksCover`), and a chunk
  lies between two midpoints, which bounds how far it is from an equal share
  (`ChunksBalance`). `WholeInv` carries this from the cut to the post.

`PlatformProofs`:

- *Migrations* (`SchemaMatchesRecord`): a runner that runs a version has its file
  (`RunnersHaveWork`), and the row that decides is in the transaction of the SQL.
- *Connection pool* (`ConnectionsAreNotShared`): the pool's count is the idle ones,
  those in hand, those being opened and those abandoned (`Counted`, an equation of
  four cardinalities that each statement under the lock keeps); the stack holds
  idle connections once each, hands are apart, a worker is inside a connection that
  is held or was abandoned. Once a second close has `stolen` a connection nothing
  is claimed.
- *Venues* (`ClaimsFindWork`): what a claim owes is queued at a venue it has still to
  ask (`Owing`). Every job that may be asked for is of a venue it will ask
  (`ClaimableIsAsked`); a venue that grants nothing to a machine it knows has nothing
  queued; and a job leaves the queue only through a grant or a cancel, which takes it
  off what is owed, and never joins it again unseen, as a live lease is the only one of
  its job (`LiveIsLeased`).
- *Bootstrap* (`OneWorkerIsLeft`): no worker is at work while a call gets ready to
  launch its own, and none but its own afterwards (`Alone`); a receipt's worker was
  never told to stop, and while it lives no call is past reading the receipt
  (`ReceiptStands`). Once a call is `excused` nothing is claimed.
- *Router* (`QuotesHold`, all of `QuotesAreSound`). A plan is worked out in one step,
  so the invariant only says which fleet and evidence the page shown was made from
  (`QuoteFits`), and the argument is about the algorithms:
  - the fill of one group of machines of a price (`FillIsBest`): after k tasks no slot
    ends later than another would with one task more, and a task was left over only
    if every slot is too late for it (`Filling`, kept by `FillStep`); so no share of
    the tasks by the same deadline places more, and none of as many ends sooner.
    That the best `tasks` slots are enough is part of it (`SlotsInOrder`,
    `LeftOutFollows`);
  - the groups from the cheapest up (`TakeGroupsIs`): a group only starts once the
    cheaper ones can take nothing more (`Along`), so any share of as many tasks has
    at most as many in the cheaper groups, and costs no less (`Exchange`,
    `ExchangeAll`), rounded or not (`RoundedRises`), and if it costs exactly the same
    it ends no sooner;
  - the recommendation (`RecommendKeeps`): the cheapest plan, which has no deadline,
    places everything, so some plan is complete and dominated by none
    (`SomeStarred`); if any share of all tasks keeps the deadline the balanced plan
    does too, a plan that dominates it ends no later, and where that is the fastest
    it costs exactly what the balanced one does, or only rounding makes it so
    (`AlikeOncePriced`, the exception of the property);
  - what a page costs a job at (`QuoteMatches`): a median is no less than one of the
    asks (`MedianAskIs`), and the cheapest plan costs no more than all tasks on that
    machine (`OnOneMachine`, `CheapestBelow`). The page stays right after a canary,
    which runs on a machine the job may use (`CanaryIs`);
  - the advice on renting (`AdviceHolds`): with a slot for every task one wave is all
    (`OneWave`), and more slots take no more waves (`WavesFall`), so a fleet ends
    before every smaller one exactly if it ends before the next smaller (`AdviceIs`),
    and one past the end of the curve does only where the curve was cut at the size
    limit (`RentedSlotsAre`, `LeftOutHelpsNot`).

`ControlPlaneProofs`: a behaviour of the whole is, seen by one component, a
behaviour of that component's specification, the steps of the others being
stuttering (`ComponentsKeepTheirOwn`, all sixteen parts), so every theorem above
holds of the whole (`AccountsAreSafe`, `MarketIsSafe`, `RunsAreSafe`,
`PlatformIsSafe`), and so do the types (`ControlPlaneTyped`).

## 7. Findings
Each is a run whose single property states what a comment of the code says, and
which TLC finds violated. `PROJECT.json` quotes the lines.

1. `rented_lag_settle`: the second absent reading, which should come "minutes
   apart", may come from the settle hook on a polled route seconds after a sweep's
   first one, through the same stale listing. The row is marked `RELEASED` in
   front of a machine that bills.
2. `rented_task`: the guard on running work is evaluated when rentals are
   selected and not again before the destroy. A task claimed in between dies with
   its machine, token valid.
3. `settlement_claims`: a match covers several tasks, but `match_for_claim` looks
   for `granted` ones only, and the first claim makes it `claimed`. From the
   second lease on nothing is held, and accepted work earns nothing.
4. `settlement_inference`: an attempt inferred expired is refunded; when its
   output is accepted after all the outcome is corrected, but the charge is capped
   by an empty hold and the host is paid zero.
5. `sandbox_twice`: "Calling this twice produces one evaluation job"; but the
   compare-and-set guards only the first step of a wake, and a second call that
   reads `RESUMING`, or `ACTIVE` with a marker, drives beside the first. Both list
   the coordinator's jobs before either has posted.

### Disagreements met while modelling, without a run
The models contain these behaviours; the properties of section 6 name them as
exceptions or are stated so as to allow them.

- *Demo*: "ONE RUN PER COORDINATOR, AND A SECOND PRESS JOINS THE FIRST": two
  overlapping presses start two runs. The page then refreshes the later one only,
  so the write-off that `demo.py` calls the backstop "for the run nobody ever
  looks at again" does not reach the earlier.
- *Guest pool*: `ensure_guest_pool` says two judges "at the same moment converge on
  one pool"; `pools` has no unique name (migration 0007), so two are made, and
  runs go to the first only. The demo's owner also changes when an earlier account
  is admitted later.
- *Artifacts*: a deletion that crosses an observation puts the mirror and the usage
  back after "your data is gone" was answered (`app.py:9435`). `delete_prefix`
  (`alibaba_oss.py:249`) lists at most 1000 objects, once.
- *Connection pool*: `_put` says "A second close() is a no-op"; it is one until
  another thread has checked the connection out, and then it files that thread's
  connection. An abandoned connection takes its place in the pool for good.
- *Newcomers*: `routing.py` bounds "how much of ONE JOB may be lost to newcomers";
  refills of two of its classes at once each spend the whole allowance.
- *Venues*: the claim's comment says any failure of a venue falls through to the
  next; a transport failure answers 502 and ends the claim. A machine of two leases
  "is the one case this answer can get wrong", says the venue guess for artifacts
  (`db.py:2434-2439`, not modelled). It is not: `record_attempt` is best-effort, so a
  lease may have no row and the default answer, and a claim the agent gave up on may
  record a newer open attempt, which draws the artifacts of the lease it does work on
  to the other venue.
- *Matching*: "a newcomer's share" and the price a bid is matched at are read anew at
  every plan (`routing.py:418`), but `refill_open_bids` is called only where a listing
  is created. A host who has proven itself, or whose effective price has come within
  a bid's cap, serves no bid that already waits until somebody lists something
  (`RecordChanges`, `unannounced`).
- *Sandbox bootstrap*: "Any failure after the launch kills the worker before
  raising" (`sandbox_bootstrap.py:810-816`). A failure while it awaits the
  registration kills only a worker with a fatal log, a launch given up at its timeout may have run,
  and a probe whose answer cannot be read says "not alive" (610-616, 660) and is not
  asked whether it was read at all (1492-1498): the worker is launched again beside
  one that lives (`Relaunch`).
- *Agents*: "nothing in this module can spend past it" (`agent_wallet.py:86`): an
  approver's `spent_zc` is frozen, so several purchases of one run may together
  exceed the allowance.
- *Router*: a canary on a machine of no hardware class never unblocks a plan,
  contrary to `app.py:6041`; with one task and nothing owned, the curve advises
  `no_parallelism` for the only machine; the quote's median counts asks that may
  not run the job. Costs are rounded before plans are compared (`router/plan.py:163`,
  792, 1123-1136): where that makes the fastest plan cost what the balanced one does, the
  balanced plan leaves the frontier, and the cheapest, which may be late, is recommended
  although a plan in time exists.
- *Sandbox sessions*: when its compare-and-set out of `REQUESTED` fails the starter
  says "Nobody else can be driving a session this call has only just created"
  (`sandbox_orchestrator.py:1082`). The session is already listed under its job,
  and its owner may clean it up: the row is then closed before the starter mints
  the token and creates the sandbox, and the starter's own cleanup returns at once
  because the row is terminal. The token stays active, and the sandbox runs to its
  deadline unrecorded. In the same way a cleanup that read the row before the sandbox
  was on it counts the sandbox as destroyed (1857-1861), looks at the row again for its
  state alone (1886-1892) and writes `TERMINATED` over a sandbox that runs, against
  "TERMINATED is recorded only once the API confirms the sandbox is gone" (1836); both
  are `early`. "Kill the sandbox and revoke the credential. Both, independently" (1814):
  where the row has no machine yet and its lookup by node id raises, the answer is the
  same as for no machine (1944-1951), the revocation is skipped and no event says so
  (1865); that is part of `unrevoked`. Also, the reconciler's `_fail` may move a session a controller has
  just moved to `SUCCEEDED` to `FAILED`; its catching up from `PREPARED` under a
  live starter makes the starter's own compare-and-set fail, and with it a healthy
  session.
- *Enrolment*: a code approved before a revocation can be redeemed after it, with a
  new token.
- *Federated*: a round whose row was not inserted is neither counted nor deleted;
  a run resumed after a deletion runs its rounds again under rows that keep the
  old jobs. Contributions are written where a task is accepted (`app.py:11771-11783`),
  under the round's coordinator job, before its row is and whether or not it ever is,
  so there are contributions of jobs that no row names.
- *Submission*: a POST whose answer is lost leaves a job without a row, and its
  repetition is a second job. `_storage_gate` guards only the raw `POST /jobs`.

## 8. What rests on what
*Proved for all instances*: the theorems listed in `PROJECT.json`; all
safety properties of `RentedCapacity` (with a venue listing that never lags),
`AttemptSettlement` and `SandboxSession`, and those of `ControlPlane`.
*Assumed of constants*, besides their types: `Lagging = {}` where section 3 says so,
finitely many leases; offers of one listing that differ only in their host's record;
for the router a grain and a size limit of at least one,
finite fleets of machines with different ids that offer a slot or more and ask
nothing if the workspace's (`db.py:5196-5201`), and at least one task, a job without any
being turned away (`app.py:2827`).
*Model-checked only*:

- liveness (`NamedMachineIsReleased`, `LeaseEnds`, `SandboxEndsGone`): the proof
  system has no reasoning about fairness of this kind;
- the lagging listing (`rented_lag`), where the pace of the passes is a real-time
  fact.
*Taken from outside*: the coordinator accepts or fails a lease at most once and
repeats its answer; a venue creates at most one machine for a request and destroys
what it says it destroyed; Postgres row locks and unique indexes work; token
formats and signatures do.
*Not promised by the code, so not claimed*: that a hold placed for a lease whose
attempt row could not be written ever comes back; that a movement rolled back in
its savepoint is retried; that an attempt expires when nobody opens the metrics
page (`app.py:8648`); that a code consumed by a process that died is replaced.
*Left out of modelled components*: an owner's forced revoke of a rented machine,
the sizing of instances; the administrative closing of matches, which nothing
calls; the removal of members and the sending of mail; share tokens of jobs;
signing of URLs; the grammar of the configuration file; the wire formats of model
providers; evidence of other jobs in an estimate; the venue of an artifact's upload.

## 9. What is left
1. The composition of `Matching` and `AttemptSettlement` through a granted match,
   and of `VenueRouting` and `AttemptSettlement` through a recorded lease.
2. The rental budget as a gate in front of `OpenRow`.

------------------------- MODULE AttemptSettlement -------------------------
(***************************************************************************)
(* From a claimed lease to the credits it moves: the agent routes of       *)
(* app.py (claim, heartbeat, complete, fail), the attempts they record in  *)
(* db.py, the expiry reconciler, and the escrow of marketplace.py that is  *)
(* held, settled or refunded for each lease.                               *)
(*                                                                         *)
(* The leases and the matches are those of one machine and one job, the    *)
(* pair by which the code finds a match for a lease; a job has one buyer   *)
(* and a machine one host.  A database transaction is a step: the rows it  *)
(* works on are locked, and the steps of different handlers interleave.    *)
(* A column that is null or not, and a handler that is under way or not,   *)
(* is the set of the leases for which it is.                               *)
(***************************************************************************)
EXTENDS Integers, FiniteSets, FiniteSetsExt

CONSTANTS
    Lease,       \* leases the coordinator hands to the machine
    Matches,     \* number of entitlements granted, 1..Matches in that order
    NoMatch,     \* "no match found"
    Rate,        \* Rate[m], matches.agreed_zc_per_hour
    EstSeconds,  \* bids.est_task_seconds
    Tasks,       \* matches.tasks_assigned
    Hour,        \* seconds an agreed rate is for (3600)
    MaxSeconds,  \* bound: how long an accepted attempt held its lease
    Grant        \* what the buyer could spend at first

Match == 1..Matches

ASSUME LeaseAssumption == IsFiniteSet(Lease)
ASSUME MatchesAssumption == Matches \in Nat /\ NoMatch \notin Match
ASSUME RatesAssumption == Rate \in [Match -> Nat] /\ Hour \in Nat \ {0}
ASSUME BidAssumption == EstSeconds \in Nat \ {0} /\ Tasks \in Nat
ASSUME BoundsAssumption == MaxSeconds \in Nat \ {0} /\ Grant \in Nat

VARIABLES
    coord,        \* the lease at the coordinator
    claiming,     \* where the claim route stands with it
    found,        \* match_for_claim's answer, and the match it is held under
    completing,   \* the complete route was told "accepted"
    crediting,    \* ... and has taken the right to credit
    failing,      \* the fail route was told "failed"
    (* public.attempts, public.contributions *)
    outcome,      \* "none" before the row exists, "open" while unresolved
    stale,        \* lease_deadline, grace included, lies in the past
    contributed,
    (* public.matches *)
    granted, claimed,   \* matches by state
    latest,       \* the match with the latest claimed_at
    (* public.credit_entries, by reason: the movements posted for a lease *)
    posted, hold, spent, released, refunded,
    (* public.credit_accounts *)
    spendable, escrow,  \* the buyer's
    earned,             \* the host's
    unposted      \* leases whose settlement or refund was rolled back (history)

routeVars   == <<coord, claiming, found, completing, crediting, failing>>
attemptVars == <<outcome, stale, contributed>>
matchVars   == <<granted, claimed, latest>>
entryVars   == <<posted, hold, spent, released, refunded>>
moneyVars   == <<entryVars, spendable, escrow, earned>>

vars == <<routeVars, attemptVars, matchVars, moneyVars, unposted>>

Reasons  == {"hold", "spent", "release", "refund"}
Resolved == {"accepted", "failed", "expired"}

TypeOK ==
    /\ coord \in [Lease -> {"none", "live", "accepted", "failed", "dead"}]
    /\ claiming \in [Lease -> {"none", "answered", "recorded", "matched", "done",
                               "lost"}]
    /\ found \in [Lease -> Match \cup {NoMatch}]
    /\ completing \subseteq Lease /\ crediting \subseteq Lease
    /\ failing \subseteq Lease
    /\ outcome \in [Lease -> {"none", "open"} \cup Resolved]
    /\ stale \subseteq Lease /\ contributed \subseteq Lease
    /\ granted \subseteq Match /\ claimed \subseteq Match
    /\ latest \in Match \cup {NoMatch}
    /\ posted \subseteq Reasons \X Lease
    /\ hold \in [Lease -> Nat] /\ spent \in [Lease -> Nat]
    /\ released \in [Lease -> Nat] /\ refunded \in [Lease -> Nat]
    /\ spendable \in Nat /\ escrow \in Int /\ earned \in Nat
    /\ unposted \subseteq Lease

Init ==
    /\ coord = [l \in Lease |-> "none"]
    /\ claiming = [l \in Lease |-> "none"]
    /\ found = [l \in Lease |-> NoMatch]
    /\ completing = {} /\ crediting = {} /\ failing = {}
    /\ outcome = [l \in Lease |-> "none"]
    /\ stale = {} /\ contributed = {}
    /\ granted = {} /\ claimed = {} /\ latest = NoMatch
    /\ posted = {}
    /\ hold = [l \in Lease |-> 0] /\ spent = [l \in Lease |-> 0]
    /\ released = [l \in Lease |-> 0] /\ refunded = [l \in Lease |-> 0]
    /\ spendable = Grant /\ escrow = 0 /\ earned = 0
    /\ unposted = {}

-----------------------------------------------------------------------------
(* marketplace.py: the arithmetic and the movements. *)

\* hold_zc: the price of some seconds, rounded up.
HoldZc(m, seconds) == (Rate[m] * seconds + Hour - 1) \div Hour

\* held_for_lease: the sum of a lease's escrow legs.
HeldForLease(l) == hold[l] - spent[l] - released[l] - refunded[l]

\* charge_zc: never more than is held.
\* Mutant: without the cap.
ChargeUncapped(m, l, seconds) == HoldZc(m, seconds)
ChargeZc(m, l, seconds) ==
    IF HoldZc(m, seconds) < HeldForLease(l) THEN HoldZc(m, seconds)
    ELSE HeldForLease(l)

\* post writes a movement unless it was posted before: the unique index on
\* (reason, lease, account) makes a repetition write nothing.
Posted(reason, l) == <<reason, l>> \in posted
Enter(reasons, l) == posted' = posted \cup (reasons \X {l})

\* grant_matches: an entitlement, and no money moves.
GrantMatch(m) ==
    /\ m \notin granted \cup claimed
    /\ \A k \in 1..(m - 1) : k \in granted \cup claimed
    /\ granted' = granted \cup {m}
    /\ UNCHANGED <<routeVars, attemptVars, claimed, latest, moneyVars, unposted>>

\* settle_accepted_work on match m: the charge to the host and the rest of the
\* hold back to the buyer, in one transaction.
\* Mutants: the host credited without the cap; the remainder kept in escrow.
SettleUncapped(m, l, seconds) ==
    LET charge == ChargeZc(m, l, seconds) IN
        /\ ~Posted("spent", l)
        /\ Enter({"spent"}, l)
        /\ spent' = [spent EXCEPT ![l] = charge]
        /\ earned' = earned + HoldZc(m, seconds)
        /\ escrow' = escrow - charge
        /\ UNCHANGED <<hold, refunded, released, spendable>>
SettleKeepingRest(m, l, seconds) ==
    LET charge == ChargeZc(m, l, seconds) IN
        /\ ~Posted("spent", l)
        /\ Enter({"spent"}, l)
        /\ spent' = [spent EXCEPT ![l] = charge]
        /\ earned' = earned + charge
        /\ escrow' = escrow - charge
        /\ UNCHANGED <<hold, refunded, released, spendable>>

Settle(m, l, seconds) ==
    LET charge == ChargeZc(m, l, seconds)
        rest   == HeldForLease(l) - charge
    IN  IF Posted("spent", l) THEN UNCHANGED moneyVars
        ELSE /\ Enter(IF rest > 0 THEN {"spent", "release"} ELSE {"spent"}, l)
             /\ spent' = [spent EXCEPT ![l] = charge]
             /\ earned' = earned + charge
             /\ released' = [released EXCEPT ![l] = @ + rest]
             /\ spendable' = spendable + rest
             /\ escrow' = escrow - charge - rest
             /\ UNCHANGED <<hold, refunded>>

\* refund_unaccepted_work: all that is held, written even when that is nothing.
Refund(l) ==
    IF Posted("refund", l) THEN UNCHANGED moneyVars
    ELSE /\ Enter({"refund"}, l)
         /\ refunded' = [refunded EXCEPT ![l] = HeldForLease(l)]
         /\ spendable' = spendable + HeldForLease(l)
         /\ escrow' = escrow - HeldForLease(l)
         /\ UNCHANGED <<hold, spent, released, earned>>

\* _close_out_attempt_money, in a savepoint of the transaction that writes the
\* outcome: nothing without a claimed match of the machine and the job, and any
\* failure rolls back to the savepoint and is swallowed.  The match is the one
\* claimed last, whichever of them the lease was held under.
CloseOut(l, movement) ==
    \/ latest = NoMatch /\ UNCHANGED <<moneyVars, unposted>>
    \/ latest # NoMatch /\ movement /\ UNCHANGED unposted
    \/ latest # NoMatch /\ unposted' = unposted \cup {l} /\ UNCHANGED moneyVars

-----------------------------------------------------------------------------
(* POST /leases/claim *)

ClaimMoves(l, from, to) ==
    claiming[l] = from /\ claiming' = [claiming EXCEPT ![l] = to]

\* The coordinator answered 200 with a lease.
Claim(l) ==
    /\ ClaimMoves(l, "none", "answered")
    /\ coord' = [coord EXCEPT ![l] = "live"]
    /\ UNCHANGED <<found, completing, crediting, failing, attemptVars, matchVars,
                   moneyVars, unposted>>

\* record_attempt, best effort: the claim stands without the row.
RecordAttempt(l) ==
    /\ ClaimMoves(l, "answered", "recorded")
    /\ \/ outcome' = [outcome EXCEPT ![l] = "open"]
       \/ UNCHANGED outcome
    /\ UNCHANGED <<coord, found, completing, crediting, failing, stale,
                   contributed, matchVars, moneyVars, unposted>>

\* match_for_claim: the oldest match that is still granted.
MatchForClaim(l) ==
    /\ \/ /\ ClaimMoves(l, "recorded", "matched")
          /\ \E m \in granted : /\ \A k \in granted : m <= k
                               /\ found' = [found EXCEPT ![l] = m]
       \/ /\ granted = {}
          /\ ClaimMoves(l, "recorded", "done")
          /\ UNCHANGED found
    /\ UNCHANGED <<coord, completing, crediting, failing, attemptVars, matchVars,
                   moneyVars, unposted>>

\* hold_escrow_on_claim, if the buyer can cover it: the hold, and with the first
\* claim the match, granted until then, is claimed.
HoldEscrow(l) ==
    LET m      == found[l]
        amount == HoldZc(m, EstSeconds)
    IN  /\ ClaimMoves(l, "matched", "done")
        /\ amount <= spendable
        /\ Enter({"hold"}, l)
        /\ hold' = [hold EXCEPT ![l] = amount]
        /\ spendable' = spendable - amount
        /\ escrow' = escrow + amount
        /\ granted' = granted \ {m}
        /\ claimed' = claimed \cup {m}
        /\ latest' = IF m \in granted THEN m ELSE latest
        /\ UNCHANGED <<coord, found, completing, crediting, failing, attemptVars,
                       spent, released, refunded, earned, unposted>>

\* InsufficientCredits, or any other failure of the lookup or the hold: the work
\* runs all the same, with nothing held for it.
HoldFails(l) ==
    /\ ClaimMoves(l, "recorded", "done") \/ ClaimMoves(l, "matched", "done")
    /\ UNCHANGED <<coord, found, completing, crediting, failing, attemptVars,
                   matchVars, moneyVars, unposted>>

\* The process dies before it answers; the agent never learns of its lease.
ClaimLost(l) ==
    /\ claiming[l] \in {"answered", "recorded", "matched"}
    /\ claiming' = [claiming EXCEPT ![l] = "lost"]
    /\ UNCHANGED <<coord, found, completing, crediting, failing, attemptVars,
                   matchVars, moneyVars, unposted>>

-----------------------------------------------------------------------------
(* The lease runs: heartbeats, the end of its cover, the agent's report. *)

\* A renewal carried into the unresolved row.
NoteDeadline(l) ==
    /\ coord[l] = "live" /\ outcome[l] = "open"
    /\ l \in stale
    /\ stale' = stale \ {l}
    /\ UNCHANGED <<routeVars, outcome, contributed, matchVars, moneyVars, unposted>>

\* The recorded deadline and its grace pass: the lease has run out, or renewals
\* were granted and not recorded.
DeadlinePasses(l) ==
    /\ claiming[l] \in {"done", "lost"} /\ outcome[l] = "open"
    /\ stale' = stale \cup {l}
    /\ UNCHANGED <<routeVars, outcome, contributed, matchVars, moneyVars, unposted>>

\* The coordinator ends the lease, or rejects the output.
LeaseEnds(l) ==
    /\ coord[l] = "live"
    /\ coord' = [coord EXCEPT ![l] = "dead"]
    /\ UNCHANGED <<claiming, found, completing, crediting, failing, attemptVars,
                   matchVars, moneyVars, unposted>>

\* POST /attempts/{lease}/complete and the answer {"accepted": true}, which a
\* repeated commit gets again.
Complete(l) ==
    /\ claiming[l] = "done" /\ coord[l] \in {"live", "accepted"}
    /\ coord' = [coord EXCEPT ![l] = "accepted"]
    /\ completing' = completing \cup {l}
    /\ UNCHANGED <<claiming, found, crediting, failing, attemptVars, matchVars,
                   moneyVars, unposted>>

\* POST /attempts/{lease}/fail and an answer that takes it.
Fail(l) ==
    /\ claiming[l] = "done" /\ coord[l] \in {"live", "failed"}
    /\ coord' = [coord EXCEPT ![l] = "failed"]
    /\ failing' = failing \cup {l}
    /\ UNCHANGED <<claiming, found, completing, crediting, attemptVars, matchVars,
                   moneyVars, unposted>>

-----------------------------------------------------------------------------
(* db.py: the outcome of an attempt and its money, in one transaction. *)

\* claim_attempt_credit: once per lease, and over an inferred "expired".
ClaimAttemptCredit(l) ==
    /\ l \in completing
    /\ completing' = completing \ {l}
    /\ \/ /\ outcome[l] \in {"none", "accepted"}
          /\ UNCHANGED <<crediting, outcome, moneyVars, unposted>>
       \/ /\ outcome[l] \notin {"none", "accepted"}
          /\ outcome' = [outcome EXCEPT ![l] = "accepted"]
          /\ crediting' = crediting \cup {l}
          /\ \E seconds \in 1..MaxSeconds :
                CloseOut(l, Settle(latest, l, seconds))
    /\ UNCHANGED <<coord, claiming, found, failing, stale, contributed, matchVars>>

\* record_contributions, a transaction of its own.
RecordContribution(l) ==
    /\ l \in crediting
    /\ crediting' = crediting \ {l}
    /\ contributed' = contributed \cup {l}
    /\ UNCHANGED <<coord, claiming, found, completing, failing, outcome, stale,
                   matchVars, moneyVars, unposted>>

\* Mutant: a failed attempt is paid for the time it took.
FailurePays(l) ==
    /\ l \in failing
    /\ failing' = failing \ {l}
    /\ outcome[l] \in {"open", "expired"}
    /\ outcome' = [outcome EXCEPT ![l] = "failed"]
    /\ CloseOut(l, Settle(latest, l, 1))
    /\ UNCHANGED <<coord, claiming, found, completing, crediting, stale,
                   contributed, matchVars>>

\* record_attempt_failure: an unresolved attempt, or an inferred "expired".
RecordAttemptFailure(l) ==
    /\ l \in failing
    /\ failing' = failing \ {l}
    /\ \/ /\ outcome[l] \notin {"open", "expired"}
          /\ UNCHANGED <<outcome, moneyVars, unposted>>
       \/ /\ outcome[l] \in {"open", "expired"}
          /\ outcome' = [outcome EXCEPT ![l] = "failed"]
          /\ CloseOut(l, Refund(l))
    /\ UNCHANGED <<coord, claiming, found, completing, crediting, stale,
                   contributed, matchVars>>

\* The report is lost between the coordinator's answer and the database: the
\* statement failed, or the process died.
ReportLost(l) ==
    /\ \/ /\ l \in completing /\ completing' = completing \ {l}
          /\ UNCHANGED <<crediting, failing>>
       \/ /\ l \in crediting /\ crediting' = crediting \ {l}
          /\ UNCHANGED <<completing, failing>>
       \/ /\ l \in failing /\ failing' = failing \ {l}
          /\ UNCHANGED <<completing, crediting>>
    /\ UNCHANGED <<coord, claiming, found, attemptVars, matchVars, moneyVars,
                   unposted>>

\* reconcile_expired_attempts, run by the metrics route.  One call resolves any
\* number of stale rows; what it does to one touches no other.
\* Mutant: a row that has been resolved since is resolved again.
ReconcileResolved(l) ==
    /\ l \in stale /\ outcome[l] # "none"
    /\ outcome' = [outcome EXCEPT ![l] = "expired"]
    /\ CloseOut(l, Refund(l))
    /\ UNCHANGED <<routeVars, stale, contributed, matchVars>>

ReconcileExpired(l) ==
    /\ l \in stale /\ outcome[l] = "open"
    /\ outcome' = [outcome EXCEPT ![l] = "expired"]
    /\ CloseOut(l, Refund(l))
    /\ UNCHANGED <<routeVars, stale, contributed, matchVars>>

LeaseStep(l) ==
    \/ Claim(l) \/ RecordAttempt(l) \/ MatchForClaim(l) \/ HoldEscrow(l)
    \/ HoldFails(l) \/ ClaimLost(l) \/ NoteDeadline(l) \/ DeadlinePasses(l)
    \/ LeaseEnds(l) \/ Complete(l) \/ Fail(l) \/ ClaimAttemptCredit(l)
    \/ RecordContribution(l) \/ RecordAttemptFailure(l) \/ ReportLost(l)
    \/ ReconcileExpired(l)

Next ==
    \/ \E m \in Match : GrantMatch(m)
    \/ \E l \in Lease : LeaseStep(l)

Spec == Init /\ [][Next]_vars

-----------------------------------------------------------------------------
(* Safety. *)

\* verify_ledger and ledger_totals: no credit is made or lost, the escrow account
\* is exactly what the leases still hold, never less than nothing, and the host
\* has what the settlements charged.
BooksBalance ==
    /\ spendable + escrow + earned = Grant
    /\ escrow = MapThenSumSet(HeldForLease, Lease)
    /\ escrow >= 0
    /\ earned = MapThenSumSet(LAMBDA l : spent[l], Lease)

\* Hard rule 4: a host earns, and a machine is credited with a contribution,
\* only for an attempt whose output the coordinator accepted, and a settled
\* lease is not refunded too.
CreditOnlyForAcceptedWork ==
    \A l \in Lease :
        spent[l] > 0 \/ l \in crediting \cup contributed =>
            /\ outcome[l] = "accepted" /\ coord[l] = "accepted"
            /\ spent[l] > 0 => refunded[l] = 0

\* held_for_lease: "a non-zero answer for a finished lease is itself the alarm".
\* Nothing stays held for a resolved attempt, unless the ledger refused the
\* movement, which nothing repeats.
FinishedLeaseHoldsNothing ==
    \A l \in Lease :
        outcome[l] \in Resolved /\ l \notin unposted => HeldForLease(l) = 0

\* An observed outcome stands: only an inferred "expired" is ever corrected,
\* whatever reports and reconcilers arrive in whatever order.
OnlyInferenceIsCorrected ==
    [][\A l \in Lease :
          outcome[l] \in {"accepted", "failed"} => outcome'[l] = outcome[l]]_vars

\* marketplace.py calls a match an entitlement that stays claimed "for the rest"
\* of the tasks it covers: a claim finds it as long as tasks are left on it.
ClaimFindsItsMatch ==
    [][\A l \in Lease :
          /\ MatchForClaim(l)
          /\ \E m \in granted \cup claimed :
                Cardinality({k \in Lease : found[k] = m}) < Tasks
          => found'[l] # NoMatch]_vars

\* claim_attempt_credit: a wrong inference never costs a volunteer their credit.
\* Accepted work that credits were held for is paid.
AcceptedWorkIsPaid ==
    \A l \in Lease :
        outcome[l] = "accepted" /\ hold[l] > 0 /\ l \notin unposted => spent[l] > 0

\* The implementation of EscrowBook: a lease's money is what its entries say.
Held      == [l \in Lease |-> HeldForLease(l)]
Opened    == {l \in Lease : Posted("hold", l)}
Book      == INSTANCE EscrowBook WITH free <- spendable, held <- Held,
                                      opened <- Opened
KeepsBook == Book!Spec

(* The inductive invariant. *)

\* The routes and the coordinator agree on how an attempt ended.
ReportInv(l) ==
    /\ l \in completing \cup crediting \/ outcome[l] = "accepted" =>
          coord[l] = "accepted"
    /\ l \in failing \/ outcome[l] = "failed" => coord[l] = "failed"
    /\ l \in crediting \cup contributed => outcome[l] = "accepted"

\* Until the claim route is done with a lease nobody reports on it and nothing
\* is held; the match it found exists, and once a match is claimed one is latest.
ClaimInv(l) ==
    /\ claiming[l] \notin {"done", "lost"} =>
          /\ l \notin completing \cup failing \cup stale
          /\ outcome[l] \in {"none", "open"}
    /\ claiming[l] # "done" => ~Posted("hold", l)
    /\ claiming[l] = "matched" => found[l] \in granted \cup claimed
    /\ coord[l] \in {"accepted", "failed"} => claiming[l] = "done"

\* What the entries of one lease add up to.
EntryInv(l) ==
    /\ HeldForLease(l) >= 0
    /\ ~Posted("hold", l) => hold[l] = 0
    /\ ~Posted("spent", l) => spent[l] = 0 /\ released[l] = 0
    /\ ~Posted("refund", l) => refunded[l] = 0
    /\ Posted("hold", l) => latest # NoMatch
    /\ Posted("spent", l) \/ Posted("refund", l) => HeldForLease(l) = 0
    /\ spent[l] > 0 => refunded[l] = 0

\* How the entries of a lease go with the outcome of its attempt.
OutcomeInv(l) ==
    /\ Posted("spent", l) => outcome[l] = "accepted"
    /\ Posted("refund", l) => outcome[l] \in Resolved
    /\ outcome[l] \in Resolved /\ l \notin unposted => HeldForLease(l) = 0

IInv ==
    /\ TypeOK
    /\ spendable + escrow + earned = Grant
    /\ claimed # {} => latest # NoMatch
    /\ \A l \in Lease : /\ ReportInv(l) /\ ClaimInv(l)
                        /\ EntryInv(l) /\ OutcomeInv(l)
=============================================================================

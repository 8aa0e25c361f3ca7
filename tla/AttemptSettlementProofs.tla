---------------------- MODULE AttemptSettlementProofs ----------------------
(***************************************************************************)
(* Proofs about AttemptSettlement, for any leases, matches, rates and      *)
(* balances.  IInv is inductive; the safety properties and the refinement  *)
(* of EscrowBook follow from it step by step.  That the accounts are the   *)
(* sums of what the leases hold and were charged is an invariant of its    *)
(* own, beside IInv.                                                       *)
(***************************************************************************)
EXTENDS AttemptSettlement, SumTheorems, TLAPS

USE DEF routeVars, attemptVars, matchVars, entryVars, moneyVars, Reasons, Resolved

(* The arithmetic of a hold and of a charge. *)

\* A price is a natural number, whatever the rate and the time.
LEMMA HoldZcType ==
    ASSUME NEW m \in Match, NEW seconds \in Nat
    PROVE  HoldZc(m, seconds) \in Nat
<1>1. Rate[m] \in Nat /\ Hour \in Nat \ {0}
  BY RatesAssumption
<1>2. Rate[m] * seconds \in Nat
  BY <1>1
<1> DEFINE dividend == Rate[m] * seconds + Hour - 1
<1>3. dividend \in Nat
  BY <1>1, <1>2
<1> HIDE DEF dividend
<1>4. dividend \div Hour \in Nat
  BY <1>1, <1>3
<1> QED
  BY <1>4 DEF HoldZc, dividend

\* A charge is never negative and never more than what is held.
LEMMA ChargeBounds ==
    ASSUME TypeOK, NEW l \in Lease, EntryInv(l), NEW m \in Match,
           NEW seconds \in Nat
    PROVE  /\ HeldForLease(l) \in Nat
           /\ ChargeZc(m, l, seconds) \in 0..HeldForLease(l)
<1>1. HeldForLease(l) \in Nat
  BY DEF TypeOK, EntryInv, HeldForLease
<1>2. HoldZc(m, seconds) \in Nat
  BY HoldZcType
<1> QED
  BY <1>1, <1>2 DEF ChargeZc

(* The steps that move no money. *)

\* Granting a match disturbs nothing but the set of the granted ones.
LEMMA GrantMatchStep ==
    ASSUME IInv, NEW m \in Match, GrantMatch(m)
    PROVE  IInv'
<1>1. TypeOK'
  BY DEF IInv, TypeOK, GrantMatch
<1>2. ASSUME NEW k \in Lease PROVE (ReportInv(k) /\ ClaimInv(k))'
  BY <1>2 DEF IInv, ReportInv, ClaimInv, Posted, GrantMatch
<1>3. ASSUME NEW k \in Lease PROVE (EntryInv(k) /\ OutcomeInv(k))'
  BY <1>3 DEF IInv, EntryInv, OutcomeInv, HeldForLease, Posted, GrantMatch
<1> QED
  BY <1>1, <1>2, <1>3 DEF IInv, GrantMatch

\* A lease just handed out has neither reports nor entries.
LEMMA ClaimStep ==
    ASSUME IInv, NEW l \in Lease, Claim(l)
    PROVE  IInv'
<1>1. TypeOK'
  BY DEF IInv, TypeOK, Claim, ClaimMoves
<1>2. ASSUME NEW k \in Lease PROVE ReportInv(k)'
  BY <1>2 DEF IInv, TypeOK, ReportInv, ClaimInv, Claim, ClaimMoves
<1>3. ASSUME NEW k \in Lease PROVE ClaimInv(k)'
  BY <1>3 DEF IInv, TypeOK, ClaimInv, Posted, Claim, ClaimMoves
<1>4. ASSUME NEW k \in Lease PROVE (EntryInv(k) /\ OutcomeInv(k))'
  BY <1>4 DEF IInv, TypeOK, EntryInv, OutcomeInv, HeldForLease, Posted, Claim
<1> QED
  BY <1>1, <1>2, <1>3, <1>4 DEF IInv, Claim

\* The new row is open, as an attempt nobody has reported on may be.
LEMMA RecordAttemptStep ==
    ASSUME IInv, NEW l \in Lease, RecordAttempt(l)
    PROVE  IInv'
<1>0. outcome[l] \in {"none", "open"} /\ outcome'[l] \in {"none", "open"}
  BY DEF IInv, TypeOK, ClaimInv, RecordAttempt, ClaimMoves
<1>1. TypeOK'
  BY DEF IInv, TypeOK, RecordAttempt, ClaimMoves
<1>2. ASSUME NEW k \in Lease PROVE ReportInv(k)'
  BY <1>0, <1>2 DEF IInv, TypeOK, ReportInv, ClaimInv, RecordAttempt, ClaimMoves
<1>3. ASSUME NEW k \in Lease PROVE ClaimInv(k)'
  BY <1>0, <1>3 DEF IInv, TypeOK, ClaimInv, Posted, RecordAttempt, ClaimMoves
<1>4. ASSUME NEW k \in Lease PROVE (EntryInv(k) /\ OutcomeInv(k))'
  BY <1>0, <1>4 DEF IInv, TypeOK, EntryInv, OutcomeInv, HeldForLease, Posted, RecordAttempt
<1> QED
  BY <1>1, <1>2, <1>3, <1>4 DEF IInv, RecordAttempt

\* The match it finds is a granted one.
LEMMA MatchForClaimStep ==
    ASSUME IInv, NEW l \in Lease, MatchForClaim(l)
    PROVE  IInv'
<1>1. TypeOK'
  BY DEF IInv, TypeOK, MatchForClaim, ClaimMoves
<1>2. ASSUME NEW k \in Lease PROVE ReportInv(k)'
  BY <1>2 DEF IInv, TypeOK, ReportInv, ClaimInv, MatchForClaim, ClaimMoves
<1>3. ASSUME NEW k \in Lease PROVE ClaimInv(k)'
  BY <1>3 DEF IInv, TypeOK, ClaimInv, Posted, MatchForClaim, ClaimMoves
<1>4. ASSUME NEW k \in Lease PROVE (EntryInv(k) /\ OutcomeInv(k))'
  BY <1>4 DEF IInv, TypeOK, EntryInv, OutcomeInv, HeldForLease, Posted, MatchForClaim
<1> QED
  BY <1>1, <1>2, <1>3, <1>4 DEF IInv, MatchForClaim

\* A failed hold leaves the entries alone.
LEMMA HoldFailsStep ==
    ASSUME IInv, NEW l \in Lease, HoldFails(l)
    PROVE  IInv'
<1>1. TypeOK'
  BY DEF IInv, TypeOK, HoldFails, ClaimMoves
<1>2. ASSUME NEW k \in Lease PROVE ReportInv(k)'
  BY <1>2 DEF IInv, TypeOK, ReportInv, ClaimInv, HoldFails, ClaimMoves
<1>3. ASSUME NEW k \in Lease PROVE ClaimInv(k)'
  BY <1>3 DEF IInv, TypeOK, ClaimInv, Posted, HoldFails, ClaimMoves
<1>4. ASSUME NEW k \in Lease PROVE (EntryInv(k) /\ OutcomeInv(k))'
  BY <1>4 DEF IInv, TypeOK, EntryInv, OutcomeInv, HeldForLease, Posted, HoldFails
<1> QED
  BY <1>1, <1>2, <1>3, <1>4 DEF IInv, HoldFails

\* A lost claim holds nothing.
LEMMA ClaimLostStep ==
    ASSUME IInv, NEW l \in Lease, ClaimLost(l)
    PROVE  IInv'
<1>1. TypeOK'
  BY DEF IInv, TypeOK, ClaimLost, ClaimMoves
<1>2. ASSUME NEW k \in Lease PROVE ReportInv(k)'
  BY <1>2 DEF IInv, TypeOK, ReportInv, ClaimInv, ClaimLost, ClaimMoves
<1>3. ASSUME NEW k \in Lease PROVE ClaimInv(k)'
  BY <1>3 DEF IInv, TypeOK, ClaimInv, Posted, ClaimLost, ClaimMoves
<1>4. ASSUME NEW k \in Lease PROVE (EntryInv(k) /\ OutcomeInv(k))'
  BY <1>4 DEF IInv, TypeOK, EntryInv, OutcomeInv, HeldForLease, Posted, ClaimLost
<1> QED
  BY <1>1, <1>2, <1>3, <1>4 DEF IInv, ClaimLost

\* A renewal changes no outcome.
LEMMA NoteDeadlineStep ==
    ASSUME IInv, NEW l \in Lease, NoteDeadline(l)
    PROVE  IInv'
<1>1. TypeOK'
  BY DEF IInv, TypeOK, NoteDeadline, ClaimMoves
<1>2. ASSUME NEW k \in Lease PROVE ReportInv(k)'
  BY <1>2 DEF IInv, TypeOK, ReportInv, ClaimInv, NoteDeadline, ClaimMoves
<1>3. ASSUME NEW k \in Lease PROVE ClaimInv(k)'
  BY <1>3 DEF IInv, TypeOK, ClaimInv, Posted, NoteDeadline, ClaimMoves
<1>4. ASSUME NEW k \in Lease PROVE (EntryInv(k) /\ OutcomeInv(k))'
  BY <1>4 DEF IInv, TypeOK, EntryInv, OutcomeInv, HeldForLease, Posted, NoteDeadline
<1> QED
  BY <1>1, <1>2, <1>3, <1>4 DEF IInv, NoteDeadline

\* A deadline can only pass once the claim route is done.
LEMMA DeadlinePassesStep ==
    ASSUME IInv, NEW l \in Lease, DeadlinePasses(l)
    PROVE  IInv'
<1>1. TypeOK'
  BY DEF IInv, TypeOK, DeadlinePasses, ClaimMoves
<1>2. ASSUME NEW k \in Lease PROVE ReportInv(k)'
  BY <1>2 DEF IInv, TypeOK, ReportInv, ClaimInv, DeadlinePasses, ClaimMoves
<1>3. ASSUME NEW k \in Lease PROVE ClaimInv(k)'
  BY <1>3 DEF IInv, TypeOK, ClaimInv, Posted, DeadlinePasses, ClaimMoves
<1>4. ASSUME NEW k \in Lease PROVE (EntryInv(k) /\ OutcomeInv(k))'
  BY <1>4 DEF IInv, TypeOK, EntryInv, OutcomeInv, HeldForLease, Posted, DeadlinePasses
<1> QED
  BY <1>1, <1>2, <1>3, <1>4 DEF IInv, DeadlinePasses

\* A lease that ends unreported was not reported on.
LEMMA LeaseEndsStep ==
    ASSUME IInv, NEW l \in Lease, LeaseEnds(l)
    PROVE  IInv'
<1>1. TypeOK'
  BY DEF IInv, TypeOK, LeaseEnds, ClaimMoves
<1>2. ASSUME NEW k \in Lease PROVE ReportInv(k)'
  BY <1>2 DEF IInv, TypeOK, ReportInv, ClaimInv, LeaseEnds, ClaimMoves
<1>3. ASSUME NEW k \in Lease PROVE ClaimInv(k)'
  BY <1>3 DEF IInv, TypeOK, ClaimInv, Posted, LeaseEnds, ClaimMoves
<1>4. ASSUME NEW k \in Lease PROVE (EntryInv(k) /\ OutcomeInv(k))'
  BY <1>4 DEF IInv, TypeOK, EntryInv, OutcomeInv, HeldForLease, Posted, LeaseEnds
<1> QED
  BY <1>1, <1>2, <1>3, <1>4 DEF IInv, LeaseEnds

\* The coordinator's answer and the report agree.
LEMMA CompleteStep ==
    ASSUME IInv, NEW l \in Lease, Complete(l)
    PROVE  IInv'
<1>1. TypeOK'
  BY DEF IInv, TypeOK, Complete, ClaimMoves
<1>2. ASSUME NEW k \in Lease PROVE ReportInv(k)'
  BY <1>2 DEF IInv, TypeOK, ReportInv, ClaimInv, Complete, ClaimMoves
<1>3. ASSUME NEW k \in Lease PROVE ClaimInv(k)'
  BY <1>3 DEF IInv, TypeOK, ClaimInv, Posted, Complete, ClaimMoves
<1>4. ASSUME NEW k \in Lease PROVE (EntryInv(k) /\ OutcomeInv(k))'
  BY <1>4 DEF IInv, TypeOK, EntryInv, OutcomeInv, HeldForLease, Posted, Complete
<1> QED
  BY <1>1, <1>2, <1>3, <1>4 DEF IInv, Complete

\* The coordinator's answer and the report agree.
LEMMA FailStep ==
    ASSUME IInv, NEW l \in Lease, Fail(l)
    PROVE  IInv'
<1>1. TypeOK'
  BY DEF IInv, TypeOK, Fail, ClaimMoves
<1>2. ASSUME NEW k \in Lease PROVE ReportInv(k)'
  BY <1>2 DEF IInv, TypeOK, ReportInv, ClaimInv, Fail, ClaimMoves
<1>3. ASSUME NEW k \in Lease PROVE ClaimInv(k)'
  BY <1>3 DEF IInv, TypeOK, ClaimInv, Posted, Fail, ClaimMoves
<1>4. ASSUME NEW k \in Lease PROVE (EntryInv(k) /\ OutcomeInv(k))'
  BY <1>4 DEF IInv, TypeOK, EntryInv, OutcomeInv, HeldForLease, Posted, Fail
<1> QED
  BY <1>1, <1>2, <1>3, <1>4 DEF IInv, Fail

\* The attempt it credits was accepted when the right to it was taken.
LEMMA RecordContributionStep ==
    ASSUME IInv, NEW l \in Lease, RecordContribution(l)
    PROVE  IInv'
<1>1. TypeOK'
  BY DEF IInv, TypeOK, RecordContribution, ClaimMoves
<1>2. ASSUME NEW k \in Lease PROVE ReportInv(k)'
  BY <1>2 DEF IInv, TypeOK, ReportInv, ClaimInv, RecordContribution, ClaimMoves
<1>3. ASSUME NEW k \in Lease PROVE ClaimInv(k)'
  BY <1>3 DEF IInv, TypeOK, ClaimInv, Posted, RecordContribution, ClaimMoves
<1>4. ASSUME NEW k \in Lease PROVE (EntryInv(k) /\ OutcomeInv(k))'
  BY <1>4 DEF IInv, TypeOK, EntryInv, OutcomeInv, HeldForLease, Posted, RecordContribution
<1> QED
  BY <1>1, <1>2, <1>3, <1>4 DEF IInv, RecordContribution

\* Losing a report disturbs nothing.
LEMMA ReportLostStep ==
    ASSUME IInv, NEW l \in Lease, ReportLost(l)
    PROVE  IInv'
<1>1. TypeOK'
  BY DEF IInv, TypeOK, ReportLost, ClaimMoves
<1>2. ASSUME NEW k \in Lease PROVE ReportInv(k)'
  BY <1>2 DEF IInv, TypeOK, ReportInv, ClaimInv, ReportLost, ClaimMoves
<1>3. ASSUME NEW k \in Lease PROVE ClaimInv(k)'
  BY <1>3 DEF IInv, TypeOK, ClaimInv, Posted, ReportLost, ClaimMoves
<1>4. ASSUME NEW k \in Lease PROVE (EntryInv(k) /\ OutcomeInv(k))'
  BY <1>4 DEF IInv, TypeOK, EntryInv, OutcomeInv, HeldForLease, Posted, ReportLost
<1> QED
  BY <1>1, <1>2, <1>3, <1>4 DEF IInv, ReportLost

(* The movements of one lease. *)

\* What is true of a money step on lease l whatever it is: the types, the total,
\* and every other lease left alone.
MovesOnly(l) ==
    /\ (posted \subseteq Reasons \X Lease)'
    /\ hold' = hold
    /\ spent' \in [Lease -> Nat] /\ released' \in [Lease -> Nat]
    /\ refunded' \in [Lease -> Nat]
    /\ spendable' \in Nat /\ escrow' \in Int /\ earned' \in Nat
    /\ spendable' + escrow' + earned' = spendable + escrow + earned
    /\ Posted("hold", l)' = Posted("hold", l)
    /\ \A k \in Lease \ {l} :
          /\ \A r \in Reasons : Posted(r, k)' = Posted(r, k)
          /\ spent'[k] = spent[k] /\ released'[k] = released[k]
          /\ refunded'[k] = refunded[k]

\* A settlement leaves nothing held, and pays only out of a hold.
LEMMA SettleMoves ==
    ASSUME TypeOK, NEW l \in Lease, EntryInv(l), latest \in Match,
           NEW seconds \in Nat, Settle(latest, l, seconds), ~Posted("spent", l)
    PROVE  /\ MovesOnly(l)
           /\ HeldForLease(l)' = 0
           /\ Posted("spent", l)'
           /\ Posted("refund", l)' = Posted("refund", l)
           /\ spent'[l] > 0 => refunded'[l] = 0
<1> DEFINE charge == ChargeZc(latest, l, seconds)
           rest   == HeldForLease(l) - charge
<1>1. HeldForLease(l) \in Nat /\ charge \in 0..HeldForLease(l)
  BY ChargeBounds
<1>2. charge \in Nat /\ rest \in Nat
  BY <1>1
<1>3. /\ spent' = [spent EXCEPT ![l] = charge]
      /\ earned' = earned + charge
      /\ released' = [released EXCEPT ![l] = @ + rest]
      /\ spendable' = spendable + rest
      /\ escrow' = escrow - charge - rest
      /\ hold' = hold /\ refunded' = refunded
      /\ \/ posted' = posted \cup ({"spent", "release"} \X {l})
         \/ posted' = posted \cup ({"spent"} \X {l})
  BY DEF Settle, Enter
<1>4. HeldForLease(l) = hold[l] - refunded[l] /\ spent[l] = 0 /\ released[l] = 0
  BY DEF EntryInv, HeldForLease, TypeOK
<1>5. refunded[l] > 0 => HeldForLease(l) = 0
  BY DEF EntryInv, TypeOK
<1> HIDE DEF charge, rest
<1>6. (posted \subseteq Reasons \X Lease)'
  BY <1>3 DEF TypeOK
<1>7. /\ spent' \in [Lease -> Nat] /\ released' \in [Lease -> Nat]
      /\ refunded' \in [Lease -> Nat]
      /\ spendable' \in Nat /\ escrow' \in Int /\ earned' \in Nat
  BY <1>2, <1>3 DEF TypeOK
<1>8. spendable' + escrow' + earned' = spendable + escrow + earned
  BY <1>2, <1>3 DEF TypeOK
<1>9. Posted("spent", l)' /\ Posted("refund", l)' = Posted("refund", l)
      /\ Posted("hold", l)' = Posted("hold", l)
  BY <1>3 DEF Posted
<1>10. ASSUME NEW k \in Lease \ {l}
       PROVE  /\ \A r \in Reasons : Posted(r, k)' = Posted(r, k)
              /\ spent'[k] = spent[k] /\ released'[k] = released[k]
              /\ refunded'[k] = refunded[k]
  BY <1>3, <1>10 DEF Posted, TypeOK
<1>11. spent'[l] = charge /\ released'[l] = rest
  BY <1>2, <1>3, <1>4 DEF TypeOK
<1>12. HeldForLease(l)' = 0
  BY <1>2, <1>3, <1>4, <1>11 DEF HeldForLease, TypeOK, rest
<1>13. spent'[l] > 0 => refunded'[l] = 0
  BY <1>1, <1>3, <1>5, <1>11 DEF TypeOK
<1> QED
  BY <1>3, <1>6, <1>7, <1>8, <1>9, <1>10, <1>12, <1>13 DEF MovesOnly

\* A refund leaves nothing held either, and pays nobody.
LEMMA RefundMoves ==
    ASSUME TypeOK, NEW l \in Lease, EntryInv(l), Refund(l)
    PROVE  /\ MovesOnly(l)
           /\ HeldForLease(l)' = 0
           /\ Posted("spent", l)' = Posted("spent", l)
           /\ Posted("refund", l)'
           /\ spent' = spent /\ released' = released
           /\ refunded'[l] = refunded[l] \/ ~Posted("refund", l)
<1>1. CASE Posted("refund", l)
  <2>1. UNCHANGED moneyVars
    BY <1>1 DEF Refund
  <2>2. HeldForLease(l) = 0
    BY <1>1 DEF EntryInv
  <2> QED
    BY <1>1, <2>1, <2>2 DEF MovesOnly, HeldForLease, Posted, TypeOK
<1>2. CASE ~Posted("refund", l)
  <2>1. HeldForLease(l) \in Nat
    BY DEF TypeOK, EntryInv, HeldForLease
  <2>2. /\ posted' = posted \cup ({"refund"} \X {l})
        /\ refunded' = [refunded EXCEPT ![l] = HeldForLease(l)]
        /\ spendable' = spendable + HeldForLease(l)
        /\ escrow' = escrow - HeldForLease(l)
        /\ UNCHANGED <<hold, spent, released, earned>>
    BY <1>2 DEF Refund, Enter
  <2>3. (posted \subseteq Reasons \X Lease)'
    BY <2>2 DEF TypeOK
  <2>4. /\ refunded' \in [Lease -> Nat]
        /\ spendable' \in Nat /\ escrow' \in Int
        /\ spendable' + escrow' + earned' = spendable + escrow + earned
    BY <2>1, <2>2 DEF TypeOK
  <2>5. /\ Posted("hold", l)' = Posted("hold", l)
        /\ Posted("spent", l)' = Posted("spent", l)
        /\ Posted("refund", l)'
    BY <2>2 DEF Posted
  <2>6. ASSUME NEW k \in Lease \ {l}
        PROVE  /\ \A r \in Reasons : Posted(r, k)' = Posted(r, k)
               /\ refunded'[k] = refunded[k]
    BY <2>2, <2>6 DEF Posted, TypeOK
  <2>7. refunded[l] = 0 /\ refunded'[l] = HeldForLease(l)
    BY <1>2, <2>2 DEF TypeOK, EntryInv
  <2>8. HeldForLease(l)' = 0
    BY <2>2, <2>7 DEF HeldForLease, TypeOK
  <2> QED
    BY <1>2, <2>2, <2>3, <2>4, <2>5, <2>6, <2>8 DEF MovesOnly, TypeOK
<1> QED
  BY <1>1, <1>2

\* What _close_out_attempt_money leaves behind, whichever movement it makes.
ClosesOut(l) ==
    /\ MovesOnly(l)
    /\ EntryInv(l)'
    /\ l \notin unposted' => HeldForLease(l)' = 0
    /\ unposted' \subseteq Lease /\ unposted' \ {l} = unposted \ {l}

\* Without a claimed match nothing was ever held.
LEMMA NothingHeld ==
    ASSUME TypeOK, NEW l \in Lease, EntryInv(l), latest = NoMatch
    PROVE  HeldForLease(l) = 0
BY DEF TypeOK, EntryInv, HeldForLease

\* An attempt's money left as it is.
LEMMA MoneyUntouched ==
    ASSUME TypeOK, NEW l \in Lease, EntryInv(l), UNCHANGED moneyVars,
           latest' = latest
    PROVE  /\ MovesOnly(l) /\ EntryInv(l)'
           /\ HeldForLease(l)' = HeldForLease(l)
           /\ Posted("spent", l)' = Posted("spent", l)
<1>1. \A k \in Lease, r \in Reasons : Posted(r, k)' = Posted(r, k)
  BY DEF Posted
<1>2. HeldForLease(l)' = HeldForLease(l)
  BY DEF HeldForLease
<1>3. MovesOnly(l)
  BY <1>1 DEF MovesOnly, TypeOK
<1> QED
  BY <1>1, <1>2, <1>3 DEF EntryInv

\* A refund that finds its match, finds none, or is rolled back: in each case only
\* this lease is touched, and nobody is paid.
LEMMA CloseOutRefund ==
    ASSUME TypeOK, NEW l \in Lease, EntryInv(l), latest' = latest,
           CloseOut(l, Refund(l))
    PROVE  /\ ClosesOut(l)
           /\ Posted("spent", l)' = Posted("spent", l)
<1>1. CASE latest = NoMatch /\ UNCHANGED <<moneyVars, unposted>>
  BY <1>1, NothingHeld, MoneyUntouched DEF ClosesOut, TypeOK
<1>2. CASE latest # NoMatch /\ Refund(l) /\ UNCHANGED unposted
  <2>1. /\ MovesOnly(l) /\ HeldForLease(l)' = 0
        /\ Posted("spent", l)' = Posted("spent", l) /\ Posted("refund", l)'
        /\ spent' = spent /\ released' = released
        /\ refunded'[l] = refunded[l] \/ ~Posted("refund", l)
    BY <1>2, RefundMoves
  <2>2. spent'[l] > 0 => refunded'[l] = 0
    <3>1. CASE Posted("spent", l)
      <4>1. HeldForLease(l) = 0
        BY <3>1 DEF EntryInv
      <4>2. refunded'[l] = refunded[l] \/ refunded'[l] = 0
        BY <1>2, <4>1 DEF Refund, TypeOK
      <4> QED
        BY <2>1, <4>2 DEF EntryInv
    <3>2. CASE ~Posted("spent", l)
      BY <2>1, <3>2 DEF EntryInv, TypeOK
    <3> QED
      BY <3>1, <3>2
  <2>3. EntryInv(l)'
    BY <1>2, <2>1, <2>2 DEF EntryInv, MovesOnly
  <2> QED
    BY <1>2, <2>1, <2>3 DEF ClosesOut, TypeOK
<1>3. CASE /\ latest # NoMatch /\ unposted' = unposted \cup {l}
           /\ UNCHANGED moneyVars
  BY <1>3, MoneyUntouched DEF ClosesOut, TypeOK
<1> QED
  BY <1>1, <1>2, <1>3 DEF CloseOut

\* The same for a settlement that was not posted before.
LEMMA CloseOutSettle ==
    ASSUME TypeOK, NEW l \in Lease, EntryInv(l), latest' = latest,
           ~Posted("spent", l), NEW seconds \in Nat,
           CloseOut(l, Settle(latest, l, seconds))
    PROVE  ClosesOut(l)
<1>1. CASE latest = NoMatch /\ UNCHANGED <<moneyVars, unposted>>
  BY <1>1, NothingHeld, MoneyUntouched DEF ClosesOut, TypeOK
<1>2. CASE latest # NoMatch /\ Settle(latest, l, seconds) /\ UNCHANGED unposted
  <2>1. latest \in Match
    BY <1>2 DEF TypeOK
  <2>2. /\ MovesOnly(l) /\ HeldForLease(l)' = 0 /\ Posted("spent", l)'
        /\ Posted("refund", l)' = Posted("refund", l)
        /\ spent'[l] > 0 => refunded'[l] = 0
    BY <1>2, <2>1, SettleMoves
  <2>3. refunded' = refunded
    BY <1>2 DEF Settle
  <2>4. EntryInv(l)'
    BY <1>2, <2>2, <2>3 DEF EntryInv, MovesOnly
  <2> QED
    BY <1>2, <2>2, <2>4 DEF ClosesOut, TypeOK
<1>3. CASE /\ latest # NoMatch /\ unposted' = unposted \cup {l}
           /\ UNCHANGED moneyVars
  BY <1>3, MoneyUntouched DEF ClosesOut, TypeOK
<1> QED
  BY <1>1, <1>2, <1>3 DEF CloseOut

(* The steps that move money. *)

\* A step that closes out l, and says how its attempt ended, keeps the invariant
\* if the reports and the new outcome agree with the coordinator.
LEMMA ResolvingStep ==
    ASSUME IInv, NEW l \in Lease, ClosesOut(l),
           UNCHANGED <<coord, claiming, found, stale, contributed, matchVars>>,
           completing' \subseteq completing, failing' \subseteq failing,
           crediting' \subseteq crediting \cup {l},
           NEW end \in Resolved, outcome' = [outcome EXCEPT ![l] = end],
           claiming[l] \in {"done", "lost"},
           l \in crediting' \cup contributed' => end = "accepted",
           l \in completing' \/ end = "accepted" => coord[l] = "accepted",
           l \in failing' \/ end = "failed" => coord[l] = "failed",
           Posted("spent", l)' => end = "accepted"
    PROVE  IInv'
<1>1. TypeOK'
  BY DEF IInv, TypeOK, ClosesOut, MovesOnly
<1>2. (spendable + escrow + earned = Grant)' /\ (claimed # {} => latest # NoMatch)'
  BY DEF IInv, ClosesOut, MovesOnly
<1>3. ASSUME NEW k \in Lease \ {l}
      PROVE  (ReportInv(k) /\ ClaimInv(k) /\ EntryInv(k) /\ OutcomeInv(k))'
  <2>1. /\ \A r \in Reasons : Posted(r, k)' = Posted(r, k)
        /\ HeldForLease(k)' = HeldForLease(k)
        /\ hold'[k] = hold[k] /\ spent'[k] = spent[k]
        /\ released'[k] = released[k] /\ refunded'[k] = refunded[k]
        /\ k \in unposted' <=> k \in unposted
        /\ outcome'[k] = outcome[k]
    BY <1>3 DEF IInv, TypeOK, ClosesOut, MovesOnly, HeldForLease
  <2>2. (ReportInv(k) /\ ClaimInv(k))'
    BY <1>3, <2>1 DEF IInv, ReportInv, ClaimInv
  <2>3. (EntryInv(k) /\ OutcomeInv(k))'
    BY <1>3, <2>1 DEF IInv, EntryInv, OutcomeInv
  <2> QED
    BY <2>2, <2>3
<1>4. outcome'[l] = end
  BY DEF IInv, TypeOK
<1>5. ReportInv(l)'
  BY <1>4 DEF IInv, ReportInv, ClosesOut
<1>6. ClaimInv(l)'
  BY DEF IInv, ClaimInv, ClosesOut, MovesOnly
<1>7. EntryInv(l)' /\ OutcomeInv(l)'
  BY <1>4 DEF ClosesOut, OutcomeInv
<1> QED
  BY <1>1, <1>2, <1>3, <1>5, <1>6, <1>7 DEF IInv

\* An accepted report resolves the attempt as accepted, or finds it resolved so.
LEMMA ClaimAttemptCreditStep ==
    ASSUME IInv, NEW l \in Lease, ClaimAttemptCredit(l)
    PROVE  IInv'
<1>1. /\ coord[l] = "accepted" /\ claiming[l] = "done"
      /\ l \notin failing
  BY DEF IInv, ReportInv, ClaimInv, ClaimAttemptCredit
<1>2. CASE outcome[l] \in {"none", "accepted"}
  <2>1. /\ UNCHANGED <<crediting, outcome, moneyVars, unposted, coord, claiming,
                      found, failing, stale, contributed, matchVars>>
        /\ completing' = completing \ {l}
    BY <1>2 DEF ClaimAttemptCredit
  <2>2. TypeOK'
    BY <2>1 DEF IInv, TypeOK
  <2>3. ASSUME NEW k \in Lease PROVE (ReportInv(k) /\ ClaimInv(k))'
    BY <2>1, <2>3 DEF IInv, ReportInv, ClaimInv, Posted
  <2>4. ASSUME NEW k \in Lease PROVE (EntryInv(k) /\ OutcomeInv(k))'
    BY <2>1, <2>4 DEF IInv, EntryInv, OutcomeInv, HeldForLease, Posted
  <2> QED
    BY <2>1, <2>2, <2>3, <2>4 DEF IInv
<1>3. CASE outcome[l] \notin {"none", "accepted"}
  <2>1. PICK seconds \in 1..MaxSeconds : CloseOut(l, Settle(latest, l, seconds))
    BY <1>3 DEF ClaimAttemptCredit
  <2>2. ~Posted("spent", l) /\ seconds \in Nat
    BY <1>3, BoundsAssumption DEF IInv, OutcomeInv
  <2>3. ClosesOut(l)
    BY <2>1, <2>2, CloseOutSettle DEF IInv, ClaimAttemptCredit
  <2> QED
    BY <1>1, <1>3, <2>3, ResolvingStep DEF ClaimAttemptCredit
<1> QED
  BY <1>2, <1>3

\* A failed report resolves an open or expired attempt, which was never settled.
LEMMA RecordAttemptFailureStep ==
    ASSUME IInv, NEW l \in Lease, RecordAttemptFailure(l)
    PROVE  IInv'
<1>1. /\ coord[l] = "failed" /\ claiming[l] = "done"
      /\ l \notin completing \cup crediting \cup contributed
  BY DEF IInv, ReportInv, ClaimInv, RecordAttemptFailure
<1>2. CASE outcome[l] \notin {"open", "expired"}
  <2>1. /\ UNCHANGED <<outcome, moneyVars, unposted, coord, claiming, found,
                      completing, crediting, stale, contributed, matchVars>>
        /\ failing' = failing \ {l}
    BY <1>2 DEF RecordAttemptFailure
  <2>2. TypeOK'
    BY <2>1 DEF IInv, TypeOK
  <2>3. ASSUME NEW k \in Lease PROVE (ReportInv(k) /\ ClaimInv(k))'
    BY <2>1, <2>3 DEF IInv, ReportInv, ClaimInv, Posted
  <2>4. ASSUME NEW k \in Lease PROVE (EntryInv(k) /\ OutcomeInv(k))'
    BY <2>1, <2>4 DEF IInv, EntryInv, OutcomeInv, HeldForLease, Posted
  <2> QED
    BY <2>1, <2>2, <2>3, <2>4 DEF IInv
<1>3. CASE outcome[l] \in {"open", "expired"}
  <2>1. ClosesOut(l) /\ Posted("spent", l)' = Posted("spent", l)
    BY <1>3, CloseOutRefund DEF IInv, RecordAttemptFailure
  <2>2. ~Posted("spent", l)
    BY <1>3 DEF IInv, OutcomeInv
  <2> QED
    BY <1>1, <1>3, <2>1, <2>2, ResolvingStep DEF RecordAttemptFailure
<1> QED
  BY <1>2, <1>3

\* Expiry resolves only an open attempt, which was never settled either.
LEMMA ReconcileExpiredStep ==
    ASSUME IInv, NEW l \in Lease, ReconcileExpired(l)
    PROVE  IInv'
<1>1. /\ claiming[l] \in {"done", "lost"}
      /\ l \notin crediting \cup contributed
      /\ ~Posted("spent", l)
      /\ l \in completing => coord[l] = "accepted"
      /\ l \in failing => coord[l] = "failed"
  BY DEF IInv, TypeOK, ReportInv, ClaimInv, OutcomeInv, ReconcileExpired
<1>2. ClosesOut(l) /\ Posted("spent", l)' = Posted("spent", l)
  BY CloseOutRefund DEF IInv, ReconcileExpired
<1> QED
  BY <1>1, <1>2, ResolvingStep DEF ReconcileExpired

\* A hold is the first entry of its lease and is covered by the buyer's balance.
LEMMA HoldEscrowStep ==
    ASSUME IInv, NEW l \in Lease, HoldEscrow(l)
    PROVE  /\ IInv'
           /\ HeldForLease(l) = 0 /\ ~Posted("hold", l)
           /\ HeldForLease(l)' = HoldZc(found[l], EstSeconds)
           /\ HoldZc(found[l], EstSeconds) \in 0..spendable
<1> DEFINE m      == found[l]
           amount == HoldZc(m, EstSeconds)
<1>1. /\ claiming[l] = "matched" /\ m \in Match /\ ~Posted("hold", l)
      /\ l \notin completing \cup failing \cup stale
      /\ outcome[l] \in {"none", "open"}
      /\ ~Posted("spent", l) /\ ~Posted("refund", l)
      /\ m \in granted \cup claimed
  BY MatchesAssumption DEF IInv, TypeOK, ClaimInv, OutcomeInv, HoldEscrow, ClaimMoves
<1>2. amount \in Nat /\ amount <= spendable
  BY <1>1, HoldZcType, BidAssumption DEF HoldEscrow
<1> HIDE DEF m, amount
<1>3. /\ claiming' = [claiming EXCEPT ![l] = "done"]
      /\ posted' = posted \cup ({"hold"} \X {l})
      /\ hold' = [hold EXCEPT ![l] = amount]
      /\ spendable' = spendable - amount /\ escrow' = escrow + amount
      /\ granted' = granted \ {m} /\ claimed' = claimed \cup {m}
      /\ latest' = IF m \in granted THEN m ELSE latest
      /\ UNCHANGED <<coord, found, completing, crediting, failing, attemptVars,
                     spent, released, refunded, earned, unposted>>
  BY DEF HoldEscrow, ClaimMoves, Enter, m, amount
<1>4. latest' # NoMatch /\ latest' \in Match
  BY <1>1, <1>3, MatchesAssumption DEF IInv, TypeOK
<1>5. hold[l] = 0 /\ spent[l] = 0 /\ released[l] = 0 /\ refunded[l] = 0
  BY <1>1 DEF IInv, TypeOK, EntryInv, HeldForLease
<1>6. HeldForLease(l) = 0 /\ HeldForLease(l)' = amount
  BY <1>2, <1>3, <1>5 DEF IInv, TypeOK, HeldForLease
<1>7. TypeOK'
  BY <1>1, <1>2, <1>3, <1>4 DEF IInv, TypeOK
<1>8. (spendable + escrow + earned = Grant)'
  BY <1>2, <1>3 DEF IInv, TypeOK
<1>9. ASSUME NEW k \in Lease PROVE ReportInv(k)'
  BY <1>3, <1>9 DEF IInv, ReportInv
<1>10. ASSUME NEW k \in Lease PROVE ClaimInv(k)'
  BY <1>1, <1>3, <1>10 DEF IInv, TypeOK, ClaimInv, Posted
<1>11. ASSUME NEW k \in Lease PROVE (EntryInv(k) /\ OutcomeInv(k))'
  <2>1. CASE k = l
    <3>1. /\ ~Posted("spent", l)' /\ Posted("hold", l)'
          /\ Posted("refund", l)' = Posted("refund", l)
      BY <1>1, <1>3 DEF Posted
    <3> QED
      BY <1>1, <1>2, <1>3, <1>4, <1>5, <1>6, <2>1, <3>1 DEF EntryInv, OutcomeInv
  <2>2. CASE k # l
    <3>1. /\ \A r \in Reasons : Posted(r, k)' = Posted(r, k)
          /\ hold'[k] = hold[k]
      BY <1>3, <1>11, <2>2 DEF IInv, TypeOK, Posted
    <3>2. HeldForLease(k)' = HeldForLease(k)
      BY <1>3, <3>1 DEF HeldForLease
    <3> QED
      BY <1>3, <1>4, <1>11, <3>1, <3>2 DEF IInv, EntryInv, OutcomeInv
  <2> QED
    BY <2>1, <2>2
<1> QED
  BY <1>1, <1>2, <1>3, <1>4, <1>6, <1>7, <1>8, <1>9, <1>10, <1>11 DEF IInv, m, amount

(* The inductive invariant. *)

\* At first there are no rows, no entries and no reports.
LEMMA InitInv == Init => IInv
<1> SUFFICES ASSUME Init PROVE IInv
  OBVIOUS
<1>1. TypeOK
  BY BoundsAssumption DEF Init, TypeOK
<1>2. ASSUME NEW l \in Lease
      PROVE  ReportInv(l) /\ ClaimInv(l) /\ EntryInv(l) /\ OutcomeInv(l)
  BY <1>2 DEF Init, ReportInv, ClaimInv, EntryInv, OutcomeInv, HeldForLease, Posted
<1> QED
  BY <1>1, <1>2, BoundsAssumption DEF Init, IInv

\* The invariant is about the state alone.
LEMMA StutterInv == IInv /\ UNCHANGED vars => IInv'
BY DEF vars, IInv, TypeOK, ReportInv, ClaimInv, EntryInv, OutcomeInv, HeldForLease,
       Posted

\* Every step of every handler keeps the invariant.
LEMMA NextInv == IInv /\ [Next]_vars => IInv'
<1> SUFFICES ASSUME IInv, [Next]_vars PROVE IInv'
  OBVIOUS
<1>1. ASSUME NEW m \in Match, GrantMatch(m) PROVE IInv'
  BY <1>1, GrantMatchStep
<1>2. ASSUME NEW l \in Lease, LeaseStep(l) PROVE IInv'
  <2>1. CASE Claim(l)
    BY <1>2, <2>1, ClaimStep
  <2>2. CASE RecordAttempt(l)
    BY <1>2, <2>2, RecordAttemptStep
  <2>3. CASE MatchForClaim(l)
    BY <1>2, <2>3, MatchForClaimStep
  <2>4. CASE HoldEscrow(l)
    BY <1>2, <2>4, HoldEscrowStep
  <2>5. CASE HoldFails(l)
    BY <1>2, <2>5, HoldFailsStep
  <2>6. CASE ClaimLost(l)
    BY <1>2, <2>6, ClaimLostStep
  <2>7. CASE NoteDeadline(l)
    BY <1>2, <2>7, NoteDeadlineStep
  <2>8. CASE DeadlinePasses(l)
    BY <1>2, <2>8, DeadlinePassesStep
  <2>9. CASE LeaseEnds(l)
    BY <1>2, <2>9, LeaseEndsStep
  <2>10. CASE Complete(l)
    BY <1>2, <2>10, CompleteStep
  <2>11. CASE Fail(l)
    BY <1>2, <2>11, FailStep
  <2>12. CASE ClaimAttemptCredit(l)
    BY <1>2, <2>12, ClaimAttemptCreditStep
  <2>13. CASE RecordContribution(l)
    BY <1>2, <2>13, RecordContributionStep
  <2>14. CASE RecordAttemptFailure(l)
    BY <1>2, <2>14, RecordAttemptFailureStep
  <2>15. CASE ReportLost(l)
    BY <1>2, <2>15, ReportLostStep
  <2>16. CASE ReconcileExpired(l)
    BY <1>2, <2>16, ReconcileExpiredStep
  <2> QED
    BY <1>2, <2>1, <2>2, <2>3, <2>4, <2>5, <2>6, <2>7, <2>8, <2>9, <2>10,
       <2>11, <2>12, <2>13, <2>14, <2>15, <2>16 DEF LeaseStep
<1>3. CASE UNCHANGED vars
  BY <1>3, StutterInv
<1> QED
  BY <1>1, <1>2, <1>3 DEF Next

\* The invariant every result below rests on: routes, coordinator, outcomes and
\* entries of every lease agree, and the total is what was granted.
THEOREM InductiveInvariant == Spec => []IInv
<1>1. Init => IInv
  BY InitInv
<1>2. IInv /\ [Next]_vars => IInv'
  BY NextInv
<1> QED
  BY <1>1, <1>2, PTL DEF Spec

\* Every variable keeps its type; in particular no balance but the escrow account's
\* can become negative (nor can that one: it is a sum, see TheBooksBalance).
THEOREM TypeCorrect == Spec => []TypeOK
<1>1. IInv => TypeOK
  BY DEF IInv
<1> QED
  BY <1>1, InductiveInvariant, PTL

\* Hard rule 4 (claim_attempt_credit, record_attempt_failure, the reconciler): no
\* host is paid and no machine credited for an attempt that was not accepted.
THEOREM PaidOnlyForAcceptedWork == Spec => []CreditOnlyForAcceptedWork
<1>1. IInv => CreditOnlyForAcceptedWork
  <2> SUFFICES ASSUME IInv, NEW l \in Lease,
                      spent[l] > 0 \/ l \in crediting \cup contributed
               PROVE  /\ outcome[l] = "accepted" /\ coord[l] = "accepted"
                      /\ spent[l] > 0 => refunded[l] = 0
    BY DEF CreditOnlyForAcceptedWork
  <2>1. outcome[l] = "accepted"
    BY DEF IInv, TypeOK, ReportInv, EntryInv, OutcomeInv
  <2> QED
    BY <2>1 DEF IInv, ReportInv, EntryInv
<1> QED
  BY <1>1, InductiveInvariant, PTL

\* Nothing stays held for a resolved attempt whose movement was not refused.
THEOREM EscrowComesBack == Spec => []FinishedLeaseHoldsNothing
<1>1. IInv => FinishedLeaseHoldsNothing
  BY DEF IInv, OutcomeInv, FinishedLeaseHoldsNothing
<1> QED
  BY <1>1, InductiveInvariant, PTL

(* The action property. *)

\* A step changes an observed outcome in no case: the coordinator has accepted or
\* refused the lease for good, and only "open" and "expired" are written over.
LEMMA ObservedOutcomeStands ==
    ASSUME IInv, [Next]_vars, NEW l \in Lease, outcome[l] \in {"accepted", "failed"}
    PROVE  outcome'[l] = outcome[l]
<1>1. ASSUME NEW k \in Lease, LeaseStep(k) PROVE outcome'[l] = outcome[l]
  <2>1. CASE ClaimAttemptCredit(k)
    <3>1. coord[k] = "accepted"
      BY <2>1 DEF IInv, ReportInv, ClaimAttemptCredit
    <3>2. outcome[l] = "failed" => l # k
      BY <3>1 DEF IInv, ReportInv
    <3> QED
      BY <2>1, <3>2 DEF IInv, TypeOK, ClaimAttemptCredit
  <2>2. CASE RecordAttemptFailure(k) \/ ReconcileExpired(k)
    BY <2>2 DEF IInv, TypeOK, RecordAttemptFailure, ReconcileExpired
  <2>3. CASE RecordAttempt(k)
    BY <2>3 DEF IInv, TypeOK, ClaimInv, RecordAttempt, ClaimMoves
  <2>4. CASE ~(ClaimAttemptCredit(k) \/ RecordAttemptFailure(k)
               \/ ReconcileExpired(k) \/ RecordAttempt(k))
    BY <1>1, <2>4 DEF LeaseStep, Claim, MatchForClaim, HoldEscrow, HoldFails,
         ClaimLost, NoteDeadline, DeadlinePasses, LeaseEnds, Complete, Fail,
         RecordContribution, ReportLost
  <2> QED
    BY <2>1, <2>2, <2>3, <2>4
<1>2. ASSUME NEW m \in Match, GrantMatch(m) PROVE outcome'[l] = outcome[l]
  BY <1>2 DEF GrantMatch
<1>3. CASE UNCHANGED vars
  BY <1>3 DEF vars
<1> QED
  BY <1>1, <1>2, <1>3 DEF Next

\* Reports and reconcilers arrive in any order and more than once: they correct
\* an inferred outcome and never an observed one.
THEOREM ObservedOutcomesStand == Spec => OnlyInferenceIsCorrected
<1>1. IInv /\ [Next]_vars =>
        [\A l \in Lease :
            outcome[l] \in {"accepted", "failed"} => outcome'[l] = outcome[l]]_vars
  BY ObservedOutcomeStands
<1> QED
  BY <1>1, InductiveInvariant, PTL DEF Spec, OnlyInferenceIsCorrected

(* The refinement of EscrowBook. *)

\* What a step leaves of the book when it moves no money.
LEMMA BookStutters ==
    ASSUME UNCHANGED moneyVars
    PROVE  UNCHANGED <<spendable, earned, Held, Opened>>
BY DEF Held, Opened, HeldForLease, Posted

\* A movement of one lease shows in the book as that lease's entry alone.
LEMMA BookEntry ==
    ASSUME NEW l \in Lease, MovesOnly(l), HeldForLease(l)' = 0
    PROVE  /\ Held' = [Held EXCEPT ![l] = 0]
           /\ Opened' = Opened
<1>1. ASSUME NEW k \in Lease \ {l} PROVE HeldForLease(k)' = HeldForLease(k)
  BY <1>1 DEF MovesOnly, HeldForLease
<1>2. ASSUME NEW k \in Lease PROVE Posted("hold", k)' = Posted("hold", k)
  BY <1>2 DEF MovesOnly
<1> QED
  BY <1>1, <1>2 DEF Held, Opened

\* HoldEscrow is EscrowBook's Hold.
LEMMA BookHolds ==
    ASSUME IInv, NEW l \in Lease, HoldEscrow(l)
    PROVE  Book!Hold(l)
<1> DEFINE amount == HoldZc(found[l], EstSeconds)
<1>1. /\ HeldForLease(l) = 0 /\ ~Posted("hold", l)
      /\ HeldForLease(l)' = amount /\ amount \in 0..spendable
  BY HoldEscrowStep
<1>2. /\ posted' = posted \cup ({"hold"} \X {l})
      /\ hold' = [hold EXCEPT ![l] = amount]
      /\ spendable' = spendable - amount
      /\ UNCHANGED <<spent, released, refunded, earned>>
  BY DEF HoldEscrow, Enter
<1> HIDE DEF amount
<1>3. ASSUME NEW k \in Lease \ {l}
      PROVE  HeldForLease(k)' = HeldForLease(k) /\ Posted("hold", k)' = Posted("hold", k)
  BY <1>2, <1>3 DEF IInv, TypeOK, HeldForLease, Posted
<1>4. Held' = [Held EXCEPT ![l] = amount]
  BY <1>1, <1>3 DEF Held
<1>5. Opened' = Opened \cup {l}
  <2>1. Posted("hold", l)'
    BY <1>2 DEF Posted
  <2> QED
    BY <1>3, <2>1 DEF Opened
<1>6. l \notin Opened
  BY <1>1 DEF Opened
<1> QED
  BY <1>1, <1>2, <1>4, <1>5, <1>6 DEF Book!Hold

\* A settlement is its Pay, a refund its GiveBack, and one that the ledger refuses
\* or has already posted moves nothing.
LEMMA BookSettles ==
    ASSUME TypeOK, NEW l \in Lease, EntryInv(l), latest \in Match,
           NEW seconds \in Nat, Settle(latest, l, seconds), ~Posted("spent", l)
    PROVE  Book!Pay(l)
<1> DEFINE charge == ChargeZc(latest, l, seconds)
<1>1. HeldForLease(l) \in Nat /\ charge \in 0..HeldForLease(l)
  BY ChargeBounds
<1>2. /\ earned' = earned + charge
      /\ spendable' = spendable + (HeldForLease(l) - charge)
  BY DEF Settle
<1>3. Held' = [Held EXCEPT ![l] = 0] /\ Opened' = Opened
  BY SettleMoves, BookEntry
<1>4. Held[l] = HeldForLease(l)
  BY DEF Held
<1> HIDE DEF charge
<1> QED
  BY <1>1, <1>2, <1>3, <1>4 DEF Book!Pay

\* A refund is EscrowBook's return of what is held, or a stutter.
LEMMA BookRefunds ==
    ASSUME TypeOK, NEW l \in Lease, EntryInv(l), Refund(l)
    PROVE  Book!GiveBack(l) \/ UNCHANGED <<spendable, earned, Held, Opened>>
<1>1. CASE Posted("refund", l)
  BY <1>1, BookStutters DEF Refund
<1>2. CASE ~Posted("refund", l)
  <2>1. earned' = earned /\ spendable' = spendable + HeldForLease(l)
    BY <1>2 DEF Refund
  <2>2. Held' = [Held EXCEPT ![l] = 0] /\ Opened' = Opened
    BY RefundMoves, BookEntry
  <2>3. Held[l] = HeldForLease(l)
    BY DEF Held
  <2> QED
    BY <2>1, <2>2, <2>3 DEF Book!GiveBack
<1> QED
  BY <1>1, <1>2

\* Every step of the system is a step of EscrowBook or leaves the book alone.
LEMMA BookStep ==
    ASSUME IInv, [Next]_vars
    PROVE  [Book!Next]_<<spendable, earned, Held, Opened>>
<1>1. ASSUME NEW l \in Lease, LeaseStep(l)
      PROVE  [Book!Next]_<<spendable, earned, Held, Opened>>
  <2>1. CASE HoldEscrow(l)
    BY <1>1, <2>1, BookHolds DEF Book!Next
  <2>2. CASE ClaimAttemptCredit(l)
    <3>1. CASE UNCHANGED moneyVars
      BY <3>1, BookStutters
    <3>2. CASE ~UNCHANGED moneyVars
      <4>1. /\ outcome[l] # "accepted" /\ latest # NoMatch
            /\ \E seconds \in 1..MaxSeconds : Settle(latest, l, seconds)
        BY <2>2, <3>2 DEF ClaimAttemptCredit, CloseOut
      <4>2. PICK seconds \in 1..MaxSeconds : Settle(latest, l, seconds)
        BY <4>1
      <4>3. seconds \in Nat /\ latest \in Match /\ ~Posted("spent", l)
        BY <4>1, BoundsAssumption DEF IInv, TypeOK, OutcomeInv
      <4>4. Book!Pay(l)
        BY <4>2, <4>3, BookSettles DEF IInv
      <4> QED
        BY <1>1, <4>4 DEF Book!Next
    <3> QED
      BY <3>1, <3>2
  <2>3. CASE RecordAttemptFailure(l) \/ ReconcileExpired(l)
    <3>1. UNCHANGED moneyVars \/ Refund(l)
      BY <2>3 DEF RecordAttemptFailure, ReconcileExpired, CloseOut
    <3> QED
      BY <1>1, <3>1, BookStutters, BookRefunds DEF IInv, Book!Next
  <2>4. CASE ~(HoldEscrow(l) \/ ClaimAttemptCredit(l) \/ RecordAttemptFailure(l)
               \/ ReconcileExpired(l))
    <3>1. UNCHANGED moneyVars
      BY <1>1, <2>4 DEF LeaseStep, Claim, RecordAttempt, MatchForClaim, HoldFails,
         ClaimLost, NoteDeadline, DeadlinePasses, LeaseEnds, Complete, Fail,
         RecordContribution, ReportLost
    <3> QED
      BY <3>1, BookStutters
  <2> QED
    BY <2>1, <2>2, <2>3, <2>4
<1>2. ASSUME NEW m \in Match, GrantMatch(m) PROVE UNCHANGED moneyVars
  BY <1>2 DEF GrantMatch
<1>3. CASE UNCHANGED vars
  BY <1>3, BookStutters DEF vars
<1> QED
  BY <1>1, <1>2, <1>3, BookStutters DEF Next

\* The entries of the leases implement EscrowBook: a lease is held for once, and
\* what is held leaves at once, to the buyer or within the hold to the host.
THEOREM ImplementsBook == Spec => KeepsBook
<1>1. Init => Book!Init
  BY DEF Init, Book!Init, Held, Opened, HeldForLease, Posted
<1>2. IInv /\ [Next]_vars => [Book!Next]_<<spendable, earned, Held, Opened>>
  BY BookStep
<1> QED
  BY <1>1, <1>2, InductiveInvariant, PTL DEF Spec, KeepsBook, Book!Spec

(* The books: the balances are what the entries of the leases add up to. *)

\* The escrow account is the total of what the leases hold, the host's account
\* the total of what they were charged.
Totals ==
    /\ escrow = SumOver(Held, Lease)
    /\ earned = SumOver(spent, Lease)

\* A step that moves money moves that of one lease, and moves the accounts by
\* what that lease's entries change by.
MovesAsEntered(l) ==
    /\ \A k \in Lease : k # l => Held'[k] = Held[k] /\ spent'[k] = spent[k]
    /\ escrow' = escrow + (HeldForLease(l)' - HeldForLease(l))
    /\ earned' = earned + (spent'[l] - spent[l])

\* What a lease holds is a natural number in every state the invariant allows.
LEMMA HeldIsNatural ==
    ASSUME IInv
    PROVE  \A l \in Lease : /\ Held[l] = HeldForLease(l) /\ Held[l] \in Nat
                            /\ spent[l] \in Nat
BY DEF IInv, TypeOK, EntryInv, HeldForLease, Held

\* A lease's movement leaves what the others hold, and were charged, alone.
LEMMA OthersKeepTheirs ==
    ASSUME NEW l \in Lease, MovesOnly(l), NEW k \in Lease, k # l
    PROVE  Held'[k] = Held[k] /\ spent'[k] = spent[k]
<1>1. HeldForLease(k)' = HeldForLease(k)
  BY DEF MovesOnly, HeldForLease
<1> QED
  BY <1>1 DEF MovesOnly, Held

\* A hold enters what it takes from the buyer.
LEMMA HoldIsEntered ==
    ASSUME IInv, NEW l \in Lease, HoldEscrow(l)
    PROVE  MovesAsEntered(l)
<1> DEFINE amount == HoldZc(found[l], EstSeconds)
<1>1. /\ HeldForLease(l) = 0 /\ HeldForLease(l)' = amount
      /\ amount \in 0..spendable
  BY HoldEscrowStep
<1>2. /\ hold' = [hold EXCEPT ![l] = amount] /\ escrow' = escrow + amount
      /\ UNCHANGED <<spent, released, refunded, earned>>
  BY DEF HoldEscrow
<1> HIDE DEF amount
<1>3. ASSUME NEW k \in Lease, k # l PROVE Held'[k] = Held[k]
  <2>1. HeldForLease(k)' = HeldForLease(k)
    BY <1>2, <1>3 DEF IInv, TypeOK, HeldForLease
  <2> QED
    BY <2>1 DEF Held
<1>4. amount \in Nat
  BY <1>1 DEF IInv, TypeOK
<1> QED
  BY <1>1, <1>2, <1>3, <1>4 DEF MovesAsEntered, IInv, TypeOK

\* A settlement enters the charge and what it gives back.
LEMMA SettlementIsEntered ==
    ASSUME IInv, NEW l \in Lease, latest \in Match, NEW seconds \in Nat,
           Settle(latest, l, seconds), ~Posted("spent", l)
    PROVE  MovesAsEntered(l)
<1> DEFINE charge == ChargeZc(latest, l, seconds)
<1>1. TypeOK /\ EntryInv(l)
  BY DEF IInv
<1>2. HeldForLease(l) \in Nat /\ charge \in 0..HeldForLease(l)
  BY <1>1, ChargeBounds
<1>3. MovesOnly(l) /\ HeldForLease(l)' = 0
  BY <1>1, SettleMoves
<1>4. /\ spent' = [spent EXCEPT ![l] = charge] /\ earned' = earned + charge
      /\ escrow' = escrow - charge - (HeldForLease(l) - charge)
  BY DEF Settle
<1> HIDE DEF charge
<1>5. spent[l] = 0 /\ spent'[l] = charge
  BY <1>1, <1>4 DEF TypeOK, EntryInv
<1>6. \A k \in Lease : k # l => Held'[k] = Held[k] /\ spent'[k] = spent[k]
  BY <1>3, OthersKeepTheirs
<1>7. escrow' = escrow + (HeldForLease(l)' - HeldForLease(l))
  BY <1>1, <1>2, <1>3, <1>4 DEF TypeOK
<1>8. earned' = earned + (spent'[l] - spent[l])
  BY <1>1, <1>2, <1>4, <1>5 DEF TypeOK
<1> QED
  BY <1>6, <1>7, <1>8 DEF MovesAsEntered

\* A refund enters all that was held, and charges nothing.
LEMMA RefundIsEntered ==
    ASSUME IInv, NEW l \in Lease, Refund(l), ~Posted("refund", l)
    PROVE  MovesAsEntered(l)
<1>1. TypeOK /\ EntryInv(l)
  BY DEF IInv
<1>2. HeldForLease(l) \in Nat
  BY HeldIsNatural
<1>3. MovesOnly(l) /\ HeldForLease(l)' = 0
  BY <1>1, RefundMoves
<1>4. escrow' = escrow - HeldForLease(l) /\ UNCHANGED <<spent, earned>>
  BY DEF Refund
<1>5. \A k \in Lease : k # l => Held'[k] = Held[k] /\ spent'[k] = spent[k]
  BY <1>3, OthersKeepTheirs
<1> QED
  BY <1>1, <1>2, <1>3, <1>4, <1>5 DEF MovesAsEntered, TypeOK

\* Every step enters what it moves, or moves nothing.
LEMMA StepIsEntered ==
    ASSUME IInv, [Next]_vars
    PROVE  UNCHANGED moneyVars \/ \E l \in Lease : MovesAsEntered(l)
<1>1. ASSUME NEW l \in Lease, LeaseStep(l)
      PROVE  UNCHANGED moneyVars \/ MovesAsEntered(l)
  <2>1. CASE HoldEscrow(l)
    BY <2>1, HoldIsEntered
  <2>2. CASE ClaimAttemptCredit(l)
    <3>1. CASE ~UNCHANGED moneyVars
      <4>1. /\ outcome[l] # "accepted" /\ latest # NoMatch
            /\ \E seconds \in 1..MaxSeconds : Settle(latest, l, seconds)
        BY <2>2, <3>1 DEF ClaimAttemptCredit, CloseOut
      <4>2. PICK seconds \in 1..MaxSeconds : Settle(latest, l, seconds)
        BY <4>1
      <4>3. seconds \in Nat /\ latest \in Match /\ ~Posted("spent", l)
        BY <4>1, BoundsAssumption DEF IInv, TypeOK, OutcomeInv
      <4> QED
        BY <4>2, <4>3, SettlementIsEntered
    <3> QED
      BY <3>1
  <2>3. CASE RecordAttemptFailure(l) \/ ReconcileExpired(l)
    <3>1. UNCHANGED moneyVars \/ Refund(l)
      BY <2>3 DEF RecordAttemptFailure, ReconcileExpired, CloseOut
    <3>2. CASE Posted("refund", l)
      BY <3>1, <3>2 DEF Refund
    <3>3. CASE ~Posted("refund", l)
      BY <3>1, <3>3, RefundIsEntered
    <3> QED
      BY <3>2, <3>3
  <2>4. CASE ~(HoldEscrow(l) \/ ClaimAttemptCredit(l) \/ RecordAttemptFailure(l)
               \/ ReconcileExpired(l))
    BY <1>1, <2>4 DEF LeaseStep, Claim, RecordAttempt, MatchForClaim, HoldFails,
       ClaimLost, NoteDeadline, DeadlinePasses, LeaseEnds, Complete, Fail,
       RecordContribution, ReportLost
  <2> QED
    BY <2>1, <2>2, <2>3, <2>4
<1>2. ASSUME NEW m \in Match, GrantMatch(m) PROVE UNCHANGED moneyVars
  BY <1>2 DEF GrantMatch
<1>3. CASE UNCHANGED vars
  BY <1>3 DEF vars
<1> QED
  BY <1>1, <1>2, <1>3 DEF Next

\* At first nothing is held and nothing was charged.
LEMMA TotalsAtFirst == Init => Totals
<1> SUFFICES ASSUME Init PROVE Totals
  OBVIOUS
<1>1. \A l \in Lease : Held[l] = 0 /\ spent[l] = 0
  BY DEF Init, Held, HeldForLease
<1>2. \A x \in Lease : Held[x] \in {0} /\ spent[x] \in {0}
  BY <1>1
<1>3. SumOver(Held, Lease) \in {0} /\ SumOver(spent, Lease) \in {0}
  <2>1. 0 \in {0} /\ \A a, b \in {0} : a + b \in {0}
    OBVIOUS
  <2> QED
    BY <1>2, <2>1, LeaseAssumption, TotalIn
<1> QED
  BY <1>3 DEF Init, Totals

\* The totals follow the accounts, one lease at a time.
LEMMA TotalsStep == IInv /\ Totals /\ [Next]_vars => Totals'
<1> SUFFICES ASSUME IInv, Totals, [Next]_vars PROVE Totals'
  OBVIOUS
<1>1. CASE UNCHANGED moneyVars
  BY <1>1, BookStutters DEF Totals
<1>2. ASSUME NEW l \in Lease, MovesAsEntered(l) PROVE Totals'
  <2>1. IInv'
    BY NextInv
  <2>2. \A k \in Lease : /\ Held[k] \in Int /\ spent[k] \in Int
                         /\ Held[k] = HeldForLease(k)
    BY HeldIsNatural
  <2>3. \A k \in Lease : Held'[k] \in Int /\ spent'[k] \in Int
    BY <2>1 DEF IInv, TypeOK, EntryInv, HeldForLease, Held
  <2>4. Held'[l] = HeldForLease(l)'
    BY DEF Held
  <2>5. \A k \in Lease : k # l => Held'[k] = Held[k] /\ spent'[k] = spent[k]
    BY <1>2 DEF MovesAsEntered
  <2>6. SumOver(Held', Lease) = SumOver(Held, Lease) + Held'[l] - Held[l]
    BY <2>2, <2>3, <2>5, LeaseAssumption, TotalUpdate
  <2>7. SumOver(spent', Lease) = SumOver(spent, Lease) + spent'[l] - spent[l]
    BY <2>2, <2>3, <2>5, LeaseAssumption, TotalUpdate
  <2>8. escrow \in Int /\ earned \in Int
    BY DEF IInv, TypeOK
  <2>9. escrow' = SumOver(Held', Lease)
    BY <1>2, <2>2, <2>3, <2>4, <2>6, <2>8 DEF MovesAsEntered, Totals
  <2>10. earned' = SumOver(spent', Lease)
    BY <1>2, <2>2, <2>3, <2>7, <2>8 DEF MovesAsEntered, Totals
  <2> QED
    BY <2>9, <2>10 DEF Totals
<1> QED
  BY <1>1, <1>2, StepIsEntered

\* The sum over the leases, as the property writes it, is that total.
LEMMA HeldAddsUp == MapThenSumSet(HeldForLease, Lease) = SumOver(Held, Lease)
<1> DEFINE one(s) == CHOOSE x \in s : TRUE
           it(h)  == h = [s \in SUBSET Lease |->
                            IF s = {} THEN 0
                            ELSE HeldForLease(one(s)) + h[s \ {one(s)}]]
<1>1. MapThenSumSet(HeldForLease, Lease) = (CHOOSE h : it(h))[Lease]
  BY DEF MapThenSumSet, MapThenFoldSet
<1>2. ASSUME NEW h PROVE it(h) <=> Adds(Held, Lease, h)
  <2>1. \A s \in SUBSET Lease : s # {} => Held[one(s)] = HeldForLease(one(s))
    BY PickIn DEF Pick, Held
  <2>2. [s \in SUBSET Lease |-> IF s = {} THEN 0
                                ELSE HeldForLease(one(s)) + h[s \ {one(s)}]]
          = [s \in SUBSET Lease |-> IF s = {} THEN 0
                                    ELSE Held[one(s)] + h[s \ {one(s)}]]
    BY <2>1
  <2> QED
    BY <2>2 DEF Adds, Pick
<1> HIDE DEF it
<1>3. it(CHOOSE h : it(h))
  BY <1>2, LeaseAssumption, AddsExist
<1>4. SumOver(Held, Lease) = (CHOOSE h : it(h))[Lease]
  <2>1. Lease \in SUBSET Lease
    OBVIOUS
  <2> QED
    BY <1>2, <1>3, <2>1, LeaseAssumption, TotalAdds
<1> QED
  BY <1>1, <1>4

\* verify_ledger finds nothing to report: the accounts add up to what was granted,
\* the escrow account to what the leases hold, which is never less than nothing,
\* and the host's to what the settlements charged.
THEOREM TheBooksBalance == Spec => []BooksBalance
<1>1. Init => Totals
  BY TotalsAtFirst
<1>2. IInv /\ Totals /\ [Next]_vars => Totals'
  BY TotalsStep
<1>3. Spec => []Totals
  BY <1>1, <1>2, InductiveInvariant, PTL DEF Spec
<1>4. IInv /\ Totals => BooksBalance
  <2> SUFFICES ASSUME IInv, Totals PROVE BooksBalance
    OBVIOUS
  <2>1. SumOver(Held, Lease) \in Nat
    BY HeldIsNatural, LeaseAssumption, TotalBounds
  <2>2. earned = MapThenSumSet(LAMBDA l : spent[l], Lease)
    BY SumIsTotal DEF Totals
  <2> QED
    BY <2>1, <2>2, HeldAddsUp DEF IInv, Totals, BooksBalance
<1> QED
  BY <1>3, <1>4, InductiveInvariant, PTL

=============================================================================

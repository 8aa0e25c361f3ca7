---------------------------- MODULE CreditLedger ----------------------------
(***************************************************************************)
(* Where credits come from (marketplace.py): the starting grant, given by  *)
(* reading one's balance for the first time, and credit requests decided   *)
(* by administrators.  Reading the balance is several statements of their  *)
(* own, the last of which is the posting; a decision is one transaction    *)
(* under the request's row lock, that posts within it.                     *)
(***************************************************************************)
EXTENDS Deployment, Integers, Sequences, FiniteSetsExt

CONSTANTS
  StartingGrant,
  Eligible,         \* accounts with profiles.starter_grant_eligible
  Amounts,          \* what an administrator may approve
  Asks              \* bound: requests of one account
ASSUME LedgerAssumption ==
  StartingGrant \in Nat \ {0} /\ Eligible \subseteq User /\ Amounts \subseteq Nat \ {0} /\ Asks \in Nat

VARIABLES
  balance,      \* credit_accounts, spendable; NoAccount before ensure_accounts
  entry,        \* credit_entries: account, reason, reference and amount
  asked,        \* credit_requests of an account, in order: their status
  teller        \* of each process: a balance being read for the first time
ledgerVars == <<balance, entry, asked, teller>>

NoAccount == -1
IdleTeller == [at |-> "idle", user |-> Nobody]

LedgerInit ==
  /\ balance = [u \in User |-> NoAccount] /\ entry = {}
  /\ asked = [u \in User |-> <<>>]
  /\ teller = [p \in Process |-> IdleTeller]

TellerGoto(p, where) == teller' = [teller EXCEPT ![p].at = where]
Opened(u) == IF balance[u] = NoAccount THEN 0 ELSE balance[u]

\* Mutant: the balance moves although the entry was there.
PostAgain(u, reason, ref, zc) ==
  /\ entry' = entry \cup {[user |-> u, reason |-> reason, ref |-> ref, zc |-> zc]}
  /\ balance' = [balance EXCEPT ![u] = Opened(u) + zc]

\* post: under the account's lock, one entry to a reason and a reference; an
\* entry that is there moves nothing.
Written(u, reason, ref) ==
  \E e \in entry : e.user = u /\ e.reason = reason /\ e.ref = ref
Post(u, reason, ref, zc) ==
  IF Written(u, reason, ref)
  THEN UNCHANGED <<balance, entry>>
  ELSE /\ entry' = entry \cup {[user |-> u, reason |-> reason, ref |-> ref, zc |-> zc]}
       /\ balance' = [balance EXCEPT ![u] = Opened(u) + zc]

-----------------------------------------------------------------------------
(* grant_starting_credits, on GET /credits.                                *)
ReadGranted(p, u) ==
  /\ teller[p].at = "idle" /\ u \in Eligible /\ ~Written(u, "grant", 0)
  /\ teller' = [teller EXCEPT ![p] = [at |-> "eligible", user |-> u]]
  /\ UNCHANGED <<balance, entry, asked>>
EnsureAccounts(p) ==
  /\ teller[p].at = "eligible" /\ TellerGoto(p, "ensured")
  /\ balance' = [balance EXCEPT ![teller[p].user] = Opened(teller[p].user)]
  /\ UNCHANGED <<entry, asked>>
GrantStartingCredits(p) ==
  /\ teller[p].at = "ensured" /\ teller' = [teller EXCEPT ![p] = IdleTeller]
  /\ Post(teller[p].user, "grant", 0, StartingGrant)
  /\ UNCHANGED <<asked>>
TellerDies(p) ==
  /\ teller[p].at # "idle" /\ teller' = [teller EXCEPT ![p] = IdleTeller]
  /\ UNCHANGED <<balance, entry, asked>>

-----------------------------------------------------------------------------
Pending(u) == {i \in DOMAIN asked[u] : asked[u][i] = "pending"}

\* One pending request to an account, by a partial unique index.
CreateCreditRequest(u) ==
  /\ Len(asked[u]) < Asks /\ Pending(u) = {}
  /\ asked' = [asked EXCEPT ![u] = Append(@, "pending")]
  /\ UNCHANGED <<balance, entry, teller>>

\* Mutant: the row lock is taken, its status is not looked at.
ApproveDecided(u, i, zc) ==
  /\ Post(u, "adjustment", i, zc)
  /\ asked' = [asked EXCEPT ![u][i] = "approved"]
  /\ UNCHANGED <<teller>>
\* A posting that wrote nothing raises, and the transaction is rolled back.
ApproveCreditRequest(u, i, zc) ==
  /\ i \in Pending(u) /\ ~Written(u, "adjustment", i)
  /\ Post(u, "adjustment", i, zc)
  /\ asked' = [asked EXCEPT ![u][i] = "approved"]
  /\ UNCHANGED <<teller>>
DeclineCreditRequest(u, i) ==
  /\ i \in Pending(u)
  /\ asked' = [asked EXCEPT ![u][i] = "declined"]
  /\ UNCHANGED <<balance, entry, teller>>

LedgerNext ==
  \/ \E p \in Process :
       \/ EnsureAccounts(p) \/ GrantStartingCredits(p) \/ TellerDies(p)
       \/ \E u \in User : ReadGranted(p, u)
  \/ \E u \in User :
       \/ CreateCreditRequest(u)
       \/ \E i \in DOMAIN asked[u] :
            \/ DeclineCreditRequest(u, i)
            \/ \E zc \in Amounts : ApproveCreditRequest(u, i, zc)

LedgerSpec == LedgerInit /\ [][LedgerNext]_ledgerVars

LedgerTypeOK ==
  /\ balance \in [User -> Nat \cup {NoAccount}]
  /\ \A u \in User : \A i \in DOMAIN asked[u] :
       asked[u][i] \in {"pending", "approved", "declined"}
  /\ \A e \in entry : e.user \in User /\ e.reason \in {"grant", "adjustment"}
  /\ \A p \in Process : teller[p].at \in {"idle", "eligible", "ensured"}

-----------------------------------------------------------------------------
\* What verify_ledger looks for, and more: a balance is what its entries come
\* to, the starting grant is minted once, to accounts that are eligible, however
\* many first reads overlap, and an approved request, and no other, has
\* been adjusted, once.
CreditsAreMintedOnce ==
  \A u \in User :
    LET own == {e \in entry : e.user = u}
    IN /\ Opened(u) = MapThenSumSet(LAMBDA e : e.zc, own)
       /\ \A e \in own : e.reason = "grant" => u \in Eligible /\ e.zc = StartingGrant
       /\ {e.ref : e \in {d \in own : d.reason = "adjustment"}}
            = {i \in DOMAIN asked[u] : asked[u][i] = "approved"}
       /\ \A e, d \in own : e.reason = d.reason /\ e.ref = d.ref => e = d
=============================================================================

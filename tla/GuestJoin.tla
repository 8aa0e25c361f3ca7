----------------------------- MODULE GuestJoin -----------------------------
(***************************************************************************)
(* A stranger's machine joins the public demo (public_demo_join in app.py, *)
(* demo.py): it is enrolled for the demo's owner and bound to a pool that  *)
(* the first join makes, and a run of the guests is sent to that pool.     *)
(* Every await of a handler is a place where another handler may move.     *)
(***************************************************************************)
EXTENDS Deployment, Naturals, Sequences

CONSTANTS
  Guest             \* machines that ask to join

VARIABLES
  joiner,           \* where each join is, the owner and the pool it read
  guestPools,       \* the demo-guests pools in the order of their creation
  joined,           \* the pool each guest is bound to, or 0
  demoOwner         \* the admitted account of the earliest date: 2, later 1
guestVars == <<joiner, guestPools, joined, demoOwner>>

JoinerIdle == [at |-> "idle", owner |-> 0, pool |-> 0, seen |-> 0]
GuestInit ==
  /\ joiner = [p \in Process |-> JoinerIdle]
  /\ guestPools = <<>> /\ joined = [g \in Guest |-> 0] /\ demoOwner = 2

\* guest_pool_id: the oldest pool of the name the account owns, or 0.
IsGuestPool(k, account) ==
  IF k = 0 THEN \A i \in DOMAIN guestPools : guestPools[i].owner # account
  ELSE /\ guestPools[k].owner = account
       /\ \A i \in 1..(k - 1) : guestPools[i].owner # account

\* ensure_guest_pool looks the pool up and, when there is none, creates it.
Looked(at, k) == [at |-> at, owner |-> demoOwner, pool |-> k, seen |-> Len(guestPools)]
LookForNoPool(p) ==
  /\ joiner[p].at = "idle"
  /\ joiner' = [joiner EXCEPT ![p] = Looked("create", 0)]
  /\ UNCHANGED <<guestPools, joined, demoOwner>>
LookForPool(p) ==
  /\ joiner[p].at = "idle" /\ \E g \in Guest : joined[g] = 0
  /\ \E k \in 0..Len(guestPools) :
       /\ IsGuestPool(k, demoOwner)
       /\ joiner' = [joiner EXCEPT ![p] = Looked(IF k = 0 THEN "create" ELSE "bind", k)]
  /\ UNCHANGED <<guestPools, joined, demoOwner>>
\* The table of pools has no constraint that the second of two creations at
\* once could fail on, so neither reads again.
EnsureGuestPool(p) ==
  /\ joiner[p].at = "create"
  /\ guestPools' = Append(guestPools, [owner |-> joiner[p].owner, seen |-> joiner[p].seen])
  /\ joiner' = [joiner EXCEPT ![p] =
                  [at |-> "bind", owner |-> @.owner, pool |-> Len(guestPools'), seen |-> @.seen]]
  /\ UNCHANGED <<joined, demoOwner>>
\* One transaction approves the code and binds the machine to the pool; a code
\* that is unknown, expired or used, or a failure, undoes all of it.
JoinPool(p, g) ==
  /\ joiner[p].at = "bind" /\ joined[g] = 0
  /\ joined' = [joined EXCEPT ![g] = joiner[p].pool]
  /\ joiner' = [joiner EXCEPT ![p] = JoinerIdle]
  /\ UNCHANGED <<guestPools, demoOwner>>
JoinRefused(p) ==
  /\ joiner[p].at # "idle" /\ joiner' = [joiner EXCEPT ![p] = JoinerIdle]
  /\ UNCHANGED <<guestPools, joined, demoOwner>>
\* An account that signed up before the demo's owner is admitted.
EarlierAccountAdmitted ==
  /\ demoOwner = 2 /\ demoOwner' = 1 /\ UNCHANGED <<joiner, guestPools, joined>>

GuestNext ==
  \/ \E p \in Process : LookForPool(p) \/ EnsureGuestPool(p) \/ JoinRefused(p)
  \/ \E p \in Process, g \in Guest : JoinPool(p, g)
  \/ EarlierAccountAdmitted

GuestTypeOK ==
  /\ \A p \in Process : joiner[p].at \in {"idle", "create", "bind"}
  /\ joined \in [Guest -> 0..Len(guestPools)] /\ demoOwner \in {1, 2}

-----------------------------------------------------------------------------
(* Correctness.                                                            *)

\* The machines that joined are those a run of the guests may go to: a guest
\* is in another pool than the first only if the join that made that pool
\* looked before the first was there.
JoinsConverge ==
  \A g \in Guest : joined[g] # 0 =>
    LET made == guestPools[joined[g]] IN
    \A k \in DOMAIN guestPools :
      IsGuestPool(k, made.owner) => joined[g] = k \/ made.seen < k
=============================================================================

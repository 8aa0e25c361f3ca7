------------------------------ MODULE Matching ------------------------------
(***************************************************************************)
(* Listings, bids and matches (routing.py, marketplace.py).  A submitted   *)
(* job is planned against the open book before its transaction, which      *)
(* posts one bid per class visited and grants the plan; a new listing is   *)
(* offered, in a transaction of its own, to every bid of its class that    *)
(* still waits.  An offer is a listing with a record its host may have: of *)
(* a listing, which a host makes once, one offer is in the book at a time, *)
(* and another takes its place when the host's acceptance rate, its median *)
(* seconds or its workspaces, which each plan reads anew, have changed.    *)
(* No route cancels a bid, pauses a listing or expires a match: a bid is   *)
(* filled when its matches cover what it wants.                            *)
(***************************************************************************)
EXTENDS Deployment, Ranking, Integers, Sequences, SequencesExt, FiniteSetsExt

CONSTANTS
  Offers,          \* sequence of [id, listing, class, ask, tasks, rate, seconds, workspace]
  Jobs,            \* sequence of [cap, tasks, objective, accept: classes in order]
  Flaky            \* bound: the offers whose machine may leave and come back,
                   \* and whose host may come to have another record

Offer == DOMAIN Offers
Job == DOMAIN Jobs
Class == {Offers[i].class : i \in Offer}

ASSUME MatchAssumption ==
  \A j \in Job : /\ j \in Nat \ {0} /\ Jobs[j].cap \in Nat /\ Jobs[j].tasks \in Nat \ {0}
                 /\ Jobs[j].accept \in Seq(Class) /\ IsInjective(Jobs[j].accept)
ASSUME OfferAssumption ==
  /\ IsFiniteSet(Offer)
  /\ \A i \in Offer : /\ i \in Nat \ {0} /\ Offers[i].id = i
                     /\ {Offers[i].ask, Offers[i].seconds, Offers[i].tasks} \subseteq Nat
                     /\ Offers[i].rate \in Nat \cup {None} /\ Offers[i].workspace \in BOOLEAN

\* Offers of one listing differ in their host's record alone.
Same(i, k) == Offers[i].listing = Offers[k].listing
ASSUME ListingAssumption ==
  \A i, k \in Offer : Same(i, k) =>
    /\ Offers[i].class = Offers[k].class
    /\ Offers[i].ask = Offers[k].ask /\ Offers[i].tasks = Offers[k].tasks

VARIABLES
  listing,     \* of each offer: "none", "open", "away" (open, but its machine
               \* is not active) or "withdrawn"; of a listing's, one is not "none"
  wanted,      \* bids: tasks_wanted of a job's bid in a class, 0 without one
  entitled,    \* matches: tasks_assigned to each offer under each bid
  router,      \* of each process: the handler it runs, and what it has granted
               \* and not committed
  unannounced, \* history: offers that came up where no plan or refill looked,
               \* by a change of their host's record too
  crossed      \* history: jobs with two classes refilled at the same time
matchVars == <<listing, wanted, entitled, router, unannounced, crossed>>

NoFills == [i \in Offer |-> 0]
NoBids == [c \in Class |-> [wanted |-> 0, fills |-> NoFills]]
IdleRouter == [at |-> "idle", job |-> 0, offer |-> 0, seen |-> {}, plan |-> NoBids,
               queue |-> {}, granted |-> [j \in Job |-> NoFills]]

MatchInit ==
  /\ listing = [i \in Offer |-> "none"]
  /\ wanted = [j \in Job |-> [c \in Class |-> 0]]
  /\ entitled = [j \in Job |-> [c \in Class |-> NoFills]]
  /\ router = [p \in Process |-> IdleRouter]
  /\ unannounced = {} /\ crossed = {}

-----------------------------------------------------------------------------
Lower(a, b) == IF a < b THEN a ELSE b
UnprovenTaskBudget(n) == IF n = 0 THEN 0 ELSE Max({1, n \div 4})

OpenAsks(c) == {i \in Offer : listing[i] = "open" /\ Offers[i].class = c}

\* match_bid: down the ranking, as many tasks of each ask as it, the demand and
\* the newcomers' allowance leave room for.
Newcomer(o) == o.rate = None
Affordable(j, o) == Priced(o) /\ ~Under(<<Jobs[j].cap, 1>>, EffectivePrice(o))
Room(acc, o) ==
  Lower(Lower(acc.left, o.tasks), IF Newcomer(o) THEN acc.allowance ELSE acc.left)
Granted(acc, o, take) ==
  [left |-> acc.left - take, fills |-> [acc.fills EXCEPT ![o.id] = take],
   allowance |-> IF Newcomer(o) THEN acc.allowance - take ELSE acc.allowance]
DownTheRanking(j, want, book, allowance) ==
  LET Take(o, acc) == Granted(acc, o, IF Affordable(j, o) THEN Room(acc, o) ELSE 0)
  IN MapThenFoldSet(Take, [left |-> want, fills |-> NoFills, allowance |-> allowance],
       LAMBDA o : o, LAMBDA asks : RankedLast(Jobs[j].objective, book, asks),
       {o \in book : ~o.workspace})
MatchBid(j, want, asks, allowance) ==
  DownTheRanking(j, want, {Offers[i] : i \in asks}, allowance)

\* plan_pool_routing: class after class, each asked for what the ones before it
\* left, out of one allowance; none is asked once nothing is left.
PlanPoolRouting(j) ==
  LET Asked(acc, c, one) ==
        [left |-> one.left, allowance |-> one.allowance,
         plan |-> [acc.plan EXCEPT ![c] = [wanted |-> acc.left, fills |-> one.fills]]]
      Visit(acc, c) ==
        IF acc.left = 0 THEN acc
        ELSE Asked(acc, c, MatchBid(j, acc.left, OpenAsks(c), acc.allowance))
  IN FoldLeft(Visit, [left |-> Jobs[j].tasks, plan |-> NoBids,
                      allowance |-> UnprovenTaskBudget(Jobs[j].tasks)],
              Jobs[j].accept).plan

\* A match keeps whether its host was unproven (unproven_host).
Unproven == {i \in Offer : Offers[i].rate = None}
UnprovenSpent(j, bids) ==
  MapThenSumSet(LAMBDA c : SumFunctionOnSet(bids[c], Unproven), Class)

\* The listings under these matches, whatever their hosts' records were then.
Held(fills) == {i \in Offer : \E k \in Offer : Same(i, k) /\ fills[k] > 0}

\* Mutants: what the bid wanted at first; a fresh allowance.
RefillWhole(j, c, bids, asks) ==
  LET spent == UnprovenSpent(j, bids)
      budget == UnprovenTaskBudget(Max({wanted[j][d] : d \in Class}))
  IN MatchBid(j, wanted[j][c], asks \ Held(bids[c]),
              IF spent < budget THEN budget - spent ELSE 0).fills
RefillAfresh(j, c, bids, asks) ==
  MatchBid(j, wanted[j][c] - SumFunction(bids[c]),
           asks \ Held(bids[c]),
           UnprovenTaskBudget(wanted[j][c] - SumFunction(bids[c]))).fills

\* What a refill plans for a bid, from the matches its transaction sees.
RefillPlan(j, c, bids, asks) ==
  LET spent == UnprovenSpent(j, bids)
      budget == UnprovenTaskBudget(Max({wanted[j][d] : d \in Class}))
  IN MatchBid(j, wanted[j][c] - SumFunction(bids[c]),
              asks \ Held(bids[c]),
              IF spent < budget THEN budget - spent ELSE 0).fills

-----------------------------------------------------------------------------
(* route_submitted_job, once the coordinator has the job.                  *)
Plan(p, j) ==
  /\ router[p].at = "idle"
  /\ \A c \in Class : wanted[j][c] = 0
  /\ \A q \in Process : router[q].job # j
  /\ router' = [router EXCEPT ![p] =
       [IdleRouter EXCEPT !.at = "planned", !.job = j, !.plan = PlanPoolRouting(j),
          !.seen = {i \in Offer : listing[i] = "open"}]]
  /\ UNCHANGED <<listing, wanted, entitled, unannounced, crossed>>

\* One transaction: the bids and their matches, as planned.
PostBids(p) ==
  LET r == router[p]
  IN /\ r.at = "planned"
     /\ wanted' = [wanted EXCEPT ![r.job] = [c \in Class |-> r.plan[c].wanted]]
     /\ entitled' = [entitled EXCEPT ![r.job] = [c \in Class |-> r.plan[c].fills]]
     /\ unannounced' = unannounced \cup
          ({i \in Offer : listing[i] = "open"} \ r.seen)
     /\ router' = [router EXCEPT ![p] = IdleRouter]
     /\ UNCHANGED <<listing, crossed>>

-----------------------------------------------------------------------------
(* create_market_listing: the listing commits, then refill_open_bids runs. *)
CreateListing(p, i) ==
  /\ router[p].at = "idle" /\ \A k \in Offer : Same(i, k) => listing[k] = "none"
  /\ listing' = [listing EXCEPT ![i] = "open"]
  /\ router' = [router EXCEPT ![p] =
                  [IdleRouter EXCEPT !.at = "listed", !.offer = i]]
  /\ UNCHANGED <<wanted, entitled, unannounced, crossed>>

RefillClass(p) == Offers[router[p].offer].class
Waits(j, c) == wanted[j][c] > SumFunction(entitled[j][c])

\* Mutant: a partly filled bid is not open.
BidsUnserved(c) == {j \in Job : Waits(j, c) /\ entitled[j][c] = NoFills}

\* open_bids, to be taken dearest first.
OpenBids(c) == {j \in Job : Waits(j, c)}
Dearer(j, k) == Jobs[j].cap > Jobs[k].cap \/ (Jobs[j].cap = Jobs[k].cap /\ j < k)

StartRefill(p) ==
  /\ router[p].at = "listed"
  /\ router' = [router EXCEPT ![p].at = "refilling",
                              ![p].queue = OpenBids(RefillClass(p))]
  /\ UNCHANGED <<listing, wanted, entitled, unannounced, crossed>>

\* Mutant: nobody waits for the row.
NotLocked(j, c) == {}
\* lock_bid: the row is another transaction's until that one ends.
LockedBy(j, c) ==
  {q \in Process : /\ router[q].at = "refilling"
                   /\ RefillClass(q) = c
                   /\ router[q].granted[j] # NoFills}

\* One bid of the walk: locked, looked at again, planned and granted.  The lock
\* matters while something has been granted under it.
RefillBid(p, j) ==
  LET c == RefillClass(p)
  IN /\ router[p].at = "refilling" /\ j \in router[p].queue
     /\ \A k \in router[p].queue \ {j} : Dearer(j, k)
     /\ LockedBy(j, c) = {}
     /\ router' = [router EXCEPT
          ![p].queue = @ \ {j},
          ![p].granted[j] = IF Waits(j, c)
                            THEN RefillPlan(j, c, entitled[j], OpenAsks(c)) ELSE @]
     /\ crossed' = IF \E q \in Process \ {p} : router[q].granted[j] # NoFills
                   THEN crossed \cup {j} ELSE crossed
     /\ UNCHANGED <<listing, wanted, entitled, unannounced>>

CommitRefill(p) ==
  LET c == RefillClass(p)
  IN /\ router[p].at = "refilling" /\ router[p].queue = {}
     /\ entitled' = [j \in Job |-> [entitled[j] EXCEPT ![c] =
                       [i \in Offer |-> @[i] + router[p].granted[j][i]]]]
     /\ router' = [router EXCEPT ![p] = IdleRouter]
     /\ UNCHANGED <<listing, wanted, unannounced, crossed>>

\* The refill raises and is rolled back whole, or the process dies: the listing
\* stands.  A submit that fails leaves no bid.
RouterFails(p) ==
  /\ router[p].at # "idle"
  /\ router' = [router EXCEPT ![p] = IdleRouter]
  /\ unannounced' = unannounced \cup ({router[p].offer} \ {0})
  /\ UNCHANGED <<listing, wanted, entitled, crossed>>

-----------------------------------------------------------------------------
WithdrawListing(i) ==
  /\ listing[i] \in {"open", "away"}
  /\ listing' = [listing EXCEPT ![i] = "withdrawn"]
  /\ UNCHANGED <<wanted, entitled, router, unannounced, crossed>>
\* Its machine is revoked; enrolled again, the listing is back in the book
\* without being announced.
MachineLeaves(i) ==
  /\ i \in Flaky /\ listing[i] = "open"
  /\ listing' = [listing EXCEPT ![i] = "away"]
  /\ UNCHANGED <<wanted, entitled, router, unannounced, crossed>>
MachineReturns(i) ==
  /\ listing[i] = "away"
  /\ listing' = [listing EXCEPT ![i] = "open"]
  /\ unannounced' = unannounced \cup {i}
  /\ UNCHANGED <<wanted, entitled, router, crossed>>

\* What acceptance_rate_rows and workspace_machine_ids_for have on the host is
\* another: the listing is in the book as another offer, which nothing announces.
RecordChanges(i, k) ==
  /\ i \in Flaky /\ listing[i] \in {"open", "away"} /\ k # i /\ Same(i, k)
  /\ listing' = [listing EXCEPT ![i] = "none", ![k] = listing[i]]
  /\ unannounced' = unannounced \cup {k}
  /\ UNCHANGED <<wanted, entitled, router, crossed>>

MatchNext ==
  \/ \E p \in Process :
       \/ PostBids(p) \/ StartRefill(p) \/ CommitRefill(p) \/ RouterFails(p)
       \/ \E j \in Job : Plan(p, j) \/ RefillBid(p, j)
       \/ \E i \in Offer : CreateListing(p, i)
  \/ \E i \in Offer : WithdrawListing(i) \/ MachineLeaves(i) \/ MachineReturns(i)
  \/ \E i, k \in Offer : RecordChanges(i, k)

MatchSpec == MatchInit /\ [][MatchNext]_matchVars

MatchTypeOK ==
  /\ listing \in [Offer -> {"none", "open", "away", "withdrawn"}]
  /\ wanted \in [Job -> [Class -> Nat]]
  /\ entitled \in [Job -> [Class -> [Offer -> Nat]]]
  /\ \A p \in Process : /\ router[p].at \in {"idle", "planned", "listed", "refilling"}
                        /\ router[p].granted \in [Job -> [Offer -> Nat]]
  /\ unannounced \subseteq Offer /\ crossed \subseteq Job

-----------------------------------------------------------------------------
\* A bid is never entitled to more than it wants, nor to more than one listing's
\* room nor to it twice, though any number of refills plan for it at once and
\* the records of the listings' hosts change between them.
NotOverEntitled ==
  \A j \in Job, c \in Class :
    /\ SumFunction(entitled[j][c]) <= wanted[j][c]
    /\ \A i \in Offer : entitled[j][c][i] <= Offers[i].tasks
    /\ \A i, k \in Offer :
         i # k /\ Same(i, k) => entitled[j][c][i] = 0 \/ entitled[j][c][k] = 0

\* A newcomer's share of a job is bounded by the whole job: it is not renewed by
\* a class it spills into nor by a refill.  The siblings' matches are read
\* without their locks, so this is not said of a job whose classes were refilled
\* at the same time.
NewcomersShareOneAllowance ==
  \A j \in Job \ crossed :
    UnprovenSpent(j, entitled[j]) <= UnprovenTaskBudget(Jobs[j].tasks)

\* When no handler runs, nothing in the book could serve a bid that waits: it
\* held a place in the submit's plan or was offered by a refill.  The exceptions
\* are named: an offer listed after the plan and before its bids were posted,
\* one whose refill failed, one whose machine came back, one whose host has
\* another record than when it was looked at (a newcomer that has proved itself,
\* a price that has come within the cap): no refill follows from that.
NoDemandIsMissed ==
  (\A p \in Process : router[p].at = "idle") =>
    \A j \in Job, c \in Class :
      Waits(j, c) => RefillPlan(j, c, entitled[j], OpenAsks(c) \ unannounced) = NoFills

\* The implementation of MatchBook: the offers a bid may be matched to are its
\* class's, on the market, at a price the job pays.
Suits == [j \in Job |-> [c \in Class |->
            {i \in Offer : /\ Offers[i].class = c /\ ~Offers[i].workspace
                           /\ Affordable(j, Offers[i])}]]
Market == INSTANCE MatchBook WITH matches <- entitled,
            Demand <- [j \in Job |-> Jobs[j].tasks], Space <- [i \in Offer |-> Offers[i].tasks]

\* What was matched under a bid stands and is never matched again: handlers of
\* any number of processes, each planning from what it read before, add to it as
\* if one at a time (refill_open_bids, post_bid).
KeepsMatchBook == Market!Spec
=============================================================================

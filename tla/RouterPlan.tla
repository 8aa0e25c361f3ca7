----------------------------- MODULE RouterPlan -----------------------------
(***************************************************************************)
(* What a job would cost and when it would end (router/, _route_plan): the *)
(* machines an account may use are gated, timed from the durations the job *)
(* has recorded, and filled three ways; a canary is offered where the      *)
(* evidence is thin.  Asks and durations are whole numbers, of millicredits*)
(* and milliseconds, and a quoted cost keeps four decimals of a credit.    *)
(***************************************************************************)
EXTENDS Naturals, FiniteSets, FiniteSetsExt, Functions, SequencesExt

CONSTANTS
  Fleets,           \* sets of machines an account may plan work onto
  Durations,        \* of the tasks a job has already been credited for
  TaskCounts, Deadlines, Workloads,
  MaxRented,        \* machines the deployment's ceiling may cover
  MaxRentedSteps,   \* of them a curve shows (_TRADEOFF_MAX_RENTED_STEPS)
  Grain,            \* the smallest cost a quote tells apart (_COST_PLACES)
  MinEvidence,      \* runs a median needs (metrics.MIN_EVIDENCE)
  Nothing           \* no deadline, no estimate, no makespan
\* A job that expands to no task is turned away before it is planned.
ASSUME RouterAssumption ==
  /\ Durations \subseteq Seq(Nat) /\ TaskCounts \subseteq Nat \ {0} /\ MaxRented \in Nat
  /\ MaxRentedSteps \in Nat \ {0} /\ Grain \in Nat \ {0}
  /\ Nothing \notin Nat /\ Deadlines \subseteq Nat \cup {Nothing}
  /\ \A machines \in Fleets :
       /\ IsFiniteSet(machines)
       /\ \A m \in machines :
            /\ m.id \in Nat /\ m.slots \in Nat \ {0} /\ m.ask \in Nat
            /\ m.venue = "workspace" => m.ask = 0    \* its members pay nothing
       /\ \A m, n \in machines : m.id = n.id => m = n

VARIABLES fleet, samples, quote
routerVars == <<fleet, samples, quote>>

Ladder == {"cpu", "gpu"}
NoQuote == [at |-> "none"]

-----------------------------------------------------------------------------
(* workload.py and venues.py: what kind of work it is, and where it fits.  *)

\* signals_from_job_spec: a round that lost its label is known by its inputs.
Federated(job) ==
  job.label = "federated" \/ (job.rows > 0 /\ job.sharded /\ "weights" \in job.inputs)
Sweeps(job) == job.rows > 0 /\ ~Federated(job)
SingleGpu(job) == ~Sweeps(job) /\ ~job.partition /\ job.gpus > 0
Scores(job) == job.reduce = "aggregate" \/ (job.validators /\ ~SingleGpu(job))
Classify(job) ==
  IF Federated(job) THEN "federated"
  ELSE IF Sweeps(job) THEN "hpo"
  ELSE IF Scores(job) THEN "evaluation"
  ELSE IF job.partition /\ job.reduce = "concat" THEN "inference"
  ELSE IF "model" \in job.inputs \/ job.flagged THEN "finetune"
  ELSE IF SingleGpu(job) THEN "training" ELSE "command"

Gpuless == {"fc_sandbox"}
Unobtainable == {"fc_gpu"}
Suited(kind) ==
  {"owned", "runpod", "ecs_gpu", "fc_gpu"} \cup
  (IF kind \in {"hpo", "evaluation", "command"} THEN {"fc_sandbox"} ELSE {})
Usable(kind, gpus) ==
  Suited(kind) \ (Unobtainable \cup (IF gpus > 0 THEN Gpuless ELSE {}))
\* Both a workspace's machines and the market's are their owners' own.
VenueOf(machine) == "owned"
Admitted(machines, kind, gpus) == {m \in machines : VenueOf(m) \in Usable(kind, gpus)}

-----------------------------------------------------------------------------
(* estimator.py: the seconds of a task on a class of machines.             *)

Thin(seen) == Len(seen) < MinEvidence
\* The value that more than k of them do not exceed: in order, the one after k.
Nth(f, k) ==
  Min({f[x] : x \in {y \in DOMAIN f : Cardinality({z \in DOMAIN f : f[z] <= f[y]}) > k}})
Quartile(seen) ==
  LET k == (3 * (Len(seen) - 1)) \div 4
      d == (3 * (Len(seen) - 1)) % 4
  IN IF d = 0 THEN Nth(seen, k) ELSE (Nth(seen, k) * (4 - d) + Nth(seen, k + 1) * d + 2) \div 4
\* The top of the band: the third quartile, or twice the longest of few.
PlanningSeconds(seen) ==
  IF seen = <<>> THEN Nothing ELSE IF Thin(seen) THEN 2 * Max(Range(seen)) ELSE Quartile(seen)
\* peer_task_observations: of this job, and never of another class.
Usables(seen, job, class) == IF job.stored /\ class \in Ladder THEN seen[class] ELSE <<>>
\* A machine's record is its attempts with an outcome: steady, unproven, mixed
\* or shaky, in the order of preference.
ResolvedOf(m) == Len(SelectSeq(m.attempts, LAMBDA outcome : outcome # "open"))
AcceptedOf(m) == Len(SelectSeq(m.attempts, LAMBDA outcome : outcome = "accepted"))
Tier(m) ==
  IF ResolvedOf(m) < MinEvidence THEN 1
  ELSE IF 10 * AcceptedOf(m) >= 9 * ResolvedOf(m) THEN 0
  ELSE IF 4 * AcceptedOf(m) < 3 * ResolvedOf(m) THEN 3 ELSE 2

-----------------------------------------------------------------------------
(* plan.py: the fill.  A member is a machine with its seconds per task and *)
(* its price per task; a workspace's machines are preferred to the         *)
(* market's at one price.                                                  *)

Rank(m) == IF m.venue = "workspace" THEN 0 ELSE 1
Member(m, seconds) ==
  [id |-> m.id, seconds |-> seconds, unit |-> m.ask * seconds, slots |-> m.slots,
   rank |-> Rank(m), tier |-> Tier(m)]
Resolve(machines, job, seen) ==
  {Member(m, PlanningSeconds(Usables(seen, job, m.class))) :
     m \in {c \in machines : Usables(seen, job, c.class) # <<>>}}

\* A slot is a machine and a number. The faster come first, of the equally fast
\* the steadier, and a job needs no more slots than it has tasks.
SlotOrder(x, y) ==
  LET a == x[1]
      b == y[1]
  IN \/ a.seconds < b.seconds
     \/ a.seconds = b.seconds /\ a.tier < b.tier
     \/ a.seconds = b.seconds /\ a.tier = b.tier /\ a.id < b.id
     \/ a = b /\ x[2] < y[2]
Offered(members, tasks) == UNION {{m} \X (1..Min({m.slots, tasks})) : m \in members}
Slots(members, tasks) ==
  LET all == Offered(members, tasks)
  IN {x \in all : Cardinality({y \in all : SlotOrder(y, x)}) < tasks}

\* The next task goes to the slot that would finish it first, until that is
\* too late for every slot.
Finish(filled, s) == (filled.load[s] + 1) * s[1].seconds
NoLater(s, t, a, b) ==
  \/ a < b
  \/ a = b /\ (s[1].id < t[1].id \/ (s[1].id = t[1].id /\ s[2] <= t[2]))
FirstToFree(filled, slots) ==
  CHOOSE s \in slots : \A t \in slots :
    NoLater(s, t, filled.load[s] * s[1].seconds, filled.load[t] * t[1].seconds)
EarliestFinish(filled, slots) ==
  CHOOSE s \in slots : \A t \in slots : NoLater(s, t, Finish(filled, s), Finish(filled, t))
PlaceOn(s, filled, deadline) ==
  IF deadline # Nothing /\ Finish(filled, s) > deadline THEN filled
  ELSE [load |-> [filled.load EXCEPT ![s] = @ + 1],
        count |-> [filled.count EXCEPT ![s[1]] = @ + 1]]
PlaceOnFree(filled, slots, deadline) == PlaceOn(FirstToFree(filled, slots), filled, deadline)
Place(filled, slots, deadline) == PlaceOn(EarliestFinish(filled, slots), filled, deadline)
Empty(slots, members) ==
  [load |-> [s \in slots |-> 0], count |-> [m \in members |-> 0]]
Makespan(load) ==
  LET ends == {load[s] * s[1].seconds : s \in {t \in DOMAIN load : load[t] > 0}}
  IN IF ends = {} THEN Nothing ELSE Max(ends)
FillSlots(slots, members, tasks, deadline) ==
  FoldSet(LAMBDA i, filled : Place(filled, slots, deadline), Empty(slots, members),
          IF slots = {} THEN {} ELSE 1..tasks)
Filled(end) == [count |-> end.count, makespan |-> Makespan(end.load)]
Fill(members, tasks, deadline) ==
  Filled(FillSlots(Slots(members, tasks), members, tasks, deadline))

Placed(count) == SumFunction(count)
Price(count, members) == SumFunction([m \in members |-> m.unit * count[m]])
\* What a cost is once it is rounded, the nearest whole number of grains: two
\* that differ may come out the same.
Rounded(cost) == (2 * cost + Grain) \div (2 * Grain)
Later(a, b) == IF a = Nothing THEN b ELSE IF b = Nothing THEN a ELSE Max({a, b})
Assemble(name, members, filled, tasks) ==
  [name |-> name, count |-> filled.count, makespan |-> filled.makespan,
   cost |-> Rounded(Price(filled.count, members)),
   unplaced |-> tasks - Placed(filled.count)]

Fastest(members, tasks, deadline) ==
  Assemble("fastest", members, Fill(members, tasks, deadline), tasks)

\* The cheapest group first; a group is one price and one rank, and is filled
\* as a whole.
Group(m) == <<m.unit, m.rank>>
GroupOrder(g, h) == g[1] < h[1] \/ (g[1] = h[1] /\ g[2] < h[2])
LastGroup(groups) == CHOOSE g \in groups : \A h \in groups : h = g \/ GroupOrder(h, g)
Taken(taken, filled) ==
  [count |-> [m \in DOMAIN taken.count |->
                IF m \in DOMAIN filled.count THEN filled.count[m] ELSE taken.count[m]],
   makespan |-> Later(taken.makespan, filled.makespan)]
TakeGroups(members, tasks, deadline) ==
  LET Take(g, taken) ==
        Taken(taken, Fill({m \in members : Group(m) = g}, tasks - Placed(taken.count), deadline))
  IN MapThenFoldSet(Take, [count |-> [m \in members |-> 0], makespan |-> Nothing],
                    LAMBDA g : g, LastGroup, {Group(m) : m \in members})
Cheapest(name, members, tasks, deadline) ==
  Assemble(name, members, TakeGroups(members, tasks, deadline), tasks)

-----------------------------------------------------------------------------
(* plan.py: the frontier, the recommendation and the canary.               *)

Finishes(p, q) ==
  q.makespan = Nothing \/ (p.makespan # Nothing /\ p.makespan <= q.makespan)
NoWorse(p, q) == p.unplaced <= q.unplaced /\ p.cost <= q.cost /\ Finishes(p, q)
\* Of two that tie the later is dominated.
DominatedIn(plans, i) ==
  \E j \in DOMAIN plans \ {i} :
     NoWorse(plans[j], plans[i]) /\ (~NoWorse(plans[i], plans[j]) \/ j < i)
Complete(p) == p.unplaced = 0
Named(plans, name) == {i \in DOMAIN plans : plans[i].name = name}
CheapestFirst == <<"cheapest", "balanced", "fastest">>
Preference == <<"balanced", "cheapest", "fastest">>
Starred(plans, i) == Complete(plans[i]) /\ ~DominatedIn(plans, i)
Preferred(plans, wanted) ==
  {k \in DOMAIN Preference : \E i \in Named(plans, Preference[k]) : i \in wanted}
Choice(first) == IF first = {} THEN "none" ELSE Preference[Min(first)]
\* A plan that dominates a complete one is complete, so _recommend never comes
\* to its second loop.
Recommend(plans) ==
  Choice(Preferred(plans, {i \in DOMAIN plans : Starred(plans, i)}))

\* The machine a recommendation leans on most, or the first of the eligible.
Leaned(plan) ==
  CHOOSE m \in DOMAIN plan.count : \A n \in DOMAIN plan.count :
     \/ plan.count[m] > plan.count[n]
     \/ plan.count[m] = plan.count[n] /\ m.id >= n.id
FirstOf(machines) ==
  CHOOSE m \in machines : \A n \in machines :
     \/ Rank(m) < Rank(n)
     \/ Rank(m) = Rank(n) /\ m.id <= n.id
LeanedOn(plans, machines, used) ==
  IF used = {} THEN FirstOf(machines).id
  ELSE Leaned(plans[CHOOSE i \in Named(plans, Choice(used)) : TRUE]).id
CanaryFor(plans, machines, tasks, thin) ==
  IF tasks < 2 \/ machines = {} \/ ~thin THEN Nothing
  ELSE LeanedOn(plans, machines,
         Preferred(plans, {i \in DOMAIN plans : Placed(plans[i].count) > 0}))

Plans(members, tasks, deadline) ==
  IF members = {} THEN <<>>
  ELSE <<Cheapest("cheapest", members, tasks, Nothing)>> \o
       (IF deadline = Nothing THEN <<>>
        ELSE <<Cheapest("balanced", members, tasks, deadline)>>) \o
       <<Fastest(members, tasks, deadline)>>

EligibleFleet(machines) == {m \in machines : m.passes}
\* A duration for the whole job there is only where one class has evidence.
OneDuration(machines, job, seen) ==
  LET classes == {m.class : m \in machines}
  IN IF Cardinality(classes) = 1 THEN Usables(seen, job, CHOOSE c \in classes : TRUE) ELSE <<>>
Shown(job, tasks, deadline, members, survivors, plans, thin) ==
  [at |-> "shown", job |-> job, tasks |-> tasks, deadline |-> deadline, members |-> members,
   plans |-> plans, recommended |-> Recommend(plans), probed |-> FALSE,
   canary |-> CanaryFor(plans, survivors, tasks, thin)]
PlanJob(machines, job, seen, tasks, deadline) ==
  LET survivors == Admitted(EligibleFleet(machines), Classify(job), job.gpus)
      members == Resolve(survivors, job, seen)
  IN Shown(job, tasks, deadline, members, survivors, Plans(members, tasks, deadline),
           Thin(OneDuration(machines, job, seen)))

-----------------------------------------------------------------------------
(* tradeoff.py: what each further rented machine buys.                     *)

OwnedSlots(machines) == SumFunction([m \in machines |-> m.slots])
CanRent(job) == ~job.sandboxed \/ job.waived
\* One machine past the task count, what the deployment may spend, or the size
\* of the answer, which says so where that is what stopped it.
UsefulSlots(tasks, owned) == IF owned >= tasks THEN 1 ELSE tasks + 1 - owned
RentedToTasks(tasks, owned, affordable) ==
  Min({affordable, MaxRentedSteps, IF owned >= tasks THEN 1 ELSE tasks - owned - 1})
RentedSlots(tasks, owned, affordable) ==
  Min({affordable, MaxRentedSteps, UsefulSlots(tasks, owned)})
CutShort(tasks, owned, affordable) ==
  affordable > MaxRentedSteps /\ UsefulSlots(tasks, owned) > MaxRentedSteps
Waves(tasks, slots) == (tasks + slots - 1) \div slots
Advice(tasks, owned, rented) ==
  CASE rented = 0 -> "baseline"
    [] rented > 0 /\ tasks <= 1 -> "no_parallelism"
    [] rented > 0 /\ tasks > 1 /\ owned + rented > tasks -> "beyond_task_count"
    [] OTHER ->
       IF owned + rented > 1 /\ Waves(tasks, owned + rented) >= Waves(tasks, owned + rented - 1)
       THEN "no_marginal_gain" ELSE "helps"
Curve(tasks, owned, rentable) ==
  [rented \in {r \in 0..rentable : owned + r > 0} |-> Advice(tasks, owned, rented)]

-----------------------------------------------------------------------------
(* app.py cost_quote: the same plan by venue and class, at the price of    *)
(* the market instead of the machine's, and with the caller's duration.    *)

\* class_board: the asks open for the class, whoever may run the job.
AsksOf(machines, class) ==
  [m \in {n \in machines : n.venue = "market" /\ n.class = class} |-> m.ask]
MedianAsk(machines, class) ==
  LET asks == AsksOf(machines, class)
      many == Cardinality(DOMAIN asks)
      half == many \div 2
  IN IF many = 0 THEN Nothing
     ELSE IF many % 2 = 1 THEN Nth(asks, half)
     ELSE (Nth(asks, half - 1) + Nth(asks, half)) \div 2
ClassPrice(machines, venue, class) ==
  IF venue = "workspace" THEN 0 ELSE MedianAsk(machines, class)
CostQuoteRow(machines, group, job, seen, tasks, given) ==
  LET price == ClassPrice(machines, group[1], group[2])
      seconds == IF given # Nothing THEN given
                 ELSE PlanningSeconds(Usables(seen, job, group[2]))
  IN [venue |-> group[1], class |-> group[2], seconds |-> seconds,
      cost |-> IF Nothing \in {price, seconds} THEN Nothing
              ELSE Rounded(price * seconds * tasks)]
RowsOf(members, machines, job, seen, tasks, given) ==
  {CostQuoteRow(machines, g, job, seen, tasks, given) :
     g \in {<<m.venue, m.class>> : m \in {c \in members : c.class \in Ladder}}}
RowsOfAll(machines, job, seen, tasks, given) ==
  RowsOf(machines, machines, job, seen, tasks, given)
CostRows(machines, job, seen, tasks, given) ==
  RowsOf(Admitted(EligibleFleet(machines), Classify(job), job.gpus),
         machines, job, seen, tasks, given)
PricedRows(rows) == {row \in rows : row.cost # Nothing}

-----------------------------------------------------------------------------
RouterInit ==
  /\ fleet = {} /\ samples = [class \in Ladder |-> <<>>] /\ quote = NoQuote

\* The page reads what the database holds when it is asked for.
Read(machines, seen) == quote = NoQuote /\ fleet' = machines /\ samples' = seen
PreviewPlans(machines, seen, job, tasks, deadline) ==
  /\ Read(machines, seen) /\ machines # {}
  /\ quote' = PlanJob(machines, job, seen, tasks, deadline)

\* The task a canary names is run and credited, and the page asked for again.
CreditPeer(seconds) ==
  /\ quote.at = "shown" /\ quote.canary # Nothing
  /\ quote.job.stored /\ ~quote.probed
  /\ \E m \in fleet :
       /\ m.id = quote.canary /\ m.class \in Ladder
       /\ samples' = [samples EXCEPT ![m.class] = Append(@, seconds)]
  /\ quote' = [quote EXCEPT !.at = "stale", !.probed = TRUE]
  /\ UNCHANGED fleet
PreviewAgain ==
  /\ quote.at = "stale"
  /\ quote' = [PlanJob(fleet, quote.job, samples, quote.tasks, quote.deadline)
                 EXCEPT !.probed = TRUE]
  /\ UNCHANGED <<fleet, samples>>

CostQuote(machines, seen, job, tasks, given) ==
  /\ Read(machines, seen) /\ machines # {}
  /\ quote' = [at |-> "costed", job |-> job, tasks |-> tasks, given |-> given,
               rows |-> CostRows(machines, job, seen, tasks, given)]

JobTradeoff(machines, job, tasks, affordable) ==
  /\ Read(machines, samples) /\ job.stored
  /\ LET owned == OwnedSlots(EligibleFleet(machines))
         rentable == IF CanRent(job) THEN RentedSlots(tasks, owned, affordable) ELSE 0
     IN quote' = [at |-> "curve", tasks |-> tasks, owned |-> owned, affordable |-> affordable,
                  rents |-> CanRent(job), curve |-> Curve(tasks, owned, rentable),
                  cut |-> CanRent(job) /\ CutShort(tasks, owned, affordable)]

RouterNext ==
  \/ \E machines \in Fleets, seen \in [Ladder -> Durations], job \in Workloads,
        tasks \in TaskCounts, deadline \in Deadlines :
       PreviewPlans(machines, seen, job, tasks, deadline)
  \/ \E seconds \in UNION {Range(d) : d \in Durations} : CreditPeer(seconds)
  \/ PreviewAgain
  \/ \E machines \in Fleets, seen \in [Ladder -> Durations], job \in Workloads,
        tasks \in TaskCounts, given \in Deadlines :
       CostQuote(machines, seen, job, tasks, given)
  \/ \E machines \in Fleets, job \in Workloads, tasks \in TaskCounts,
        affordable \in 0..MaxRented : JobTradeoff(machines, job, tasks, affordable)

RouterSpec == RouterInit /\ [][RouterNext]_routerVars

RouterTypeOK ==
  /\ (fleet = {} \/ fleet \in Fleets) /\ samples \in [Ladder -> Seq(Nat)]
  /\ quote # NoQuote =>
       \/ quote.at \in {"shown", "stale"} /\ quote.recommended \in Range(Preference) \cup {"none"}
       \/ quote.at \in {"costed", "curve"}

-----------------------------------------------------------------------------
(* Every way to share out at most so many tasks.                           *)

FinishTime(count, m) == Waves(count[m], m.slots) * m.seconds
InTime(count, members, deadline) ==
  deadline = Nothing \/ \A m \in members : FinishTime(count, m) <= deadline
Spread(count, members) == Max({FinishTime(count, m) : m \in members})
Shares(members, tasks, deadline) ==
  {count \in [members -> 0..tasks] :
     Placed(count) <= tasks /\ InTime(count, members, deadline)}
Fullest(shares) == LET most == Max({Placed(c) : c \in shares}) IN {c \in shares : Placed(c) = most}

-----------------------------------------------------------------------------
(* Correctness.                                                            *)

\* Nothing beats a plan at what it is named for: of the ways to place as many
\* tasks as the deadline allows none ends before the fastest plan, and none
\* would be quoted at less than the balanced one; no way to place them all
\* would be quoted at less than the cheapest.
Previewed == quote.at \in {"shown", "stale"}
PlansAreOptimal ==
  Previewed =>
    \A i \in DOMAIN quote.plans :
      LET p == quote.plans[i]
          limit == IF p.name = "cheapest" THEN Nothing ELSE quote.deadline
          best == Fullest(Shares(quote.members, quote.tasks, limit))
      IN /\ p.count \in best
         /\ \A c \in best :
              IF p.name # "fastest" THEN p.cost <= Rounded(Price(c, quote.members))
              ELSE p.makespan # Nothing => p.makespan <= Spread(c, quote.members)

\* The fastest plan costs more than the balanced one, but not when rounded: it
\* then takes the balanced one's place on the frontier without taking that of a
\* cheapest one that is late.
AlikeOncePriced(plans, members) ==
  \E i \in Named(plans, "balanced"), j \in Named(plans, "fastest") :
    /\ plans[i].cost = plans[j].cost
    /\ Price(plans[i].count, members) < Price(plans[j].count, members)

\* Where the fleet can make the deadline the recommended plan makes it, unless
\* rounding made two plans cost the same, and a probe of a canary that belongs
\* to a class is enough to have a plan.
RecommendedKeepsDeadline ==
  Previewed =>
    /\ \A i \in Named(quote.plans, quote.recommended) :
         (\E c \in Shares(quote.members, quote.tasks, quote.deadline) : Placed(c) = quote.tasks) =>
         \/ InTime(quote.plans[i].count, quote.members, quote.deadline)
         \/ AlikeOncePriced(quote.plans, quote.members)
    /\ (quote.plans # <<>>) <=> (quote.recommended # "none")
    /\ (quote.probed /\ quote.at = "shown") => quote.plans # <<>>

\* A fleet is said to help exactly where it ends before every smaller one, and
\* one left out that could be paid for and would help a job that may rent is
\* larger than the largest shown, which the answer says is where it was cut.
AdviceIsSound ==
  quote.at = "curve" =>
    LET Ends(r) == Waves(quote.tasks, quote.owned + r)
        shown == DOMAIN quote.curve
        Sooner(r) == \A s \in 0..(r - 1) : quote.owned + s > 0 => Ends(r) < Ends(s)
    IN /\ \A r \in shown \ {0} : quote.tasks > 1 => (quote.curve[r] = "helps" <=> Sooner(r))
       /\ quote.rents =>
            \A r \in 1..quote.affordable \ shown :
              Sooner(r) => quote.cut /\ r > MaxRentedSteps

Matches(rows, plan) ==
  /\ {<<m.venue, m.class>> : m \in {n \in fleet : n.id \in {c.id : c \in plan.members}}} =
       {<<row.venue, row.class>> : row \in {q \in rows : q.seconds # Nothing}}
  /\ (EligibleFleet(fleet) = fleet) =>
       \A row \in PricedRows(rows), i \in Named(plan.plans, "cheapest") :
          plan.plans[i].cost <= row.cost

\* The quote and the plan of one job agree: the venues and classes it times
\* are those some machine of the plan has, and where every open ask is of a
\* machine that may run the job the cheapest plan costs no more than it says.
QuoteMatchesPlan ==
  (quote.at = "costed" /\ quote.given = Nothing) =>
    Matches(quote.rows, PlanJob(fleet, quote.job, samples, quote.tasks, Nothing))

\* The four together: what the pages that price a job show is sound.
QuotesAreSound ==
  PlansAreOptimal /\ RecommendedKeepsDeadline /\ AdviceIsSound /\ QuoteMatchesPlan
=============================================================================

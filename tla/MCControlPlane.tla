--------------------------- MODULE MCControlPlane ---------------------------
(* ControlPlane for TLC: the offers and jobs of Matching.  No component    *)
(* tells one API process, or one job of VenueRouting, from another.        *)
EXTENDS ControlPlane, TLC

\* The host of listing 1 is a newcomer, then proven.
MCOffer(i, l, c, ask, rate, seconds, tasks) ==
  [id |-> i, listing |-> l, class |-> c, ask |-> ask, rate |-> rate,
   seconds |-> seconds, tasks |-> tasks, workspace |-> FALSE]
MCOffers == <<MCOffer(1, 1, "small", 1, None, 0, 2), MCOffer(2, 2, "large", 2, None, 4, 1),
              MCOffer(3, 3, "small", 1, 5, 2, 2), MCOffer(4, 1, "small", 1, 10, 4, 2)>>
MCJobs   == <<[cap |-> 2, tasks |-> 2, objective |-> "balanced",
               accept |-> <<"small", "large">>]>>
MCHost(i, v, c, ask, n, ok, attempts) ==
  [id |-> i, venue |-> v, class |-> c, ask |-> ask, slots |-> n, passes |-> ok,
   attempts |-> attempts]
MCAccepted == "accepted"
MCFailed   == "failed"
MCHosts == {MCHost(1, "workspace", "cpu", 0, 1, TRUE, <<>>),
            MCHost(2, "workspace", "gpu", 0, 1, TRUE, <<MCAccepted, MCAccepted>>),
            MCHost(3, "market", "cpu", 0, 1, TRUE, <<MCFailed, MCFailed>>),
            MCHost(4, "market", "cpu", 1, 2, TRUE, <<MCAccepted, "open", MCAccepted>>),
            MCHost(5, "market", "gpu", 1, 1, TRUE, <<MCFailed, MCAccepted>>),
            MCHost(6, "market", "none", 1, 1, TRUE, <<>>),
            MCHost(7, "market", "gpu", 0, 1, FALSE, <<>>)}
\* One host, two, or three a task can be timed on, one of them host 4.
MCGroups == {{i, j} : i, j \in 1..7} \cup {{i, j, 4} : i, j \in {1, 2, 3, 5}}
MCFleets == {{h \in MCHosts : h.id \in g} : g \in MCGroups}
MCDurations == {<<>>, <<8, 4>>, <<20>>}
MCSpec(rows, gpus, stored) ==
  [label |-> "batch", sharded |-> FALSE, inputs |-> {}, rows |-> rows, partition |-> FALSE,
   reduce |-> "none", validators |-> FALSE, flagged |-> FALSE, gpus |-> gpus,
   stored |-> stored, sandboxed |-> TRUE, waived |-> stored]
MCWorkloads == {MCSpec(4, 0, TRUE), MCSpec(0, 1, FALSE)}
Interchangeable == Permutations(Process) \cup Permutations(Work)
=============================================================================

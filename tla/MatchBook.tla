----------------------------- MODULE MatchBook -----------------------------
(***************************************************************************)
(* What the market promises about bids and matches.  A job's bids are      *)
(* posted once, one to a class, with the matches they begin with; what a   *)
(* bid wants never changes afterwards, and neither does a match once made. *)
(* Matches are added, never more than the bid wants in all, each to an     *)
(* offer that suits the bid and is not matched to it yet, within what that *)
(* offer has space for.                                                    *)
(***************************************************************************)
EXTENDS Integers, Functions

CONSTANTS
  Job, Class, Offer,
  Demand,      \* the tasks of each job
  Space,       \* the tasks each offer takes under one bid
  Suits        \* the offers that each job, in each class, may be matched to

VARIABLES
  wanted,      \* of each job and class: the tasks its bid wants
  matches      \* of each job and class: the tasks matched to each offer

Init ==
  /\ wanted = [j \in Job |-> [c \in Class |-> 0]]
  /\ matches = [j \in Job |-> [c \in Class |-> [i \in Offer |-> 0]]]

\* A match made in this step.
Made(j, c, i) ==
  /\ matches[j][c][i] = 0
  /\ i \in Suits[j][c] /\ matches'[j][c][i] \in 1..Space[i]

\* A bid after this step: what was matched stands, and all of it is wanted.
Grows(j, c) ==
  /\ matches'[j][c] \in [Offer -> Nat]
  /\ \A i \in Offer : matches'[j][c][i] = matches[j][c][i] \/ Made(j, c, i)
  /\ SumFunction(matches'[j][c]) <= wanted'[j][c]

Post(j) ==
  /\ \A c \in Class : /\ wanted[j][c] = 0 /\ wanted'[j][c] \in 0..Demand[j]
                      /\ Grows(j, c)
  /\ \A k \in Job \ {j} : wanted'[k] = wanted[k] /\ matches'[k] = matches[k]

Serve(c) ==
  /\ UNCHANGED wanted
  /\ \A j \in Job : /\ Grows(j, c)
                    /\ \A d \in Class \ {c} : matches'[j][d] = matches[j][d]

\* Each step posts something or matches something.
Next ==
  /\ <<wanted, matches>>' # <<wanted, matches>>
  /\ (\E j \in Job : Post(j)) \/ (\E c \in Class : Serve(c))

Spec == Init /\ [][Next]_<<wanted, matches>>
=============================================================================

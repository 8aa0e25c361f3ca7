----------------------------- MODULE EscrowBook -----------------------------
(***************************************************************************)
(* What the market promises about one buyer's credits.  A lease is held    *)
(* for at most once, out of what the buyer can spend; what is held for it  *)
(* leaves all at once, either back to the buyer or, up to the hold, to the *)
(* host whose work was accepted, and no credit is ever made or lost.       *)
(***************************************************************************)
EXTENDS Naturals

CONSTANTS Lease, Grant

VARIABLES
    free,     \* the buyer's spendable balance
    earned,   \* what the hosts have been paid
    held,     \* what is held for each lease
    opened    \* leases that have been held for

Init ==
    /\ free = Grant /\ earned = 0
    /\ held = [l \in Lease |-> 0]
    /\ opened = {}

Hold(l) ==
    /\ l \notin opened
    /\ opened' = opened \cup {l}
    /\ \E amount \in 0..free :
          /\ free' = free - amount
          /\ held' = [held EXCEPT ![l] = amount]
    /\ UNCHANGED earned

Pay(l) ==
    /\ \E charge \in 0..held[l] :
          /\ earned' = earned + charge
          /\ free' = free + (held[l] - charge)
    /\ held' = [held EXCEPT ![l] = 0]
    /\ UNCHANGED opened

GiveBack(l) ==
    /\ free' = free + held[l]
    /\ held' = [held EXCEPT ![l] = 0]
    /\ UNCHANGED <<earned, opened>>

Next == \E l \in Lease : Hold(l) \/ Pay(l) \/ GiveBack(l)

Spec == Init /\ [][Next]_<<free, earned, held, opened>>
=============================================================================

-------------------------- MODULE MachineLiability --------------------------
(***************************************************************************)
(* What rented capacity promises about money.  A rental is `owed` while    *)
(* the control plane keeps looking at it, and `billing` while a machine    *)
(* made for it may cost something at the venue.  Billing starts only on a  *)
(* rental already owed, and an owed rental is settled only once nothing    *)
(* bills for it any more; being owed again is always allowed.              *)
(***************************************************************************)
CONSTANT Rental

VARIABLES owed, billing

Init == owed = {} /\ billing = {}

Owe(r) ==
    /\ r \notin owed
    /\ owed' = owed \cup {r}
    /\ UNCHANGED billing

StartBilling(r) ==
    /\ r \in owed \ billing
    /\ billing' = billing \cup {r}
    /\ UNCHANGED owed

StopBilling(r) ==
    /\ r \in billing
    /\ billing' = billing \ {r}
    /\ UNCHANGED owed

SettleRental(r) ==
    /\ r \in owed \ billing
    /\ owed' = owed \ {r}
    /\ UNCHANGED billing

Next == \E r \in Rental :
           Owe(r) \/ StartBilling(r) \/ StopBilling(r) \/ SettleRental(r)

Spec == Init /\ [][Next]_<<owed, billing>>
=============================================================================

------------------------ MODULE MCAttemptSettlement ------------------------
(* AttemptSettlement for TLC: two entitlements at different rates. *)
EXTENDS AttemptSettlement

MCRate    == <<2, 3>>
MCOneRate == <<2>>
=============================================================================

----------------------------- MODULE Deployment -----------------------------
(***************************************************************************)
(* What the components around the database have in common: the accounts,   *)
(* and the API processes whose handlers work for them.  A handler does not *)
(* await between its statements, but a redeploy runs two processes at once *)
(* and the loops and background tasks are threads, so two may interleave   *)
(* at every statement.                                                     *)
(***************************************************************************)
CONSTANTS User, Process, Nobody

ASSUME DeploymentAssumption == Nobody \notin User
=============================================================================

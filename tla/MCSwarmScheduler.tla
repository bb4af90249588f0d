--------------------------- MODULE MCSwarmScheduler ---------------------------
(* SwarmScheduler with two run ids, two reservations at a time and a limit *)
(* that changes.                                                           *)
EXTENDS SwarmScheduler
=============================================================================

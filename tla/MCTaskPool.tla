------------------------------ MODULE MCTaskPool ------------------------------
(* TaskPool with one worker and three tasks, one of them with a host.      *)
EXTENDS TaskPool
=============================================================================

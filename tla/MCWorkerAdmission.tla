------------------------- MODULE MCWorkerAdmission -------------------------
(* One operation of a few transactions.                                    *)
EXTENDS WorkerAdmission
=============================================================================

---------------------------- MODULE MCWorkerLoop ----------------------------
(* Small instances of WorkerLoop. *)
EXTENDS WorkerLoop

CONSTANTS t1, t2

MCTenantOrder == <<t1, t2>>

OneTenant == <<t1>>
=============================================================================

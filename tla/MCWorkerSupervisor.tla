------------------------- MODULE MCWorkerSupervisor -------------------------
(***************************************************************************)
(* The instance of WorkerSupervisor for TLC.                               *)
(***************************************************************************)
EXTENDS WorkerSupervisor

CONSTANTS job, management
=============================================================================

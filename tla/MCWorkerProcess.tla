--------------------------- MODULE MCWorkerProcess ---------------------------
(***************************************************************************)
(* The instance of WorkerProcess for TLC.  No symmetry: liveness is checked. *)
(***************************************************************************)
EXTENDS WorkerProcess

CONSTANTS job, management, c1, c2
=============================================================================

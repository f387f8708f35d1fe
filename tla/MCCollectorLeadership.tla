----------------------- MODULE MCCollectorLeadership -----------------------
(***************************************************************************)
(* Instances of CollectorLeadership for TLC.                               *)
(***************************************************************************)
EXTENDS CollectorLeadership

CONSTANTS a, b, c
=============================================================================

--------------------------- MODULE MCQueueNameCache ---------------------------
(***************************************************************************)
(* The instance of QueueNameCache for TLC.  Callers are not symmetric,     *)
(* because a liveness property is checked.                                 *)
(***************************************************************************)
EXTENDS QueueNameCache

CONSTANTS a, b, c, p, q

TwoProcesses == [x \in Callers |-> IF x = c THEN q ELSE p]

ThreeRequests ==
  [x \in Callers |-> CASE x = a -> {"name", "change"}
                       [] x = b -> {"name"}
                       [] x = c -> {"name", "details", "change"}]
=============================================================================

-------------------------- MODULE MCQueueRegistry --------------------------
(***************************************************************************)
(* The instance of QueueRegistry for TLC: two valid names and one of every  *)
(* sort of wrong one, and for each setting, alone, a value on each side of  *)
(* the boundaries.  Values that are stored multiply the states, those that  *)
(* are refused do not.                                                      *)
(***************************************************************************)
EXTENDS QueueRegistry, TLC

CONSTANTS a, b, q1, q2

RequestNames ==
  {<<"endpoint">>, <<"endpoint", "inner", "endpoint">>,
   << >>, <<"inner">>, <<"other">>, <<"inner", "endpoint">>, <<"endpoint", "inner">>,
   <<"endpoint", "other", "endpoint">>,
   <<"endpoint", "endpoint", "endpoint", "endpoint">>}

\* Both sides of the boundaries, and of the SMALLINT's.
Boundaries ==
  [visibility_timeout_seconds |-> {0, 1, 21600, 21601},
   max_delivery_attempts |-> {0, 100, 101, 32768},
   default_message_ttl_seconds |-> {0, 2592000, 2592001}]

RequestChanges ==
  {Nothing} \cup UNION {{[Nothing EXCEPT ![f] = value] : value \in Boundaries[f]} : f \in Fields}

Symmetry == Permutations({a, b}) \cup Permutations({q1, q2})
=============================================================================

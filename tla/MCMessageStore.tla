--------------------------- MODULE MCMessageStore ---------------------------
(***************************************************************************)
(* Instances of MessageStore and StateCollector for TLC.                   *)
(***************************************************************************)
EXTENDS StateCollector, MessageStoreRefinement, TLC

CONSTANTS q1, m1, m2, h1, h2, h3, a, b, w

OneShard == [m \in Messages |-> "s0"]

TwoShards == [m \in Messages |-> IF m = m1 THEN "s0" ELSE "s1"]

\* Messages are told apart by their shard, handles and clients are not.
Symmetry == Permutations(Handles) \cup Permutations(Clients)
=============================================================================

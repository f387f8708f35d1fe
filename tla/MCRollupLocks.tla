--------------------------- MODULE MCRollupLocks ---------------------------
(***************************************************************************)
(* Instances of RollupLocks for TLC.                                       *)
(***************************************************************************)
EXTENDS RollupLocks, TLC

CONSTANTS m1, m2, m3, m4, a, b, c

\* Two messages of one slot and one of another.
ThreeMessages == (m1 :> 1) @@ (m2 :> 1) @@ (m3 :> 2)

\* Two messages of each slot.
FourMessages == (m1 :> 1) @@ (m2 :> 1) @@ (m3 :> 2) @@ (m4 :> 2)

Symmetry3 == Permutations(Callers) \cup Permutations({m1, m2})
Symmetry4 == Permutations(Callers) \cup Permutations({m1, m2}) \cup Permutations({m3, m4})
=============================================================================

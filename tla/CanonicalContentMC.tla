------------------------- MODULE CanonicalContentMC -------------------------
(***************************************************************************)
(* Instances of CanonicalContent for TLC.                                  *)
(***************************************************************************)
EXTENDS CanonicalContent, TLC

CONSTANTS w1, w2, d1, i1, g1, g2, g3

\* A later set may be longer or shorter than the one it replaces.
UnequalLengths == [g \in Generations |-> IF g = g1 THEN 1 ELSE 2]

Alike == Permutations(Workers) \cup Permutations(Generations \ {g1})
=============================================================================

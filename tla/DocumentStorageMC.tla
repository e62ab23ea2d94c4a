------------------------- MODULE DocumentStorageMC -------------------------
(***************************************************************************)
(* Instances of DocumentStorage for TLC.                                   *)
(***************************************************************************)
EXTENDS DocumentStorage, TLC

CONSTANTS r1, r2, r3, d1, d2, d3, k1

\* All documents in one knowledge base, whose directory they share.
AllInOne == [d \in Docs |-> k1]

Alike == Permutations(Requests) \cup Permutations(Docs)
=============================================================================

----------------------------- MODULE Selections -----------------------------
(***************************************************************************)
(* Subsequences, chosen by a set of positions.                             *)
(***************************************************************************)
EXTENDS Integers, Sequences

\* The positions of seq in kept, in order.
Positions(seq, kept) ==
  LET upTo[n \in 0..Len(seq)] ==
        IF n = 0 THEN <<>>
        ELSE upTo[n - 1] \o (IF n \in kept THEN <<n>> ELSE <<>>)
  IN upTo[Len(seq)]

\* What is at the positions in kept.  The set has one element, so that TLC
\* enumerates the positions once.
Select(seq, kept) ==
  CHOOSE s \in {[k \in 1..Len(at) |-> seq[at[k]]] : at \in {Positions(seq, kept)}} : TRUE
=============================================================================

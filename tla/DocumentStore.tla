---------------------------- MODULE DocumentStore ----------------------------
(***************************************************************************)
(* What the two halves of a stored document promise each other, without    *)
(* directories, staging or failures: the bytes are complete before the row *)
(* is there, and are destroyed only when it is gone.                       *)
(***************************************************************************)
CONSTANT Docs

VARIABLES
  rows,    \* documents PostgreSQL knows
  bytes    \* documents whose complete bytes are on disk somewhere

vars == <<rows, bytes>>

Init == rows = {} /\ bytes = {}

Write(d) == d \notin bytes /\ bytes' = bytes \cup {d} /\ UNCHANGED rows

Insert(d) == d \in bytes /\ rows' = rows \cup {d} /\ UNCHANGED bytes

\* A document, or a knowledge base with all its documents.
Delete(D) == rows' = rows \ D /\ UNCHANGED bytes

Destroy(d) == d \notin rows /\ bytes' = bytes \ {d} /\ UNCHANGED rows

Next ==
  \/ \E d \in Docs : Write(d) \/ Insert(d) \/ Destroy(d)
  \/ \E D \in SUBSET Docs : Delete(D)

Spec == Init /\ [][Next]_vars
=============================================================================

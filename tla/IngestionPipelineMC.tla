------------------------ MODULE IngestionPipelineMC ------------------------
(***************************************************************************)
(* Instances of IngestionPipeline for TLC.                                 *)
(***************************************************************************)
EXTENDS IngestionPipeline, TLC

CONSTANTS w1, w2, r1, r2, j1, j2, api, worker, c1, c2, c3, c4

\* One thread in each process.
OneThreadEach == [s \in Sessions |-> s]

\* All worker threads in one process, all API threads in another.
SharedProcesses == [s \in Sessions |-> IF s \in Workers THEN worker ELSE api]

\* Which closed connection is opened next (the CHOOSE of ConnFor) makes no
\* difference: none of them holds a lock.
SessionsAlike == Permutations(Workers) \cup Permutations(Conns)
=============================================================================

------------------------ MODULE MCBatcherRefinement -------------------------
(* An instance of BatcherRefinement for TLC.                               *)
EXTENDS BatcherRefinement, TLC

CONSTANTS a1, a2, o1, o2

=============================================================================

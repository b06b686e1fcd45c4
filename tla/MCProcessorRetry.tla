--------------------------- MODULE MCProcessorRetry ---------------------------
(***************************************************************************)
(* Two workers.  Two attempts and two targets show a worker overtaken in    *)
(* the middle of a target; three attempts and one target let the first      *)
(* fail, the second leave an unknown outcome and the third reconcile it.    *)
(***************************************************************************)
EXTENDS ProcessorRetry, TLC

Symmetry == Permutations(Subject) \cup Permutations(Worker)
=============================================================================

--------------------------- MODULE MCChildClosures ---------------------------
(***************************************************************************)
(* Two subjects and two publishers of the children of one commit.  Three    *)
(* runs make chains of three closures, and let a row land between two that  *)
(* are signed.                                                              *)
(***************************************************************************)
EXTENDS ChildClosures, TLC

Symmetry == Permutations(Subject) \cup Permutations(Publisher)
=============================================================================

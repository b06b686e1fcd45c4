-------------------------- MODULE MCSemanticWorker --------------------------
(***************************************************************************)
(* SemanticWorker with one daemon of semantic workers, all call slots being *)
(* its own; the other attempts only take the lease over.                    *)
(***************************************************************************)
EXTENDS SemanticWorker, TLC

CONSTANTS d1

FirstDaemon == [c \in Calls |-> d1]
=============================================================================

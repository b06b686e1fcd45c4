---------------------------- MODULE MCPublication ----------------------------
(***************************************************************************)
(* Three attempts in three processes, two of which share a catalog and      *)
(* publish the same plan: a retry, or a second executor after a job lease   *)
(* ran out.  The third writes the same repository through another catalog.  *)
(***************************************************************************)
EXTENDS Publication

CONSTANTS a1, a2, a3, p1, p2, p3, c1, c2, x, y

MCAttempt == {a1, a2, a3}
MCProcess == {p1, p2, p3}
MCPlanOf == [a \in MCAttempt |-> IF a = a3 THEN y ELSE x]
MCProcOf == [a \in MCAttempt |-> CASE a = a1 -> p1 [] a = a2 -> p2 [] a = a3 -> p3]
MCCatalogOf == [p \in MCProcess |-> IF p = p3 THEN c2 ELSE c1]

(* For the liveness run: one attempt in each of two processes that share a  *)
(* catalog.                                                                 *)
TwoAttempt == {a1, a2}
TwoProcess == {p1, p2}
TwoPlanOf == [a \in TwoAttempt |-> x]
TwoProcOf == [a \in TwoAttempt |-> IF a = a1 THEN p1 ELSE p2]
TwoCatalogOf == [p \in TwoProcess |-> c1]
=============================================================================

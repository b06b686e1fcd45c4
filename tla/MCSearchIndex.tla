--------------------------- MODULE MCSearchIndex ---------------------------
(***************************************************************************)
(* SearchIndex on a small workspace: two goroutines that ingest, write and *)
(* rebuild, and one that queries.                                          *)
(***************************************************************************)
EXTENDS SearchIndex, TLC

CONSTANT s1

Subjects == [n \in Notes |-> s1]

(* What decides how a run goes on: the lexical latch is only reported, and  *)
(* a rebuild that has ended needs nothing it has read.                      *)
Rest(c) == IF client[c].pc \in {"unlock", "latch"} THEN client[c].pc
           ELSE <<client[c].pc, client[c].root, client[c].scope, client[c].feed,
                  client[c].notes>>
Decisive == <<catalog, gens, process, mu, health, query, [c \in Clients |-> Rest(c)]>>

Symmetric == Permutations(Clients)
=============================================================================

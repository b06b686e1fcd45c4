------------------------- MODULE MCPublicationFence -------------------------
(***************************************************************************)
(* Three attempts at one domain.  With a lease of two ticks and a clock     *)
(* that runs to four, a lease can expire while its holder is between two    *)
(* steps, be taken over, expire again, and be met by a stale renewal.       *)
(***************************************************************************)
EXTENDS PublicationFence, TLC

Symmetry == Permutations(Attempt)
=============================================================================

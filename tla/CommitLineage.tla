---------------------------- MODULE CommitLineage ----------------------------
(***************************************************************************)
(* What signed publication promises to every reader of a repository: a      *)
(* single append-only line of commits, numbered from one, with at most one  *)
(* commit per plan and a fencing token that grows along the line.           *)
(***************************************************************************)
EXTENDS Naturals

CONSTANTS Plan    \* plan digests

VARIABLE line    \* generation -> the plan it commits and its fencing token

Entry == [plan: Plan, fence: Nat \ {0}]

Init == DOMAIN line = {}

\* One entry, not published before and with a larger token than the last,
\* is put above a line of height n.
Append ==
  \E n \in DOMAIN line \cup {0} :
    /\ DOMAIN line = 1..n
    /\ DOMAIN line' = 1..(n + 1)
    /\ line'[n + 1] \in Entry
    /\ \A g \in 1..n : /\ line'[g] = line[g]
                        /\ line[g].plan # line'[n + 1].plan
    /\ n > 0 => line'[n + 1].fence > line[n].fence

Next == Append

Spec == Init /\ [][Next]_line
=============================================================================

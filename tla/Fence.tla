-------------------------------- MODULE Fence --------------------------------
(***************************************************************************)
(* What the publication lease promises, without clocks: tokens are handed   *)
(* out one by one, a new holder appears only when no lease is live, and an  *)
(* attempt that released its lease never holds the domain again.            *)
(***************************************************************************)
EXTENDS FenceRow

VARIABLES row,        \* the lease row of the domain
          released    \* attempts whose release succeeded

vars == <<row, released>>

Init == row = NoRow /\ released = {}

Grant(a, l) ==
  /\ a \notin released
  /\ ~row.live
  /\ row' = Granted(row, a, l)
  /\ UNCHANGED released

\* A renewal decided on an older clock reading may reopen a lapsed window,
\* but only for the attempt the row still names.
Extend(a, l) ==
  /\ a \notin released
  /\ row.holder = a
  /\ row' = Extended(row, l)
  /\ UNCHANGED released

Lapse == row.live /\ row' = Lapsed(row) /\ UNCHANGED released

Release(a) ==
  /\ row.holder = a
  /\ row' = Lapsed(row)
  /\ released' = released \cup {a}

Next ==
  \/ Lapse
  \/ \E a \in Attempt : Release(a)
  \/ \E a \in Attempt, l \in BOOLEAN : Grant(a, l) \/ Extend(a, l)

Spec == Init /\ [][Next]_vars
=============================================================================

--------------------------- MODULE MCRestoreApply ---------------------------
(***************************************************************************)
(* Two requests, and two snapshots: a directory with a file in it beside a  *)
(* link; and a FIFO where the first has its directory with a file where it  *)
(* has its link.                                                            *)
(***************************************************************************)
EXTENDS RestoreApply, TLC

Paths == {"d", "l", "d/f"}
Parents == [p \in Paths |-> IF p = "d/f" THEN {"d"} ELSE {}]

Snapshots ==
  [first  |-> <<[path |-> "d", kind |-> "dir"], [path |-> "l", kind |-> "link"],
                [path |-> "d/f", kind |-> "file"]>>,
   second |-> <<[path |-> "d", kind |-> "special"], [path |-> "l", kind |-> "file"]>>]

Requests == Permutations(Request)
=============================================================================

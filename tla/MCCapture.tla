----------------------------- MODULE MCCapture -----------------------------
(***************************************************************************)
(* Two requests at a directory of two names: a readable file, and one that  *)
(* is not, whose metadata the operator may accept instead.                  *)
(***************************************************************************)
EXTENDS Capture, TLC

CONSTANTS r1, r2

MCStart == [n \in Names |-> IF n = "a" THEN {[kind |-> "file", data |-> "x"]} ELSE {Unreadable}]
MCFileMode == [n \in {"b"} |-> "METADATA_ONLY"]
MCBecomes ==
    [n \in Names |-> IF n = "a"
       THEN {[kind |-> "file", data |-> "y"], [kind |-> "link", data |-> "x"], Absent}
       ELSE {[kind |-> "file", data |-> "x"]}]
(* Two scans only read the directory, so they are not interleaved with one   *)
(* another: only with the user, and with a request that places and adopts.  *)
OneScan ==
    Cardinality({r \in Request : at[r].pc \in {"root", "list", "walk", "file", "link",
                                              "head", "tail", "check"}}) <= 1
Requests == Permutations(Request)
OnlyB == {{"b"}}

(* For the configurations that show what does not hold: one name.           *)
OneFileMode == [n \in {} |-> "METADATA_ONLY"]
NoneApproved == {{}}
=============================================================================

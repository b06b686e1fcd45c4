------------------------------ MODULE FenceRow ------------------------------
(***************************************************************************)
(* The publication lease as its users see it: one row per publication      *)
(* domain, holding the last fencing token granted, the attempt (an owner    *)
(* and its opaque lease token) it was granted to, and whether the lease     *)
(* window is still open.  Time is reduced to the flag live; the module      *)
(* PublicationFence keeps the timestamps and is shown to implement this.    *)
(***************************************************************************)
EXTENDS Naturals

CONSTANTS Attempt,     \* lease attempts: each draws a fresh lease token
          NoAttempt    \* the holder of a row that was never written

ASSUME NoAttemptAssumption == NoAttempt \notin Attempt

FenceRows == [token: Nat, holder: Attempt \cup {NoAttempt}, live: BOOLEAN]

NoRow == [token |-> 0, holder |-> NoAttempt, live |-> FALSE]

\* A takeover, and the first insert: the next token, never a smaller one.
\* l is FALSE when the transaction waited longer than the window it grants.
Granted(r, a, l) == [token |-> r.token + 1, holder |-> a, live |-> l]

\* The holder renews: the window moves, the token stays.
Extended(r, l) == [r EXCEPT !.live = l]

\* The window closes, by expiry or by release; the row is retained.
Lapsed(r) == [r EXCEPT !.live = FALSE]

\* What ValidatePublicationFence and ReleasePublicationFence require.
HeldBy(r, a, t) == r.live /\ r.holder = a /\ r.token = t
=============================================================================

-------------------------- MODULE PublicationFence --------------------------
(***************************************************************************)
(* The SQLite publication lease (store/sqlite/publication_fence.go) and the *)
(* way exact/fencing.go drives it: an attempt acquires the domain, a        *)
(* keepalive goroutine renews it, every placement is preceded by a          *)
(* validation, and release first stops the keepalive and waits for it.      *)
(*                                                                         *)
(* Every operation reads the clock before it waits for BEGIN IMMEDIATE, so  *)
(* the time a transaction decides on may be older than the time it commits  *)
(* at: reading the clock and running the transaction are separate steps.    *)
(* A paused process is one that takes no step while Tick is taken.          *)
(***************************************************************************)
EXTENDS FenceRow

CONSTANTS TTL,          \* lease length (DefaultPublicationFenceTTL)
          MaxTime       \* bound on the clock

ASSUME TTLAssumption == TTL \in Nat \ {0}
ASSUME MaxTimeAssumption == MaxTime \in Nat

VARIABLES
  now,     \* wall clock, in ticks
  row,     \* publication_fences row: fence (0: no row), holder, until
  main,    \* control state of the attempt's publication goroutine
  clk,     \* the clock reading its pending transaction will use
  tok,     \* publicationLease.coordinationToken (0: none)
  kpc,     \* control state of its keepalive goroutine
  kclk     \* the keepalive's clock reading

leaseVars == <<now, row, main, clk, tok, kpc, kclk>>

MainState == {"idle", "acquiring", "refused", "held", "validating", "placing",
              "stopping", "releasing", "released", "unreleased"}
KeepState == {"off", "waiting", "renewing", "failed"}

LeaseTypeOK ==
  /\ now \in Nat
  /\ row \in [fence: Nat, holder: Attempt \cup {NoAttempt}, until: Nat]
  /\ main \in [Attempt -> MainState]
  /\ clk \in [Attempt -> Nat]
  /\ tok \in [Attempt -> Nat]
  /\ kpc \in [Attempt -> KeepState]
  /\ kclk \in [Attempt -> Nat]

LeaseInit ==
  /\ now = 0
  /\ row = [fence |-> 0, holder |-> NoAttempt, until |-> 0]
  /\ main = [a \in Attempt |-> "idle"]
  /\ clk = [a \in Attempt |-> 0]
  /\ tok = [a \in Attempt |-> 0]
  /\ kpc = [a \in Attempt |-> "off"]
  /\ kclk = [a \in Attempt |-> 0]

-----------------------------------------------------------------------------
(* The transactions, as functions of the row, the attempt and the time t    *)
(* the caller read.                                                         *)

\* The branches of AcquirePublicationFence.
MayRenew(a, t) == row.fence > 0 /\ row.holder = a /\ row.until > t
MayInsert == row.fence = 0

\* Mutant: the window of the lease is not looked at.
TakeOverAtOnce(a, t) == row.fence > 0 /\ row.holder # a

MayTakeOver(a, t) == row.fence > 0 /\ row.until <= t /\ row.holder # a
Acquirable(a, t) == MayInsert \/ MayRenew(a, t) \/ MayTakeOver(a, t)

\* Mutant: a takeover keeps the token of the lease it replaces.
KeptTokenRow(a, t) ==
  IF row.fence > 0 THEN [row EXCEPT !.holder = a, !.until = t + TTL]
  ELSE [fence |-> 1, holder |-> a, until |-> t + TTL]

\* The row it leaves: a renewal keeps the token, the others advance it.
AcquiredRow(a, t) ==
  IF MayRenew(a, t) THEN [row EXCEPT !.until = t + TTL]
  ELSE [fence |-> row.fence + 1, holder |-> a, until |-> t + TTL]

\* The predicate shared by ValidatePublicationFence and the release UPDATE.
ExactHold(a, t) ==
  row.fence = tok[a] /\ tok[a] > 0 /\ row.holder = a /\ row.until > t

\* A release closes the window at the time read and keeps the rest.
ReleasedRow(t) == [row EXCEPT !.until = t]

-----------------------------------------------------------------------------
Tick ==
  /\ now < MaxTime
  /\ now' = now + 1
  /\ UNCHANGED <<row, main, clk, tok, kpc, kclk>>

\* now := s.now() in acquirePublicationFence.
BeginAcquire(a) ==
  /\ main[a] = "idle"
  /\ main' = [main EXCEPT ![a] = "acquiring"]
  /\ clk' = [clk EXCEPT ![a] = now]
  /\ UNCHANGED <<now, row, tok, kpc, kclk>>

\* The acquisition commits; the keepalive goroutine is started.
Acquire(a) ==
  /\ main[a] = "acquiring"
  /\ Acquirable(a, clk[a])
  /\ row' = AcquiredRow(a, clk[a])
  /\ tok' = [tok EXCEPT ![a] = row'.fence]
  /\ main' = [main EXCEPT ![a] = "held"]
  /\ kpc' = [kpc EXCEPT ![a] = "waiting"]
  /\ UNCHANGED <<now, clk, kclk>>

\* ErrConflict: another lease is still open.
Refuse(a) ==
  /\ main[a] = "acquiring"
  /\ ~Acquirable(a, clk[a])
  /\ main' = [main EXCEPT ![a] = "refused"]
  /\ UNCHANGED <<now, row, clk, tok, kpc, kclk>>

BeginValidate(a) ==
  /\ main[a] = "held"
  /\ main' = [main EXCEPT ![a] = "validating"]
  /\ clk' = [clk EXCEPT ![a] = now]
  /\ UNCHANGED <<now, row, tok, kpc, kclk>>

\* A recorded keepalive failure is reported before the row is consulted.
Validate(a) ==
  /\ main[a] = "validating"
  /\ main' = [main EXCEPT ![a] =
              IF kpc[a] # "failed" /\ ExactHold(a, clk[a])
              THEN "placing" ELSE "stopping"]
  /\ UNCHANGED <<now, row, clk, tok, kpc, kclk>>

Place(a) ==
  /\ main[a] = "placing"
  /\ main' = [main EXCEPT ![a] = "held"]
  /\ UNCHANGED <<now, row, clk, tok, kpc, kclk>>

\* release() is called, on success or on an error after acquisition.
BeginRelease(a) ==
  /\ main[a] = "held"
  /\ main' = [main EXCEPT ![a] = "stopping"]
  /\ UNCHANGED <<now, row, clk, tok, kpc, kclk>>

\* Mutant: stopKeepalive only cancels.
KeepaliveCancelled(a) == TRUE

\* stopKeepalive(): cancel, then wait until the goroutine has returned; only
\* then is the clock read for the release transaction.
KeepaliveStopped(a) == kpc[a] \in {"waiting", "failed"}
StopRenewing(a) ==
  /\ main[a] = "stopping"
  /\ KeepaliveStopped(a)
  /\ main' = [main EXCEPT ![a] = "releasing"]
  /\ kpc' = [kpc EXCEPT ![a] = IF @ = "waiting" THEN "off" ELSE @]
  /\ clk' = [clk EXCEPT ![a] = now]
  /\ UNCHANGED <<now, row, tok, kclk>>

Release(a) ==
  /\ main[a] = "releasing"
  /\ IF ExactHold(a, clk[a])
     THEN /\ row' = ReleasedRow(clk[a])
          /\ main' = [main EXCEPT ![a] = "released"]
     ELSE /\ main' = [main EXCEPT ![a] = "unreleased"]
          /\ UNCHANGED row
  /\ UNCHANGED <<now, clk, tok, kpc, kclk>>

\* The ticker fires; renewPublicationFence reads the clock.
BeginRenew(a) ==
  /\ kpc[a] = "waiting"
  /\ kpc' = [kpc EXCEPT ![a] = "renewing"]
  /\ kclk' = [kclk EXCEPT ![a] = now]
  /\ UNCHANGED <<now, row, main, clk, tok>>

\* The renewal is an ordinary acquisition with the old lease token; a token
\* that differs from the one held is treated as a fencing failure.
RenewFence(a) ==
  /\ kpc[a] = "renewing"
  /\ IF Acquirable(a, kclk[a])
     THEN /\ row' = AcquiredRow(a, kclk[a])
          /\ kpc' = [kpc EXCEPT ![a] =
                       IF row'.fence = tok[a] THEN "waiting" ELSE "failed"]
     ELSE /\ kpc' = [kpc EXCEPT ![a] = "failed"]
          /\ UNCHANGED row
  /\ UNCHANGED <<now, main, clk, tok, kclk>>

\* A renewal cut short by stopKeepalive's cancellation: no transaction, no
\* recorded failure.
CancelRenew(a) ==
  /\ kpc[a] = "renewing" /\ main[a] = "stopping"
  /\ kpc' = [kpc EXCEPT ![a] = "waiting"]
  /\ UNCHANGED <<now, row, main, clk, tok, kclk>>

AttemptStep(a) ==
  \/ BeginAcquire(a) \/ Acquire(a) \/ Refuse(a)
  \/ BeginValidate(a) \/ Validate(a) \/ Place(a)
  \/ BeginRelease(a) \/ StopRenewing(a) \/ Release(a)
  \/ BeginRenew(a) \/ RenewFence(a) \/ CancelRenew(a)

LeaseNext == Tick \/ \E a \in Attempt : AttemptStep(a)

LeaseSpec == LeaseInit /\ [][LeaseNext]_leaseVars

-----------------------------------------------------------------------------
(* Properties.                                                              *)

\* Two attempts never believe in the same fencing token, whatever order the
\* inserts, takeovers and stale renewals commit in.
TokensDistinct ==
  \A a, b \in Attempt : tok[a] > 0 /\ tok[a] = tok[b] => a = b

\* The row changes hands only after the previous holder's window is over in
\* real time, although both decided on clock readings taken before they got
\* the write lock.
NoEarlyTakeover ==
  [][row'.holder # row.holder => row.until <= now]_leaseVars

\* A released lease stays closed: no late renewal of the keepalive reopens
\* the window of an attempt that has gone, which would lock every other
\* process out for a whole TTL.
ReleasedStaysClosed ==
  \A a \in Attempt :
    main[a] = "released" => ~(row.holder = a /\ row.until > now)

\* Fencing tokens only grow, and a token names one holder for ever.
TokensMonotone ==
  [][/\ row'.fence >= row.fence
     /\ row'.fence = row.fence => row'.holder = row.holder]_leaseVars

\* The comment on AcquirePublicationFence: a takeover after expiry must use a
\* new lease token; reusing an expired token is rejected.  An attempt that was
\* granted a token is therefore never the holder under another one.
ExpiredTokenNeverReused ==
  \A a \in Attempt : tok[a] > 0 /\ row.holder = a => row.fence = tok[a]

\* The lease without clocks.
F == INSTANCE Fence WITH
       row <- [token |-> row.fence, holder |-> row.holder,
               live |-> row.until > now],
       released <- {a \in Attempt : main[a] = "released"}

\* Every step of the timed lease is a step of the abstract one, or none.
ImplementsFence == F!Spec
=============================================================================

----------------------------- MODULE Publication -----------------------------
(***************************************************************************)
(* Signed publication (exact/recovery_publication.go): every call of        *)
(* publishRecoveryClosure is an attempt that takes the process mutex, the   *)
(* repository lock and the catalog's lease, reads the commit lineage, and   *)
(* places a prepared closure and then a commit record, revalidating its     *)
(* lease around each placement.  Attempts of several processes interleave,  *)
(* placements fail or lose their answer, leases lapse under paused          *)
(* processes, and processes are killed between any two steps.               *)
(*                                                                         *)
(* A record's digest is the attempt that signed it: the publication         *)
(* identifier and the signing time make every signed record distinct.       *)
(* Records of other domains and records that fail authentication are not    *)
(* modelled; listCommitMarkers skips the former and refuses the latter.     *)
(***************************************************************************)
EXTENDS FenceRow

CONSTANTS
  Plan,         \* plan digests
  PlanOf,       \* the plan an attempt publishes
  Process,      \* server processes
  ProcOf,       \* the process an attempt runs in
  Catalog,      \* SQLite catalogs
  CatalogOf     \* the catalog a process coordinates through

ASSUME PlanOfAssumption == PlanOf \in [Attempt -> Plan]
ASSUME ProcOfAssumption == ProcOf \in [Attempt -> Process]
ASSUME CatalogOfAssumption == CatalogOf \in [Process -> Catalog]

VARIABLES
  mutex,       \* Service.publicationMu of each process: its holder
  flock,       \* holder of the repository's lock file
  fence,       \* the lease row in each catalog
  pc,          \* control state of each attempt
  keep,        \* its keepalive goroutine: "off", "on", or "failed"
  coord,       \* its coordinationToken
  record,      \* the generation, parent and fence token it signs
  prepared,    \* durable prepared closures, by attempt
  commits,     \* durable commit records
  result,      \* what publishRecoveryClosure returned
  unreleased   \* attempts whose release failed: ErrNeedsReconciliation joined

vars == <<mutex, flock, fence, pc, keep, coord, record, prepared, commits,
          result, unreleased>>

Maybe == Attempt \cup {NoAttempt}

\* What the signed commit binds; parent is the digest of the previous commit.
Commit == [by: Attempt, plan: Plan, gen: Nat, parent: Maybe, fence: Nat]

Results == {"none", "SUCCESS", "ALREADY_COMMITTED", "ERROR", "UNKNOWN"}

PC == {"start", "lock", "lease", "list", "check1", "prepare", "check2",
       "check3", "commit", "check4", "observe", "release", "unlock", "done",
       "killed"}

TypeOK ==
  /\ mutex \in [Process -> Maybe]
  /\ flock \in Maybe
  /\ fence \in [Catalog -> FenceRows]
  /\ pc \in [Attempt -> PC]
  /\ keep \in [Attempt -> {"off", "on", "failed"}]
  /\ coord \in [Attempt -> Nat]
  /\ record \in [Attempt -> [gen: Nat, parent: Maybe, fence: Nat]]
  /\ prepared \in SUBSET Attempt
  /\ commits \in SUBSET Commit
  /\ result \in [Attempt -> Results]
  /\ unreleased \in SUBSET Attempt

Init ==
  /\ mutex = [p \in Process |-> NoAttempt]
  /\ flock = NoAttempt
  /\ fence = [c \in Catalog |-> NoRow]
  /\ pc = [a \in Attempt |-> "start"]
  /\ keep = [a \in Attempt |-> "off"]
  /\ coord = [a \in Attempt |-> 0]
  /\ record = [a \in Attempt |-> [gen |-> 0, parent |-> NoAttempt, fence |-> 0]]
  /\ prepared = {}
  /\ commits = {}
  /\ result = [a \in Attempt |-> "none"]
  /\ unreleased = {}

-----------------------------------------------------------------------------
CatalogFor(a) == CatalogOf[ProcOf[a]]
Row(a) == fence[CatalogFor(a)]

\* validatePublicationFence: a recorded keepalive failure, then the row.
LeaseValid(a) == keep[a] # "failed" /\ HeldBy(Row(a), a, coord[a])

\* The authentication of the chain in listCommitMarkers, which every reader
\* and every writer performs: anything else fails closed.
Readable(C) ==
  /\ \A c, d \in C : c.gen = d.gen => c = d
  /\ \A c \in C :
       /\ c.gen > 0 /\ c.fence > 0
       /\ c.gen = 1 => c.parent = NoAttempt
       /\ c.gen > 1 => \E p \in C : /\ c.gen = p.gen + 1
                                    /\ c.parent = p.by
                                    /\ c.fence > p.fence

Latest(C) == CHOOSE c \in C : \A d \in C : d.gen <= c.gen

Larger(m, n) == IF m > n THEN m ELSE n

\* Mutant: the coordination token is signed as it is.
LeaseTokenRecord(C, t) ==
  IF C = {}
  THEN [gen |-> 1, parent |-> NoAttempt, fence |-> t]
  ELSE [gen |-> Latest(C).gen + 1, parent |-> Latest(C).by, fence |-> t]

\* The generation, parent and fencing token the next commit must carry: the
\* token advances the lineage and the coordination counter.
NextRecord(C, t) ==
  IF C = {}
  THEN [gen |-> 1, parent |-> NoAttempt, fence |-> Larger(1, t)]
  ELSE [gen |-> Latest(C).gen + 1, parent |-> Latest(C).by,
        fence |-> Larger(Latest(C).fence + 1, t)]

CommitOf(a) == [by |-> a, plan |-> PlanOf[a], gen |-> record[a].gen,
                parent |-> record[a].parent, fence |-> record[a].fence]

\* Mutant: a plan may be committed again.
PlanForgotten(a) == FALSE

PlanCommitted(a) == \E c \in commits : c.plan = PlanOf[a]

\* Mutant: a durable prepared closure is taken for a publication.
PreparedIsEnough(a) == a \in prepared

OwnCommitObserved(a) ==
  Readable(commits) /\ \E c \in commits : c.by = a /\ c.plan = PlanOf[a]

Goto(a, l) == pc' = [pc EXCEPT ![a] = l]
Return(a, r) == result' = [result EXCEPT ![a] = r]

-----------------------------------------------------------------------------
(* Coordination: acquirePublicationFence.                                   *)

\* s.publicationMu.Lock()
LockMutex(a) ==
  /\ pc[a] = "start"
  /\ mutex[ProcOf[a]] = NoAttempt
  /\ mutex' = [mutex EXCEPT ![ProcOf[a]] = a]
  /\ Goto(a, "lock")
  /\ UNCHANGED <<flock, fence, keep, coord, record, prepared, commits,
                 result, unreleased>>

\* AcquirePublicationLock polls until the lock file is free.
AcquireLock(a) ==
  /\ pc[a] = "lock"
  /\ flock = NoAttempt
  /\ flock' = a
  /\ Goto(a, "lease")
  /\ UNCHANGED <<mutex, fence, keep, coord, record, prepared, commits,
                 result, unreleased>>

\* The caller's context ends while the lock is polled, or the platform has
\* no file lock (publication_lock_other.go): the attempt fails even though a
\* lease could be had.
AbandonLock(a) ==
  /\ pc[a] = "lock"
  /\ Return(a, "ERROR")
  /\ Goto(a, "unlock")
  /\ UNCHANGED <<mutex, flock, fence, keep, coord, record, prepared, commits,
                 unreleased>>

\* fencer.Acquire with a fresh lease token, and the keepalive goroutine.
AcquireLease(a) ==
  /\ pc[a] = "lease"
  /\ ~Row(a).live
  /\ fence' = [fence EXCEPT ![CatalogFor(a)] = Granted(@, a, TRUE)]
  /\ coord' = [coord EXCEPT ![a] = Row(a).token + 1]
  /\ keep' = [keep EXCEPT ![a] = "on"]
  /\ Goto(a, "list")
  /\ UNCHANGED <<mutex, flock, record, prepared, commits, result, unreleased>>

\* ErrConflict, or the catalog cannot be written: the lock is closed again.
RefuseLease(a) ==
  /\ pc[a] = "lease"
  /\ Return(a, "ERROR")
  /\ Goto(a, "unlock")
  /\ UNCHANGED <<mutex, flock, fence, keep, coord, record, prepared, commits,
                 unreleased>>

\* The lease window ends: the holder is paused, or was killed.
LeaseLapses(c) ==
  /\ fence[c].live
  /\ fence' = [fence EXCEPT ![c] = Lapsed(@)]
  /\ UNCHANGED <<mutex, flock, pc, keep, coord, record, prepared, commits,
                 result, unreleased>>

\* One renewal of the keepalive goroutine.  It is an ordinary acquisition
\* with the old lease token, so it can also take over another attempt's lapsed
\* lease; the changed token then fails the keepalive.
Renew(a) ==
  /\ keep[a] = "on"
  /\ \/ /\ Row(a).holder = a
        /\ fence' = [fence EXCEPT ![CatalogFor(a)] = Extended(@, TRUE)]
        /\ UNCHANGED keep
     \/ /\ Row(a).holder # a /\ ~Row(a).live
        /\ fence' = [fence EXCEPT ![CatalogFor(a)] = Granted(@, a, TRUE)]
        /\ keep' = [keep EXCEPT ![a] = "failed"]
     \/ /\ keep' = [keep EXCEPT ![a] = "failed"]
        /\ UNCHANGED fence
  /\ UNCHANGED <<mutex, flock, pc, coord, record, prepared, commits, result,
                 unreleased>>

-----------------------------------------------------------------------------
(* The two placements: publishRecoveryClosure.                              *)

\* listCommitMarkers, the plan check, and the choice of generation, parent
\* and token.
ListCommits(a) ==
  /\ pc[a] = "list"
  /\ \/ /\ Readable(commits)
        /\ ~PlanCommitted(a)
        /\ record' = [record EXCEPT ![a] = NextRecord(commits, coord[a])]
        /\ Goto(a, "check1")
        /\ UNCHANGED result
     \/ /\ Readable(commits)
        /\ PlanCommitted(a)
        /\ Return(a, "ALREADY_COMMITTED")
        /\ Goto(a, "release")
        /\ UNCHANGED record
     \/ /\ ~Readable(commits) \/ keep[a] = "failed"
        /\ Return(a, "ERROR")
        /\ Goto(a, "release")
        /\ UNCHANGED record
  /\ UNCHANGED <<mutex, flock, fence, keep, coord, prepared, commits,
                 unreleased>>

\* A lease validation before a placement: its failure is a plain error.
CheckBefore(a) ==
  /\ \/ pc[a] = "check1" /\ LeaseValid(a) /\ Goto(a, "prepare") /\ UNCHANGED result
     \/ pc[a] = "check3" /\ LeaseValid(a) /\ Goto(a, "commit") /\ UNCHANGED result
     \/ /\ pc[a] \in {"check1", "check3"}
        /\ ~LeaseValid(a)
        /\ Return(a, "ERROR")
        /\ Goto(a, "release")
  /\ UNCHANGED <<mutex, flock, fence, keep, coord, record, prepared, commits,
                 unreleased>>

\* A lease validation after a placement: its failure makes the outcome one
\* that must be observed.
CheckAfter(a) ==
  /\ \/ pc[a] = "check2" /\ LeaseValid(a) /\ Goto(a, "check3") /\ UNCHANGED result
     \/ /\ pc[a] = "check4" /\ LeaseValid(a)
        /\ Return(a, "SUCCESS")
        /\ Goto(a, "release")
     \/ /\ pc[a] \in {"check2", "check4"}
        /\ ~LeaseValid(a)
        /\ Goto(a, "observe")
        /\ UNCHANGED result
  /\ UNCHANGED <<mutex, flock, fence, keep, coord, record, prepared, commits,
                 unreleased>>

\* Mutant: a failed placement of the prepared closure is not noticed.
PlacePreparedUnread(a) ==
  /\ pc[a] = "prepare"
  /\ \/ prepared' = prepared \cup {a}
     \/ UNCHANGED prepared
  /\ Goto(a, "check2")
  /\ UNCHANGED <<mutex, flock, fence, keep, coord, record, commits, result,
                 unreleased>>

\* PlaceRecord and VerifyRecord of the prepared closure: durable and read
\* back, durable with the answer lost, or not durable.  A keepalive failure
\* has cancelled the context PlaceRecord starts by consulting.
PlacePrepared(a) ==
  /\ pc[a] = "prepare"
  /\ \/ keep[a] # "failed" /\ prepared' = prepared \cup {a} /\ Goto(a, "check2")
     \/ keep[a] # "failed" /\ prepared' = prepared \cup {a} /\ Goto(a, "observe")
     \/ Goto(a, "observe") /\ UNCHANGED prepared
  /\ UNCHANGED <<mutex, flock, fence, keep, coord, record, commits, result,
                 unreleased>>

\* The same for the publication commit.
PlaceCommit(a) ==
  /\ pc[a] = "commit"
  /\ \/ /\ keep[a] # "failed"
        /\ commits' = commits \cup {CommitOf(a)}
        /\ Goto(a, "check4")
     \/ /\ keep[a] # "failed"
        /\ commits' = commits \cup {CommitOf(a)}
        /\ Goto(a, "observe")
     \/ Goto(a, "observe") /\ UNCHANGED commits
  /\ UNCHANGED <<mutex, flock, fence, keep, coord, record, prepared, result,
                 unreleased>>

\* reconcileUnknownPublicationOutcome: only this attempt's own commit, in a
\* lineage that authenticates, permits success.  The listing itself may fail.
Observe(a) ==
  /\ pc[a] = "observe"
  /\ \/ OwnCommitObserved(a) /\ Return(a, "SUCCESS")
     \/ Return(a, "UNKNOWN")
  /\ Goto(a, "release")
  /\ UNCHANGED <<mutex, flock, fence, keep, coord, record, prepared, commits,
                 unreleased>>

-----------------------------------------------------------------------------
(* Leaving: lease.release() and the deferred unlocks.                       *)

\* Mutant: release does not wait for the keepalive goroutine.
LeaveKeepalive(a) == UNCHANGED keep

StopKeepalive(a) == keep' = [keep EXCEPT ![a] = "off"]

\* The keepalive is stopped, then fencer.Release; a recorded keepalive error
\* or a lease no longer held joins ErrNeedsReconciliation to the result.
ReleaseLease(a) ==
  /\ pc[a] = "release"
  /\ \/ /\ HeldBy(Row(a), a, coord[a])
        /\ fence' = [fence EXCEPT ![CatalogFor(a)] = Lapsed(@)]
        /\ unreleased' = IF keep[a] = "failed" THEN unreleased \cup {a}
                         ELSE unreleased
     \/ /\ unreleased' = unreleased \cup {a}
        /\ UNCHANGED fence
  /\ StopKeepalive(a)
  /\ Goto(a, "unlock")
  /\ UNCHANGED <<mutex, flock, coord, record, prepared, commits, result>>

\* Mutant: the lock file stays locked.
KeepLock(a) == UNCHANGED flock

CloseLock(a) == flock' = IF flock = a THEN NoAttempt ELSE flock

\* publicationLock.Close() and s.publicationMu.Unlock()
Unlock(a) ==
  /\ pc[a] = "unlock"
  /\ CloseLock(a)
  /\ mutex' = [mutex EXCEPT ![ProcOf[a]] = NoAttempt]
  /\ Goto(a, "done")
  /\ UNCHANGED <<fence, keep, coord, record, prepared, commits, result,
                 unreleased>>

Running(a) == pc[a] \notin {"start", "done", "killed"}

\* Mutant: a lock file that outlives its process.
StrandLock(dead) == UNCHANGED flock

\* The kernel drops the file lock of a process that is gone.
KernelUnlock(dead) == flock' = IF flock \in dead THEN NoAttempt ELSE flock

\* A process is killed: its attempts stop where they are, the kernel drops
\* its file lock, and its row in the catalog stays until it lapses.  Attempts
\* not yet started run in the restarted process.
Kill(p) ==
  LET dead == {a \in Attempt : ProcOf[a] = p /\ Running(a)} IN
  /\ dead # {}
  /\ pc' = [a \in Attempt |-> IF a \in dead THEN "killed" ELSE pc[a]]
  /\ keep' = [a \in Attempt |-> IF a \in dead THEN "off" ELSE keep[a]]
  /\ mutex' = [mutex EXCEPT ![p] = NoAttempt]
  /\ KernelUnlock(dead)
  /\ UNCHANGED <<fence, coord, record, prepared, commits, result, unreleased>>

-----------------------------------------------------------------------------
Advance(a) ==
  \/ LockMutex(a) \/ AcquireLock(a) \/ AbandonLock(a)
  \/ AcquireLease(a) \/ RefuseLease(a)
  \/ ListCommits(a) \/ CheckBefore(a) \/ CheckAfter(a)
  \/ PlacePrepared(a) \/ PlaceCommit(a) \/ Observe(a)
  \/ ReleaseLease(a) \/ Unlock(a)

Next ==
  \/ \E a \in Attempt : Advance(a) \/ Renew(a)
  \/ \E c \in Catalog : LeaseLapses(c)
  \/ \E p \in Process : Kill(p)

Spec == Init /\ [][Next]_vars

\* Goroutines are scheduled and the lock poll does not miss a free lock for
\* ever.  That a caller gives up on the lock is possible, never guaranteed.
Proceed(a) == Advance(a) /\ ~AbandonLock(a)

FairSpec == Spec /\ \A a \in Attempt : WF_vars(Proceed(a))

-----------------------------------------------------------------------------
(* Properties.                                                              *)

\* The chain that every reader authenticates never breaks: no two commits at
\* one generation, no gap, no foreign parent, fencing tokens growing across
\* processes and catalogs.  A broken chain would lock every reader and every
\* later publication out for good.
LineageReadable == Readable(commits)

\* A plan is committed at most once, however its attempts are interleaved,
\* retried, killed or answered late.
OneCommitPerPlan ==
  \A c, d \in commits : c.plan = d.plan => c = d

\* A commit never precedes the closure it names.
PreparedBeforeCommit == \A c \in commits : c.by \in prepared

\* What the caller is told is true of the repository: success means the
\* attempt's own commit is durable, a plain error or an already-committed
\* refusal means it is not and never will be.
ResultIsHonest ==
  \A a \in Attempt :
    LET durable == \E c \in commits : c.by = a IN
    /\ result[a] = "SUCCESS" => durable
    /\ result[a] \in {"ERROR", "ALREADY_COMMITTED"} => ~durable

\* The repository lock keeps a stale renewal from taking a lease over again:
\* an attempt that is the holder holds the token it was given.
OneTokenPerAttempt ==
  \A a \in Attempt :
    coord[a] > 0 /\ Row(a).holder = a => Row(a).token = coord[a]

\* The repository lock is never stranded: killed or not, its holder gives it
\* up.
LockIsGivenUp == \A a \in Attempt : flock = a ~> flock # a

\* An attempt that asked for the lock returns or dies.
AttemptsReturn ==
  \A a \in Attempt : pc[a] = "lock" ~> pc[a] \in {"done", "killed"}

\* The commits, read as the line of CommitLineage.
Entry(g) == CHOOSE c \in commits : c.gen = g
Line == [g \in {c.gen : c \in commits} |->
           [plan |-> Entry(g).plan, fence |-> Entry(g).fence]]
L == INSTANCE CommitLineage WITH line <- Line

\* Publication extends one line of commits and never rewrites it.
ImplementsLineage == L!Spec
=============================================================================

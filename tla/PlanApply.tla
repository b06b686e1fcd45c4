------------------------------ MODULE PlanApply ------------------------------
(***************************************************************************)
(* plan.apply of one ingest plan (controlplane/plan_ops.go): concurrent     *)
(* requests find or create the plan's PLAN_APPLY job, take its lease,       *)
(* reconcile what an earlier execution may have made durable, execute, and  *)
(* record the outcome; job.cancel and plan.abandon race with them, and the  *)
(* daemon may be killed between any two steps.                              *)
(*                                                                         *)
(* Publication is here what the module Publication shows it to be: under    *)
(* the repository's lock, a prepared closure and then a commit, at most one *)
(* commit per plan, and an answer that is sometimes lost.                   *)
(***************************************************************************)
EXTENDS Naturals

CONSTANTS
  Request,       \* concurrent plan.apply requests; each may be repeated
  MaxAttempts,   \* Job.MaxAttempts of a PLAN_APPLY job
  MaxFaults      \* bound on kills, cancellations, lost writes and overruns

ASSUME MaxAttemptsAssumption == MaxAttempts \in Nat \ {0}
ASSUME MaxFaultsAssumption == MaxFaults \in Nat

Nothing == "none"

VARIABLES
  job,        \* the PLAN_APPLY row: state, revision, attempt, fence, leased
  abandoned,  \* an ABANDON marker names the plan
  abandoner,  \* a plan.abandon between its checks and its insert
  prepared,   \* durable prepared closures of the plan: none, one, or more
  committed,  \* its publication commit is durable
  projected,  \* the publication row is in the catalog
  recorded,   \* terminal processor attempt rows are in the catalog
  children,   \* durable child closures of the commit
  committer,  \* the request inside publishRecoveryClosure
  pc,         \* control state of each request
  mode,       \* which call of the reconciliation it is in
  seen,       \* the revision of the job it read
  verdict,    \* the outcome it will record
  overtaken,  \* an executing request has lost the job's lease
  faults      \* disturbances so far

applyVars == <<job, abandoned, abandoner, prepared, committed, projected,
               recorded, children, committer, pc, mode, seen, verdict,
               overtaken, faults>>
durable == <<prepared, committed, projected, recorded, children>>
disturbed == <<overtaken, faults>>

Settled == {"SUCCEEDED", "FAILED", "CANCELLED"}
\* jobTerminal
Terminal == Settled \cup {"NEEDS_RECONCILIATION"}
JobStates == Terminal \cup {Nothing, "QUEUED", "RUNNING"}
Verdicts == {Nothing, "SUCCEEDED", "FAILED", "NEEDS_RECONCILIATION"}
Closures == {"attempts", "facts"}
PC == {"idle", "find", "lease", "reread", "reconcile", "children", "capture",
       "publish", "commit", "project", "process", "finish"}

NoJob == [state |-> Nothing, revision |-> 0, attempt |-> 0, fence |-> 0,
          leased |-> FALSE]

ApplyTypeOK ==
  /\ job \in [state: JobStates, revision: Nat, attempt: 0..MaxAttempts,
              fence: Nat, leased: BOOLEAN]
  /\ abandoned \in BOOLEAN /\ abandoner \in BOOLEAN
  /\ prepared \in 0..2
  /\ committed \in BOOLEAN /\ projected \in BOOLEAN /\ recorded \in BOOLEAN
  /\ children \in SUBSET Closures
  /\ committer \in Request \cup {Nothing}
  /\ pc \in [Request -> PC]
  /\ mode \in [Request -> {Nothing, "first", "recover", "replay"}]
  /\ seen \in [Request -> Nat]
  /\ verdict \in [Request -> Verdicts]
  /\ overtaken \in BOOLEAN
  /\ faults \in 0..MaxFaults

ApplyInit ==
  /\ job = NoJob
  /\ abandoned = FALSE /\ abandoner = FALSE
  /\ prepared = 0
  /\ committed = FALSE /\ projected = FALSE /\ recorded = FALSE
  /\ children = {}
  /\ committer = Nothing
  /\ pc = [r \in Request |-> "idle"]
  /\ mode = [r \in Request |-> Nothing]
  /\ seen = [r \in Request |-> 0]
  /\ verdict = [r \in Request |-> Nothing]
  /\ overtaken = FALSE
  /\ faults = 0

Goto(r, l) == pc' = [pc EXCEPT ![r] = l]
SetMode(r, m) == mode' = [mode EXCEPT ![r] = m]
Decide(r, v) == verdict' = [verdict EXCEPT ![r] = v]
Look(r) == seen' = [seen EXCEPT ![r] = job.revision]

\* The request returns; what it knew is gone.
Leave(r) ==
  /\ Goto(r, "idle") /\ SetMode(r, Nothing) /\ Decide(r, Nothing)
  /\ seen' = [seen EXCEPT ![r] = 0]

-----------------------------------------------------------------------------
(* claimPlanApplyJob                                                        *)

\* handlePlanApply reads the plan and its ABANDON marker.
Begin(r) ==
  /\ pc[r] = "idle"
  /\ ~abandoned
  /\ Goto(r, "find")
  /\ UNCHANGED <<job, abandoned, abandoner, durable, committer, mode, seen, verdict,
                 disturbed>>

\* No job for the plan: insert one; a conflicting insert is ignored.
InsertJob(r) ==
  /\ pc[r] = "find"
  /\ job.state = Nothing
  /\ job' = [NoJob EXCEPT !.state = "QUEUED", !.revision = 1]
  /\ UNCHANGED <<abandoned, abandoner, durable, committer, pc, mode, seen, verdict,
                 disturbed>>

\* Mutant: a job awaiting reconciliation may be claimed like a running one.
UnreconciledIsOpen(s) == s \in Settled

JobTerminal(s) == s \in Terminal

\* GetJobByPlanKind: a terminal job is replayed, another is to be leased.
ReadJob(r) ==
  /\ pc[r] = "find"
  /\ job.state # Nothing
  /\ \/ /\ ~JobTerminal(job.state)
        /\ Look(r) /\ Goto(r, "lease")
        /\ UNCHANGED <<mode, verdict>>
     \/ /\ JobTerminal(job.state) /\ job.state # "NEEDS_RECONCILIATION"
        /\ Leave(r)
     \/ /\ JobTerminal(job.state) /\ job.state = "NEEDS_RECONCILIATION"
        /\ Look(r) /\ SetMode(r, "replay") /\ Goto(r, "reconcile")
        /\ UNCHANGED verdict
  /\ UNCHANGED <<job, abandoned, abandoner, durable, committer, disturbed>>

\* Mutant: a claim does not look at the attempts that are left.
AnyAttempt(r) ==
  /\ job.revision = seen[r]
  /\ job.state \in {"QUEUED", "RUNNING", "NEEDS_RECONCILIATION"}
  /\ ~job.leased

\* Mutant: only a queued job can be leased.
QueuedOnly(r) ==
  /\ job.revision = seen[r]
  /\ job.state = "QUEUED"
  /\ job.attempt < MaxAttempts
  /\ ~job.leased

\* AcquireJobLease's WHERE clause.
Leasable(r) ==
  /\ job.revision = seen[r]
  /\ job.state \in {"QUEUED", "RUNNING", "NEEDS_RECONCILIATION"}
  /\ job.attempt < MaxAttempts
  /\ ~job.leased

AcquireLease(r) ==
  /\ pc[r] = "lease"
  /\ IF Leasable(r)
     THEN /\ job' = [state |-> "RUNNING", revision |-> job.revision + 1,
                     attempt |-> job.attempt + 1, fence |-> job.fence + 1,
                     leased |-> TRUE]
          /\ Goto(r, "reread")
          /\ UNCHANGED <<mode, seen, verdict>>
     ELSE Leave(r) /\ UNCHANGED job
  /\ UNCHANGED <<abandoned, abandoner, durable, committer, disturbed>>

\* GetJob after the lease transaction: the revision the result will expect.
RereadJob(r) ==
  /\ pc[r] = "reread"
  /\ Look(r)
  /\ SetMode(r, "first")
  /\ Goto(r, "reconcile")
  /\ UNCHANGED <<job, abandoned, abandoner, durable, committer, verdict, disturbed>>

-----------------------------------------------------------------------------
(* executePlanBody, replayPlanApplyJob: ReconcileIngestPublicationCompletion *)
(* is called before an execution, after a failed one, and by a replay.      *)

\* It failed: the first call decides the outcome, the second leaves the
\* original error standing, a replay reports and changes nothing.
ReconcileFails(r, v) ==
  \/ mode[r] = "first" /\ Decide(r, v) /\ Goto(r, "finish") /\ UNCHANGED <<mode, seen>>
  \/ mode[r] = "recover" /\ Goto(r, "finish") /\ UNCHANGED <<verdict, mode, seen>>
  \/ mode[r] = "replay" /\ Leave(r)

\* Nothing durable names the plan: only a first call may execute it.
ReconcileNotFound(r) ==
  \/ /\ mode[r] = "first" /\ Goto(r, "capture")
     /\ UNCHANGED <<mode, seen, verdict>>
  \/ mode[r] # "first" /\ ReconcileFails(r, Nothing)

\* ReconcileIngestPublication: the catalog row, else the commit (which it
\* projects), else the prepared closure.  The commit may become durable after
\* the commits were listed; two prepared closures are a conflict.
Reconcile(r) ==
  /\ pc[r] = "reconcile"
  /\ \/ /\ projected \/ committed
        /\ projected' = TRUE
        /\ Goto(r, "children")
        /\ UNCHANGED <<mode, seen, verdict>>
     \/ /\ ~projected /\ ~committed /\ prepared = 0
        /\ ReconcileNotFound(r)
        /\ UNCHANGED projected
     \/ /\ ~projected /\ prepared = 1
        /\ ReconcileFails(r, "NEEDS_RECONCILIATION")
        /\ UNCHANGED projected
     \/ /\ ReconcileFails(r, "FAILED")    \* any read or write error
        /\ UNCHANGED projected
  /\ UNCHANGED <<job, abandoned, abandoner, prepared, committed, recorded,
                 children, committer, disturbed>>

\* The children the completion still has to close, attempts before facts.
Missing == {c \in Closures : c \notin children /\ (c = "attempts" => recorded)}
NextMissing == IF "attempts" \in Missing THEN "attempts" ELSE "facts"

CloseChild(r) ==
  /\ pc[r] = "children" /\ Missing # {}
  /\ \/ /\ committer = Nothing
        /\ children' = children \cup {NextMissing}
        /\ UNCHANGED <<pc, mode, seen, verdict>>
     \/ /\ committer = Nothing
        /\ children' \in {children, children \cup {NextMissing}}
        /\ ReconcileFails(r, "NEEDS_RECONCILIATION")
     \/ ReconcileFails(r, "FAILED") /\ UNCHANGED children
  /\ UNCHANGED <<job, abandoned, abandoner, prepared, committed, projected,
                 recorded, committer, disturbed>>

\* Mutant: completion is declared before its children are closed.
RootIsEnough == TRUE

AllClosed == Missing = {}

Complete(r) ==
  /\ pc[r] = "children" /\ AllClosed
  /\ Decide(r, "SUCCEEDED") /\ Goto(r, "finish")
  /\ UNCHANGED <<job, abandoned, abandoner, durable, committer, mode, seen, disturbed>>

-----------------------------------------------------------------------------
(* ApplyIngestPlanWithExecutionKey                                          *)

\* The execution returned an error of kind v without a usable result.
ExecutionFails(r, v) ==
  Decide(r, v) /\ SetMode(r, "recover") /\ Goto(r, "reconcile")

\* Capture, the plan's staleness checks, the catalog scan and the payload
\* placement, none of which names the plan's execution key.
Capture(r) ==
  /\ pc[r] = "capture"
  /\ \/ Goto(r, "publish") /\ UNCHANGED <<mode, verdict>>
     \/ ExecutionFails(r, "FAILED")
  /\ UNCHANGED <<job, abandoned, abandoner, durable, committer, seen, disturbed>>

Unpublished == ~committed

\* publishRecoveryClosure up to the prepared closure.
PlacePrepared(r) ==
  /\ pc[r] = "publish"
  /\ \/ /\ committer = Nothing /\ Unpublished
        /\ committer' = r
        /\ prepared' = IF prepared = 2 THEN 2 ELSE prepared + 1
        /\ Goto(r, "commit")
        /\ UNCHANGED <<mode, verdict>>
     \/ /\ committer = Nothing /\ Unpublished
        /\ prepared' \in {prepared, IF prepared = 2 THEN 2 ELSE prepared + 1}
        /\ ExecutionFails(r, "NEEDS_RECONCILIATION")
        /\ UNCHANGED committer
     \/ ExecutionFails(r, "FAILED") /\ UNCHANGED <<prepared, committer>>
  /\ UNCHANGED <<job, abandoned, abandoner, committed, projected, recorded,
                 children, seen, disturbed>>

\* Mutant: an error after the commit was placed is reported as plain.
LostAnswerIsFailure == "FAILED"

LostAnswer == "NEEDS_RECONCILIATION"

\* The commit: durable and confirmed; durable or not, with the answer lost or
\* the release failing; not placed because the lease had gone.
PlaceCommit(r) ==
  /\ pc[r] = "commit"
  /\ committer' = Nothing
  /\ \/ committed' = TRUE /\ Goto(r, "project") /\ UNCHANGED <<mode, verdict>>
     \/ committed' \in {committed, TRUE} /\ ExecutionFails(r, LostAnswer)
     \/ UNCHANGED committed /\ ExecutionFails(r, "FAILED")
  /\ UNCHANGED <<job, abandoned, abandoner, prepared, projected, recorded,
                 children, seen, disturbed>>

\* Mutant: the projection error is dropped.
IgnoreProjection == "SUCCEEDED"

ProjectionLost == "NEEDS_RECONCILIATION"

\* InsertPublication: a committed publication the catalog does not take is an
\* unknown outcome carrying the commit.
Project(r) ==
  /\ pc[r] = "project"
  /\ \/ ~projected /\ projected' = TRUE /\ Goto(r, "process") /\ UNCHANGED verdict
     \/ UNCHANGED projected /\ Decide(r, ProjectionLost) /\ Goto(r, "finish")
  /\ UNCHANGED <<job, abandoned, abandoner, prepared, committed, recorded,
                 children, committer, mode, seen, disturbed>>

\* Post-commit work: processors record terminal rows, children are closed or
\* not; a failure is a warning, an unknown outcome is not.
Process(r) ==
  /\ pc[r] = "process"
  /\ recorded' \in {recorded, TRUE}
  /\ \E C \in SUBSET Closures : children' = children \cup C
  /\ \E v \in {"SUCCEEDED", "NEEDS_RECONCILIATION"} : Decide(r, v)
  /\ Goto(r, "finish")
  /\ UNCHANGED <<job, abandoned, abandoner, prepared, committed, projected,
                 committer, mode, seen, disturbed>>

-----------------------------------------------------------------------------
(* finishPlanApplyJob                                                       *)

\* UpdateJob: the revision moves and the lease is cleared.
Updated(s) ==
  [state |-> s, revision |-> job.revision + 1, attempt |-> job.attempt,
   fence |-> job.fence, leased |-> FALSE]

\* Mutant: any outcome may follow any other.
AnyTransition(s, v) == TRUE

\* validJobTransition, to an outcome of an execution or of a replay.
ValidTransition(s, v) == s = v \/ s \in {"RUNNING", "NEEDS_RECONCILIATION"}

\* UpdateJob compares the revision, not the lease.
Finish(r) ==
  /\ pc[r] = "finish"
  /\ job' = IF job.revision = seen[r] /\ ValidTransition(job.state, verdict[r])
            THEN Updated(verdict[r]) ELSE job
  /\ Leave(r)
  /\ UNCHANGED <<abandoned, abandoner, durable, committer, disturbed>>

-----------------------------------------------------------------------------
(* Disturbances.                                                            *)

Disturb == faults < MaxFaults /\ faults' = faults + 1

\* The request's context has ended, or the catalog refuses the write.
FinishLost(r) ==
  /\ pc[r] = "finish"
  /\ Disturb
  /\ Leave(r)
  /\ UNCHANGED <<job, abandoned, abandoner, durable, committer, overtaken>>

Executing(r) == pc[r] = "reread" \/ mode[r] \in {"first", "recover"}

\* The ten-minute lease is never renewed: it runs out after a kill, or under
\* an execution that takes longer.
LeaseRunsOut ==
  /\ job.leased
  /\ job' = [job EXCEPT !.leased = FALSE]
  /\ IF \E r \in Request : Executing(r)
     THEN Disturb /\ overtaken' = TRUE
     ELSE UNCHANGED disturbed
  /\ UNCHANGED <<abandoned, abandoner, durable, committer, pc, mode, seen, verdict>>

\* handleJobCancel: a queued job is cancelled; a running one keeps running,
\* but the update clears its lease and moves its revision.
CancelJob ==
  /\ job.state # Nothing /\ ~JobTerminal(job.state)
  /\ Disturb
  /\ job' = Updated(IF job.state = "QUEUED" THEN "CANCELLED" ELSE job.state)
  /\ overtaken' = (overtaken \/ \E r \in Request : Executing(r))
  /\ UNCHANGED <<abandoned, abandoner, durable, committer, pc, mode, seen, verdict>>

\* handlePlanAbandon checks, outside its insert, that nothing was applied.
CheckAbandon ==
  /\ ~abandoned /\ ~abandoner
  /\ job.state = Nothing
  /\ abandoner' = TRUE
  /\ UNCHANGED <<job, abandoned, durable, committer, pc, mode, seen, verdict, disturbed>>

MarkAbandoned ==
  /\ abandoner
  /\ abandoner' = FALSE /\ abandoned' = TRUE
  /\ UNCHANGED <<job, durable, committer, pc, mode, seen, verdict, disturbed>>

\* The daemon is killed and restarted.
Kill ==
  /\ \E r \in Request : pc[r] # "idle"
  /\ Disturb
  /\ pc' = [r \in Request |-> "idle"]
  /\ mode' = [r \in Request |-> Nothing]
  /\ seen' = [r \in Request |-> 0]
  /\ verdict' = [r \in Request |-> Nothing]
  /\ committer' = Nothing
  /\ abandoner' = FALSE
  /\ UNCHANGED <<job, abandoned, durable, overtaken>>

-----------------------------------------------------------------------------
Step(r) ==
  \/ Begin(r) \/ InsertJob(r) \/ ReadJob(r) \/ AcquireLease(r) \/ RereadJob(r)
  \/ Reconcile(r) \/ CloseChild(r) \/ Complete(r)
  \/ Capture(r) \/ PlacePrepared(r) \/ PlaceCommit(r) \/ Project(r)
  \/ Process(r) \/ Finish(r)

ApplyNext ==
  \/ \E r \in Request : Step(r) \/ FinishLost(r)
  \/ LeaseRunsOut \/ CancelJob \/ CheckAbandon \/ MarkAbandoned \/ Kill

ApplySpec == ApplyInit /\ [][ApplyNext]_applyVars

\* Requests are served, a client repeats plan.apply until it is answered, and
\* a lease that nobody renews runs out.
FairSpec ==
  ApplySpec /\ WF_applyVars(LeaseRunsOut) /\ \A r \in Request : WF_applyVars(Step(r))

-----------------------------------------------------------------------------
(* Properties.                                                              *)

\* A plan reported as applied is published, and the catalog knows it.
SucceededIsPublished == job.state = "SUCCEEDED" => committed /\ projected

\* An execution nothing interfered with, and that is recorded as failed, left
\* no publication behind: every error after the commit became durable is
\* reported as an unknown outcome or recovered from.
UndisturbedFailureIsHonest ==
  faults = 0 /\ job.state = "FAILED" => ~committed

\* A recorded success, failure or cancellation is never revised, whoever still
\* runs.  An unknown outcome is only promoted, and only once the commit, its
\* projection and its children are all durable - as long as no executor lost
\* the lease: one that did may re-read the job at a later revision than the
\* one it leased (claimPlanApplyJob) and execute on top of that outcome.
OutcomeIsFinal ==
  [][/\ job.state \in Settled => job'.state = job.state
     /\ job.state = "NEEDS_RECONCILIATION" /\ job'.state # job.state /\ ~overtaken =>
          /\ job'.state = "SUCCEEDED"
          /\ committed /\ projected /\ Missing = {}]_applyVars

\* A job that was started comes to an outcome, provided it has more attempts
\* than there are disturbances: killed, overrun and cancelled executions are
\* taken over.
ApplySettles ==
  [](faults < MaxAttempts) =>
    (job.state \in {"QUEUED", "RUNNING"} ~> job.state \in Terminal \/ abandoned)

\* ingest.go: once the publication is durable, what fails after it is a
\* warning and not an ingest failure.
FailedMeansUnpublished == job.state = "FAILED" => ~committed

\* plan_ops.go: the marker "marks one unapplied plan abandoned", and apply
\* refuses an abandoned plan.
AbandonedMeansUnapplied == ~(abandoned /\ job.state = "SUCCEEDED")
=============================================================================

---------------------------- MODULE ProcessorRetry ----------------------------
(***************************************************************************)
(* The PROCESSOR_RETRY job of one plan (exact/processor_retry.go,           *)
(* processor/host.go RetryPublication, the job lease of sqlite/records.go). *)
(* The ingest has left a FAILED row of every target and queued the job.     *)
(* Workers of several daemons list it, claim it under an expiring lease,    *)
(* run the targets that have not succeeded, insert one row per run, sign    *)
(* the attempt and the fact closure, and record an outcome.  A worker may   *)
(* be killed or paused past its lease, a user may cancel the job, and the   *)
(* answer of a publication may be lost.                                     *)
(*                                                                         *)
(* Publications exclude one another (module Publication), so one of them is *)
(* a step here; what they do beside runs that land late is module           *)
(* ChildClosures.  INAPPLICABLE rows are SUCCEEDED rows without an          *)
(* artifact, CANCELLED rows are FAILED.  The runs of a subject start in the *)
(* order of their rounds, which therefore stand for their start times.      *)
(***************************************************************************)
EXTENDS Naturals

CONSTANTS
  Subject,       \* the targets
  Worker,        \* retry workers
  None,          \* no worker, no target
  MaxAttempts,   \* Job.MaxAttempts
  MaxFaults      \* bound on kills and requests to cancel

ASSUME NoneAssumption == None \notin Worker \cup Subject
ASSUME MaxAttemptsAssumption == MaxAttempts \in Nat \ {0}
ASSUME MaxFaultsAssumption == MaxFaults \in Nat

VARIABLES
  rows,      \* processor_attempts: the ingest's and the retry's
  signed,    \* the rows of the newest attempt closure
  filed,     \* the rows whose artifacts the newest fact closure has
  job,       \* the row of the job
  step,      \* where each worker is in runProcessorRetryJob
  held,      \* what it knows of the job, and the target it is running
  latest,    \* the rows its RetryPublication has listed
  left,      \* the targets it has not been through
  issue,     \* processErr
  verdict,   \* the state it will record
  faults     \* kills and requests to cancel so far

children == <<signed, filed>>
knowledge == <<held, latest, left, issue, verdict>>
vars == <<rows, children, job, step, knowledge, faults>>

Row == [subject: Subject, round: 0..MaxAttempts, status: {"SUCCEEDED", "FAILED"}]
Settled == {"SUCCEEDED", "FAILED", "CANCELLED"}
Claimable == {"QUEUED", "RUNNING", "NEEDS_RECONCILIATION"}
Verdict == {"QUEUED", "SUCCEEDED", "FAILED", "NEEDS_RECONCILIATION"}
Steps == {"idle", "claim", "reread", "input", "reconcile", "retry", "run",
          "processed", "closing", "signed", "binding", "finish", "record"}

Nothing ==
  [revision |-> 0, attempt |-> 0, fence |-> 0, reconcile |-> FALSE, target |-> None]

TypeOK ==
  /\ rows \subseteq Row
  /\ signed \subseteq rows /\ filed \subseteq rows
  /\ job \in [state: Settled \cup Claimable, revision: Nat,
              attempt: 0..MaxAttempts, fence: 0..MaxAttempts,
              holder: Worker \cup {None}, live: BOOLEAN]
  /\ step \in [Worker -> Steps]
  /\ held \in [Worker -> [revision: Nat, attempt: 0..MaxAttempts,
                          fence: 0..MaxAttempts, reconcile: BOOLEAN,
                          target: Subject \cup {None}]]
  /\ latest \in [Worker -> SUBSET Row]
  /\ left \in [Worker -> SUBSET Subject]
  /\ issue \in [Worker -> {"none", "retryable", "final"}]
  /\ verdict \in [Worker -> Verdict \cup {"none"}]
  /\ faults \in 0..MaxFaults

\* scheduleProcessorRetry follows the ingest's attempt closure, whose failure
\* is a warning; the ingest's fact closure follows it.
Init ==
  /\ rows = [subject: Subject, round: {0}, status: {"FAILED"}]
  /\ signed \in {rows, {}}
  /\ filed = {}
  /\ job = [state |-> "QUEUED", revision |-> 1, attempt |-> 0, fence |-> 0,
            holder |-> None, live |-> FALSE]
  /\ step = [w \in Worker |-> "idle"]
  /\ held = [w \in Worker |-> Nothing]
  /\ latest = [w \in Worker |-> {}]
  /\ left = [w \in Worker |-> {}]
  /\ issue = [w \in Worker |-> "none"]
  /\ verdict = [w \in Worker |-> "none"]
  /\ faults = 0

-----------------------------------------------------------------------------
(* The job's row.                                                           *)

\* Mutants: a claim does not look at the attempts; only queued jobs are taken.
AnyAttempt == job.state \in Claimable /\ ~job.live
QueuedOnly == job.state = "QUEUED" /\ job.attempt < MaxAttempts /\ ~job.live

\* ListClaimableJobs and the WHERE of AcquireJobLease.
CanClaim == job.state \in Claimable /\ job.attempt < MaxAttempts /\ ~job.live

\* ValidateJobLease and RenewJobLease: the lease token names the worker and
\* the fence.
HasLease(w) ==
  /\ job.state = "RUNNING" /\ job.live
  /\ job.holder = w /\ job.fence = held[w].fence

\* Mutant: the outcome is written whatever has happened to the row.
AnyRevision(w) == TRUE

\* UpdateJob compares the revision, not the fence.
SameRevision(w) == job.revision = held[w].revision

\* UpdateJob clears the lease.
Updated(state, attempt) ==
  [state |-> state, revision |-> job.revision + 1, attempt |-> attempt,
   fence |-> job.fence, holder |-> None, live |-> FALSE]

-----------------------------------------------------------------------------
(* runProcessorRetryJob                                                     *)

At(w, s) == step' = [step EXCEPT ![w] = s]

\* The worker is through with the job, or has lost it.
Forget(w) ==
  /\ At(w, "idle")
  /\ held' = [held EXCEPT ![w] = Nothing]
  /\ latest' = [latest EXCEPT ![w] = {}]
  /\ left' = [left EXCEPT ![w] = {}]
  /\ issue' = [issue EXCEPT ![w] = "none"]
  /\ verdict' = [verdict EXCEPT ![w] = "none"]

Decide(w, v) ==
  /\ At(w, "finish")
  /\ verdict' = [verdict EXCEPT ![w] = v]
  /\ UNCHANGED <<held, latest, left, issue>>

\* A validation of the lease: the worker goes on, or returns.
GoOn(w, s) ==
  IF HasLease(w) THEN At(w, s) /\ UNCHANGED knowledge ELSE Forget(w)

List(w) ==
  /\ step[w] = "idle" /\ CanClaim
  /\ held' = [held EXCEPT ![w] =
                [revision |-> job.revision, attempt |-> 0, fence |-> 0,
                 reconcile |-> job.state = "NEEDS_RECONCILIATION", target |-> None]]
  /\ At(w, "claim")
  /\ UNCHANGED <<rows, children, job, latest, left, issue, verdict, faults>>

\* AcquireJobLease at the revision that was listed.
Claim(w) ==
  /\ step[w] = "claim"
  /\ \/ /\ CanClaim /\ SameRevision(w)
        /\ job' = [state |-> "RUNNING", revision |-> job.revision + 1,
                   attempt |-> job.attempt + 1, fence |-> job.fence + 1,
                   holder |-> w, live |-> TRUE]
        /\ held' = [held EXCEPT ![w].fence = job.fence + 1]
        /\ At(w, "reread")
        /\ UNCHANGED <<latest, left, issue, verdict>>
     \/ /\ ~(CanClaim /\ SameRevision(w))
        /\ Forget(w)
        /\ UNCHANGED job
  /\ UNCHANGED <<rows, children, faults>>

\* GetJob, outside the transaction of the claim.
Reread(w) ==
  /\ step[w] = "reread"
  /\ held' = [held EXCEPT ![w].revision = job.revision, ![w].attempt = job.attempt]
  /\ At(w, "input")
  /\ UNCHANGED <<rows, children, job, latest, left, issue, verdict, faults>>

\* validateProcessorRetryInput, any error of which is final; a job that needs
\* reconciliation then runs nothing, another lists the rows of its targets.
CheckInput(w) ==
  /\ step[w] = "input"
  /\ \/ Decide(w, "FAILED")
     \/ held[w].reconcile /\ GoOn(w, "reconcile")
     \/ /\ ~held[w].reconcile
        /\ latest' = [latest EXCEPT ![w] = rows]
        /\ left' = [left EXCEPT ![w] = Subject]
        /\ At(w, "retry")
        /\ UNCHANGED <<held, issue, verdict>>
  /\ UNCHANGED <<rows, children, job, faults>>

\* PublishProcessorAttemptClosure: OK, an error that left nothing, or an
\* unknown outcome that may have left the closure.
CloseAttempts(outcome) ==
  \/ outcome = "OK" /\ signed' = rows
  \/ outcome = "ERROR" /\ UNCHANGED signed
  \/ outcome = "UNKNOWN" /\ signed' \in {signed, rows}

\* A reconciling worker signs the attempts before anything else; every error
\* asks for reconciliation again.
Reconcile(w) ==
  /\ step[w] = "reconcile"
  /\ \/ CloseAttempts("OK") /\ At(w, "processed") /\ UNCHANGED knowledge
     \/ /\ CloseAttempts("ERROR") \/ CloseAttempts("UNKNOWN")
        /\ Decide(w, "NEEDS_RECONCILIATION")
  /\ UNCHANGED <<rows, filed, job, faults>>

-----------------------------------------------------------------------------
(* RetryPublication                                                         *)

\* The last row of a subject that the worker has listed.
Newest(w, s) ==
  CHOOSE r \in {o \in latest[w] : o.subject = s} :
    \A o \in latest[w] : o.subject = s => o.round <= r.round

\* Mutant: a target that has succeeded is run again.
NeverDone(w, s) == FALSE

Done(w, s) == Newest(w, s).status = "SUCCEEDED"

\* retryAttemptAlreadyRecorded
Recorded(w, s) == ~Done(w, s) /\ Newest(w, s).round = held[w].attempt

\* A success is not run again, and a failure of this very attempt is an issue.
SkipTarget(w, s) ==
  /\ step[w] = "retry" /\ s \in left[w]
  /\ Done(w, s) \/ Recorded(w, s)
  /\ left' = [left EXCEPT ![w] = @ \ {s}]
  /\ issue' = IF Done(w, s) THEN issue ELSE [issue EXCEPT ![w] = "retryable"]
  /\ UNCHANGED <<rows, children, job, step, held, latest, verdict, faults>>

\* The lease is validated and the source read; an error of the reading ends
\* the loop and names no targets.
RunTarget(w, s) ==
  /\ step[w] = "retry" /\ s \in left[w]
  /\ ~Done(w, s) /\ ~Recorded(w, s)
  /\ \/ /\ HasLease(w)
        /\ left' = [left EXCEPT ![w] = @ \ {s}]
        /\ held' = [held EXCEPT ![w].target = s]
        /\ At(w, "run")
        /\ UNCHANGED <<latest, issue, verdict>>
     \/ /\ HasLease(w)
        /\ issue' = [issue EXCEPT ![w] = "final"]
        /\ At(w, "processed")
        /\ UNCHANGED <<held, latest, left, verdict>>
     \/ ~HasLease(w) /\ Forget(w)
  /\ UNCHANGED <<rows, children, job, faults>>

\* Mutant: the row is inserted without looking at the lease.
AnyoneRecords(w) == TRUE

MayRecord(w) == HasLease(w)

\* The run ends and its row is inserted under the job's lease, or refused.
RunEnds(w) ==
  /\ step[w] = "run"
  /\ \/ /\ MayRecord(w)
        /\ \E status \in {"SUCCEEDED", "FAILED"} :
             /\ rows' = rows \cup {[subject |-> held[w].target,
                                    round |-> held[w].attempt, status |-> status]}
             /\ issue' = IF status = "SUCCEEDED" THEN issue
                         ELSE [issue EXCEPT ![w] = "retryable"]
     \/ /\ UNCHANGED rows
        /\ issue' = [issue EXCEPT ![w] = "retryable"]
  /\ held' = [held EXCEPT ![w].target = None]
  /\ At(w, "retry")
  /\ UNCHANGED <<children, job, latest, left, verdict, faults>>

RetryEnds(w) ==
  /\ step[w] = "retry" /\ left[w] = {}
  /\ At(w, "processed")
  /\ UNCHANGED <<rows, children, job, knowledge, faults>>

-----------------------------------------------------------------------------
(* Signing and recording.                                                   *)

\* The lease is validated before each of the two closures.
SignAttempts(w) ==
  /\ step[w] = "processed" /\ GoOn(w, "closing")
  /\ UNCHANGED <<rows, children, job, faults>>

\* An unknown outcome is left to reconciliation, an error is final.
AttemptsSigned(w) ==
  /\ step[w] = "closing"
  /\ \/ CloseAttempts("OK") /\ At(w, "signed") /\ UNCHANGED knowledge
     \/ CloseAttempts("ERROR") /\ Decide(w, "FAILED")
     \/ CloseAttempts("UNKNOWN") /\ Decide(w, "NEEDS_RECONCILIATION")
  /\ UNCHANGED <<rows, filed, job, faults>>

SignFacts(w) ==
  /\ step[w] = "signed" /\ GoOn(w, "binding")
  /\ UNCHANGED <<rows, children, job, faults>>

Admitted(R) == {r \in R : r.status = "SUCCEEDED"}

\* PublishPortableFactClosure
CloseFacts(outcome) ==
  \/ outcome = "OK" /\ filed' = Admitted(rows)
  \/ outcome = "ERROR" /\ UNCHANGED filed
  \/ outcome = "UNKNOWN" /\ filed' \in {filed, Admitted(rows)}

\* Mutant: an unknown outcome counts as a success.
UnknownIsDone(outcome) == outcome \in {"OK", "UNKNOWN"}

IsDone(outcome) == outcome = "OK"

\* Failures that name targets queue the job again while it has attempts.
Result(w) ==
  CASE issue[w] = "none" -> "SUCCEEDED"
    [] issue[w] = "retryable" /\ held[w].attempt < MaxAttempts -> "QUEUED"
    [] OTHER -> "FAILED"

FactsSigned(w) ==
  /\ step[w] = "binding"
  /\ \E outcome \in {"OK", "ERROR", "UNKNOWN"} :
       /\ CloseFacts(outcome)
       /\ Decide(w, CASE IsDone(outcome) -> Result(w)
                      [] outcome = "ERROR" -> "FAILED"
                      [] OTHER -> "NEEDS_RECONCILIATION")
  /\ UNCHANGED <<rows, signed, job, faults>>

\* finish: the keepalive is stopped and the lease validated ...
Finish(w) ==
  /\ step[w] = "finish" /\ GoOn(w, "record")
  /\ UNCHANGED <<rows, children, job, faults>>

\* ... and then the outcome recorded, in another transaction.
Record(w) ==
  /\ step[w] = "record"
  /\ job' = IF SameRevision(w) THEN Updated(verdict[w], held[w].attempt) ELSE job
  /\ Forget(w)
  /\ UNCHANGED <<rows, children, faults>>

-----------------------------------------------------------------------------
(* Disturbances.                                                            *)

Fault == faults < MaxFaults /\ faults' = faults + 1

\* The lease window ends while its holder is paused, or gone.
LeaseLapses ==
  /\ job.live
  /\ job' = [job EXCEPT !.live = FALSE]
  /\ UNCHANGED <<rows, children, step, knowledge, faults>>

\* handleJobCancel: a queued job is cancelled, a running one loses its lease.
CancelJob ==
  /\ job.state \in {"QUEUED", "RUNNING"}
  /\ Fault
  /\ job' = Updated(IF job.state = "QUEUED" THEN "CANCELLED" ELSE job.state,
                    job.attempt)
  /\ UNCHANGED <<rows, children, step, knowledge>>

KillWorker(w) ==
  /\ step[w] # "idle"
  /\ Fault
  /\ Forget(w)
  /\ UNCHANGED <<rows, children, job>>

-----------------------------------------------------------------------------
Work(w) ==
  \/ List(w) \/ Claim(w) \/ Reread(w) \/ CheckInput(w) \/ Reconcile(w)
  \/ \E s \in Subject : SkipTarget(w, s) \/ RunTarget(w, s)
  \/ RunEnds(w) \/ RetryEnds(w) \/ SignAttempts(w) \/ AttemptsSigned(w)
  \/ SignFacts(w) \/ FactsSigned(w) \/ Finish(w) \/ Record(w)

Next ==
  \/ \E w \in Worker : Work(w) \/ KillWorker(w)
  \/ LeaseLapses \/ CancelJob

Spec == Init /\ [][Next]_vars

\* The holder of the lease is not at work on it any more.
Orphaned == job.live /\ step[job.holder] = "idle"

\* Workers poll and go on, and a lease that nobody renews runs out.
FairSpec ==
  /\ Spec
  /\ \A w \in Worker : WF_vars(Work(w))
  /\ WF_vars(Orphaned /\ LeaseLapses)

-----------------------------------------------------------------------------
(* Properties.                                                              *)

\* Whoever runs a target: an attempt of the job leaves at most one row of it,
\* and nothing is run once it has succeeded (RetryPublication: "Successful and
\* inapplicable nodes are never rerun").
RetryOnce ==
  \A r, o \in rows :
    r.subject = o.subject /\ r # o =>
      r.round # o.round /\ (r.round < o.round => r.status = "FAILED")

\* A job that succeeded has nothing left to sign: its rows are all in the
\* newest attempt closure and its artifacts in the newest fact closure.
SucceededIsSigned ==
  job.state = "SUCCEEDED" => signed = rows /\ filed = Admitted(rows)

\* A recorded outcome stays, and no worker that is still at it, however late,
\* adds a row to it.
OutcomeIsFinal == [][job.state \in Settled => UNCHANGED <<job, rows>>]_vars

\* The fence counts the claims and so does the attempt, whoever records what:
\* a worker that writes back the attempt it has read takes none away.
AttemptsAreClaims == job.attempt = job.fence

\* Kills and pauses do not lose a job: it is taken up until it is settled or
\* its attempts are used up.
RetrySettles == <>[](job.state \in Settled \/ job.attempt = MaxAttempts)

\* cli-and-mcp-contract.md: "SUCCEEDED: The requested contract completed and
\* all required checks passed": every target of the job has succeeded.
SucceededMeansRetried ==
  job.state = "SUCCEEDED" =>
    \A s \in Subject : \E r \in rows : r.subject = s /\ r.status = "SUCCEEDED"
=============================================================================

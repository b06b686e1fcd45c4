------------------------ MODULE ProcessorRetryProofs ------------------------
(***************************************************************************)
(* Proofs about ProcessorRetry, for every set of targets and workers, any   *)
(* number of attempts, kills and cancellations, and leases that lapse at    *)
(* any moment.                                                              *)
(***************************************************************************)
EXTENDS ProcessorRetry, TLAPS

\* Beyond the shape of the variables: where a target or a verdict is used it
\* is one.
Shape(w) ==
  /\ step[w] = "run" => held[w].target \in Subject
  /\ step[w] \in {"finish", "record"} => verdict[w] \in Verdict

\* Only a running job has a lease.
LeaseRuns == job.live => job.state = "RUNNING"

\* From the moment a worker has reread the job.
Read == {"input", "reconcile", "retry", "run", "processed", "closing", "signed",
         "binding", "finish", "record"}

\* No worker knows a revision that is still to come, and one that knows the
\* present revision knows the present attempt.  What it has reread before it
\* validated its lease may be the claim of another worker: only the lease tells.
Knows(w) ==
  /\ held[w].revision <= job.revision
  /\ step[w] \in Read /\ SameRevision(w) => held[w].attempt = job.attempt
  /\ step[w] \in Read /\ HasLease(w) => SameRevision(w)
  /\ step[w] = "record" /\ SameRevision(w) =>
       job.state = "RUNNING" /\ job.holder = w /\ job.fence = held[w].fence

RowsOf(R, s) == {r \in R : r.subject = s}
NotYet(s) == \A r \in RowsOf(rows, s) : r.round < job.attempt

\* Nobody but the holder of the lease inserts rows, so what it has listed of
\* the targets it has not been through is what there is.
Current(w) ==
  HasLease(w) =>
    /\ step[w] \in {"reread", "input", "reconcile"} => \A s \in Subject : NotYet(s)
    /\ step[w] \in {"retry", "run"} =>
         \A s \in left[w] : NotYet(s) /\ RowsOf(latest[w], s) = RowsOf(rows, s)
    /\ step[w] = "run" =>
         /\ NotYet(held[w].target) /\ held[w].target \notin left[w]
         /\ \A r \in RowsOf(rows, held[w].target) : r.status = "FAILED"

Complete == signed = rows /\ filed = Admitted(rows)

\* What it has signed and will report is so as long as it may report it.
Reports(w) ==
  /\ step[w] \in {"signed", "binding"} /\ HasLease(w) => signed = rows
  /\ step[w] = "finish" /\ verdict[w] = "SUCCEEDED" /\ HasLease(w) => Complete
  /\ step[w] = "record" /\ verdict[w] = "SUCCEEDED" /\ SameRevision(w) => Complete

Ok(w) == Shape(w) /\ Knows(w) /\ Current(w) /\ Reports(w)

\* No row is of an attempt that is still to come.
RowsAreClaimed == \A r \in rows : r.round <= job.attempt

IInv ==
  /\ TypeOK
  /\ LeaseRuns
  /\ AttemptsAreClaims
  /\ RowsAreClaimed
  /\ RetryOnce
  /\ SucceededIsSigned
  /\ \A w \in Worker : Ok(w)

-----------------------------------------------------------------------------
(* Types *)

Jobs == [state: Settled \cup Claimable, revision: Nat, attempt: 0..MaxAttempts,
         fence: 0..MaxAttempts, holder: Worker \cup {None}, live: BOOLEAN]
Known == [revision: Nat, attempt: 0..MaxAttempts, fence: 0..MaxAttempts,
          reconcile: BOOLEAN, target: Subject \cup {None}]

LEMMA Verdicts ==
    ASSUME TypeOK, NEW w \in Worker
    PROVE  Result(w) \in Verdict
  BY DEF Result, Verdict

LEMMA InitTypes == Init => TypeOK
<1> SUFFICES ASSUME Init PROVE TypeOK
  OBVIOUS
<1>1. rows \subseteq Row
  BY MaxAttemptsAssumption DEF Init, Row
<1>2. job \in Jobs
  BY MaxAttemptsAssumption DEF Init, Jobs, Settled, Claimable
<1>3. Nothing \in Known
  BY MaxAttemptsAssumption DEF Nothing, Known
<1>4. faults \in 0..MaxFaults
  BY MaxFaultsAssumption DEF Init
<1> QED  BY <1>1, <1>2, <1>3, <1>4 DEF Init, TypeOK, Jobs, Known, Steps, Verdict

LEMMA ForgetTypes ==
    ASSUME TypeOK, NEW w \in Worker, Forget(w)
    PROVE  /\ step' \in [Worker -> Steps]
           /\ held' \in [Worker -> Known]
           /\ latest' \in [Worker -> SUBSET Row]
           /\ left' \in [Worker -> SUBSET Subject]
           /\ issue' \in [Worker -> {"none", "retryable", "final"}]
           /\ verdict' \in [Worker -> Verdict \cup {"none"}]
<1>1. Nothing \in Known
  BY MaxAttemptsAssumption DEF Nothing, Known
<1> QED  BY <1>1 DEF Forget, At, TypeOK, Jobs, Known, Steps, Verdict

LEMMA DecideTypes ==
    ASSUME TypeOK, NEW w \in Worker, NEW v \in Verdict, Decide(w, v)
    PROVE  /\ step' \in [Worker -> Steps] /\ verdict' \in [Worker -> Verdict \cup {"none"}]
           /\ UNCHANGED <<held, latest, left, issue>>
           /\ step'[w] = "finish" /\ verdict'[w] = v
           /\ \A o \in Worker \ {w} : step'[o] = step[o] /\ verdict'[o] = verdict[o]
  BY DEF Decide, At, TypeOK, Jobs, Known, Steps

LEMMA UpdatedTypes ==
    ASSUME TypeOK, NEW s \in Settled \cup Claimable, NEW a \in 0..MaxAttempts
    PROVE  /\ Updated(s, a) \in
                Jobs
           /\ Updated(s, a).state = s /\ Updated(s, a).revision = job.revision + 1
           /\ Updated(s, a).attempt = a /\ Updated(s, a).fence = job.fence
           /\ ~Updated(s, a).live
<1>1. Updated(s, a) \in
        Jobs
  BY DEF Updated, TypeOK, Jobs, Known
<1>2. /\ Updated(s, a).state = s /\ Updated(s, a).revision = job.revision + 1
      /\ Updated(s, a).attempt = a /\ Updated(s, a).fence = job.fence
  BY DEF Updated, TypeOK, Jobs, Known
<1>3. ~Updated(s, a).live
  BY DEF Updated, TypeOK, Jobs, Known
<1> QED  BY <1>1, <1>2, <1>3

LEMMA WorkTypes ==
    ASSUME IInv, NEW w \in Worker, Work(w)
    PROVE  TypeOK'
<1>0. TypeOK /\ Shape(w) /\ AttemptsAreClaims
  BY DEF IInv, Ok
<1>1. CASE List(w)
  <2>1. [revision |-> job.revision, attempt |-> 0, fence |-> 0,
         reconcile |-> job.state = "NEEDS_RECONCILIATION", target |-> None] \in Known
    BY <1>0, MaxAttemptsAssumption DEF TypeOK, Jobs, Known
  <2> QED  BY <1>0, <1>1, <2>1 DEF List, At, children, TypeOK, Jobs, Known, Steps
<1>2. CASE Claim(w)
  <2>1. CASE CanClaim /\ SameRevision(w)
    <3>1. job.fence + 1 \in 0..MaxAttempts /\ job.attempt + 1 \in 0..MaxAttempts
      BY <1>0, <2>1, MaxAttemptsAssumption DEF CanClaim, AttemptsAreClaims, TypeOK, Jobs, Known
    <3>2. job' = [state |-> "RUNNING", revision |-> job.revision + 1,
                  attempt |-> job.attempt + 1, fence |-> job.fence + 1,
                  holder |-> w, live |-> TRUE]
          /\ held' = [held EXCEPT ![w].fence = job.fence + 1] /\ At(w, "reread")
          /\ UNCHANGED <<latest, left, issue, verdict, rows, children, faults>>
      BY <1>2, <2>1 DEF Claim
    <3>3. job' \in Jobs
      BY <1>0, <3>1, <3>2 DEF TypeOK, Jobs, Known, Claimable
    <3>4. held' \in [Worker -> Known]
      BY <1>0, <3>1, <3>2 DEF TypeOK, Jobs, Known
    <3> QED  BY <1>0, <3>2, <3>3, <3>4 DEF At, children, TypeOK, Jobs, Known, Steps
  <2>2. CASE ~(CanClaim /\ SameRevision(w))
    BY <1>0, <1>2, <2>2, ForgetTypes DEF Claim, children, TypeOK, Jobs, Known
  <2> QED  BY <2>1, <2>2
<1>3. CASE Reread(w)
  <2>1. held' \in [Worker -> Known]
    <3>1. job.revision \in Nat /\ job.attempt \in 0..MaxAttempts
      BY <1>0 DEF TypeOK, Jobs, Known
    <3>2. held[w] \in Known
      BY <1>0 DEF TypeOK, Known
    <3>3. [held[w] EXCEPT !.revision = job.revision, !.attempt = job.attempt] \in Known
      BY <3>1, <3>2 DEF Known
    <3>4. held' = [held EXCEPT ![w] = [held[w] EXCEPT !.revision = job.revision,
                                                      !.attempt = job.attempt]]
      BY <1>3 DEF Reread
    <3> QED  BY <1>0, <3>3, <3>4 DEF TypeOK, Known
  <2> QED  BY <1>0, <1>3, <2>1 DEF Reread, At, children, TypeOK, Jobs, Known, Steps
<1>4. CASE CheckInput(w)
  <2>1. CASE Decide(w, "FAILED")
    BY <1>0, <1>4, <2>1, DecideTypes DEF CheckInput, children, TypeOK, Jobs, Known, Verdict
  <2>2. CASE GoOn(w, "reconcile")
    BY <1>0, <1>4, <2>2, ForgetTypes
       DEF CheckInput, GoOn, At, knowledge, children, TypeOK, Jobs, Known, Steps
  <2>3. CASE /\ latest' = [latest EXCEPT ![w] = rows] /\ left' = [left EXCEPT ![w] = Subject]
             /\ At(w, "retry") /\ UNCHANGED <<held, issue, verdict>>
    BY <1>0, <1>4, <2>3 DEF CheckInput, At, children, TypeOK, Jobs, Known, Steps
  <2> QED  BY <1>4, <2>1, <2>2, <2>3 DEF CheckInput
<1>5. CASE Reconcile(w)
  <2>1. signed' \subseteq rows
    BY <1>0, <1>5 DEF Reconcile, CloseAttempts, TypeOK, Jobs, Known
  <2>2. CASE At(w, "processed") /\ UNCHANGED knowledge
    BY <1>0, <1>5, <2>1, <2>2 DEF Reconcile, At, knowledge, TypeOK, Jobs, Known, Steps
  <2>3. CASE Decide(w, "NEEDS_RECONCILIATION")
    BY <1>0, <1>5, <2>1, <2>3, DecideTypes DEF Reconcile, TypeOK, Jobs, Known, Verdict
  <2> QED  BY <1>5, <2>2, <2>3 DEF Reconcile
<1>6. ASSUME NEW s \in Subject, SkipTarget(w, s) PROVE TypeOK'
  BY <1>0, <1>6 DEF SkipTarget, children, TypeOK, Jobs, Known
<1>7. ASSUME NEW s \in Subject, RunTarget(w, s) PROVE TypeOK'
  <2>1. CASE Forget(w)
    BY <1>0, <1>7, <2>1, ForgetTypes DEF RunTarget, children, TypeOK, Jobs, Known
  <2>2. CASE /\ left' = [left EXCEPT ![w] = @ \ {s}] /\ held' = [held EXCEPT ![w].target = s]
             /\ At(w, "run") /\ UNCHANGED <<latest, issue, verdict>>
    <3>1. held' \in [Worker -> Known]
      BY <1>0, <2>2 DEF TypeOK, Jobs, Known
    <3> QED  BY <1>0, <1>7, <2>2, <3>1 DEF RunTarget, At, children, TypeOK, Jobs, Known, Steps
  <2>3. CASE /\ issue' = [issue EXCEPT ![w] = "final"] /\ At(w, "processed")
             /\ UNCHANGED <<held, latest, left, verdict>>
    BY <1>0, <1>7, <2>3 DEF RunTarget, At, children, TypeOK, Jobs, Known, Steps
  <2> QED  BY <1>7, <2>1, <2>2, <2>3 DEF RunTarget
<1>8. CASE RunEnds(w)
  <2>1. rows \subseteq rows' /\ rows' \subseteq Row
    BY <1>0, <1>8 DEF RunEnds, Shape, TypeOK, Jobs, Known, Row
  <2>2. issue' \in [Worker -> {"none", "retryable", "final"}]
    BY <1>0, <1>8 DEF RunEnds, TypeOK, Jobs, Known
  <2>3. held' \in [Worker -> Known]
    BY <1>0, <1>8 DEF RunEnds, TypeOK, Jobs, Known
  <2> QED  BY <1>0, <1>8, <2>1, <2>2, <2>3
     DEF RunEnds, At, children, TypeOK, Jobs, Known, Steps
<1>9. CASE RetryEnds(w)
  BY <1>0, <1>9 DEF RetryEnds, At, children, knowledge, TypeOK, Jobs, Known, Steps
<1>10. CASE SignAttempts(w) \/ SignFacts(w) \/ Finish(w)
  BY <1>0, <1>10, ForgetTypes
     DEF SignAttempts, SignFacts, Finish, GoOn, At, children, knowledge,
     TypeOK, Jobs, Known, Steps
<1>11. CASE AttemptsSigned(w)
  <2>1. signed' \subseteq rows
    BY <1>0, <1>11 DEF AttemptsSigned, CloseAttempts, TypeOK, Jobs, Known
  <2>2. CASE At(w, "signed") /\ UNCHANGED knowledge
    BY <1>0, <1>11, <2>1, <2>2 DEF AttemptsSigned, At, knowledge, TypeOK, Jobs, Known, Steps
  <2>3. CASE \E v \in Verdict : Decide(w, v)
    BY <1>0, <1>11, <2>1, <2>3, DecideTypes DEF AttemptsSigned, TypeOK, Jobs, Known
  <2> QED  BY <1>11, <2>2, <2>3 DEF AttemptsSigned, Verdict
<1>12. CASE FactsSigned(w)
  <2>1. filed' \subseteq rows
    BY <1>0, <1>12 DEF FactsSigned, CloseFacts, Admitted, TypeOK, Jobs, Known
  <2>2. PICK v \in Verdict : Decide(w, v)
    BY <1>0, <1>12, Verdicts DEF FactsSigned, Verdict
  <2> QED  BY <1>0, <1>12, <2>1, <2>2, DecideTypes DEF FactsSigned, TypeOK, Jobs, Known
<1>13. CASE Record(w)
  <2>1. verdict[w] \in Settled \cup Claimable /\ held[w].attempt \in 0..MaxAttempts
    BY <1>0, <1>13 DEF Record, Shape, TypeOK, Jobs, Known, Verdict, Settled, Claimable
  <2> QED  BY <1>0, <1>13, <2>1, UpdatedTypes, ForgetTypes
     DEF Record, children, TypeOK, Jobs, Known
<1> QED
  BY <1>1, <1>2, <1>3, <1>4, <1>5, <1>6, <1>7, <1>8, <1>9, <1>10, <1>11, <1>12, <1>13
  DEF Work

LEMMA OtherTypes ==
    ASSUME TypeOK, (\E w \in Worker : KillWorker(w)) \/ LeaseLapses \/ CancelJob
    PROVE  TypeOK'
<1>1. Fault => faults' \in 0..MaxFaults
  BY MaxFaultsAssumption DEF Fault, TypeOK, Jobs, Known
<1>2. ASSUME NEW w \in Worker, KillWorker(w) PROVE TypeOK'
  BY <1>1, <1>2, ForgetTypes DEF KillWorker, children, TypeOK, Jobs, Known
<1>3. CASE LeaseLapses
  BY <1>3 DEF LeaseLapses, children, knowledge, TypeOK, Jobs, Known
<1>4. CASE CancelJob
  <2>1. job' \in Jobs
    BY <1>4, UpdatedTypes DEF CancelJob, TypeOK, Jobs, Known, Settled, Claimable
  <2> QED  BY <1>1, <1>4, <2>1 DEF CancelJob, children, knowledge, TypeOK, Jobs, Known
<1> QED  BY <1>2, <1>3, <1>4

-----------------------------------------------------------------------------
(* A worker while others act *)

\* The job's row as others change it: not at all, its lease lapses, or it gets
\* a new revision that is not a lease of w.
JobBeside(w) ==
  \/ UNCHANGED job
  \/ ~job'.live /\ \A f \in DOMAIN job \ {"live"} : job'[f] = job[f]
  \/ /\ job'.revision > job.revision /\ job'.revision \in Nat
     /\ job'.live => job'.holder # w

\* The rows and what is signed of them.
ChildrenBeside(w) ==
  \/ /\ rows' = rows /\ signed' \in {signed, rows} /\ filed' \in {filed, Admitted(rows)}
  \/ /\ ~HasLease(w) /\ (step[w] = "record" => ~SameRevision(w))
     /\ job' = job

Untouched(w) ==
  /\ step'[w] = step[w] /\ held'[w] = held[w] /\ latest'[w] = latest[w]
  /\ left'[w] = left[w] /\ verdict'[w] = verdict[w]

\* No step gives a worker back a lease or a revision it does not have.
LEMMA LeaseBeside ==
    ASSUME IInv, NEW w \in Worker, Untouched(w), JobBeside(w), TypeOK'
    PROVE  /\ HasLease(w)' => HasLease(w)
           /\ SameRevision(w)' => SameRevision(w)
           /\ SameRevision(w)' \/ HasLease(w)' =>
                \A f \in DOMAIN job \ {"live"} : job'[f] = job[f]
<1>1. TypeOK /\ Knows(w)
  BY DEF IInv, Ok
<1>2. held[w].revision \in Nat /\ held[w].revision <= job.revision
  BY <1>1 DEF TypeOK, Knows
<1>3. CASE UNCHANGED job
  BY <1>3 DEF HasLease, SameRevision, Untouched
<1>4. CASE ~job'.live /\ \A f \in DOMAIN job \ {"live"} : job'[f] = job[f]
  BY <1>1, <1>4 DEF HasLease, SameRevision, Untouched, TypeOK
<1>5. CASE job'.revision > job.revision /\ job'.revision \in Nat /\ (job'.live => job'.holder # w)
  BY <1>1, <1>2, <1>5 DEF HasLease, SameRevision, Untouched, TypeOK
<1> QED  BY <1>3, <1>4, <1>5 DEF JobBeside

LEMMA OkBeside ==
    ASSUME IInv, NEW w \in Worker, Untouched(w), JobBeside(w), ChildrenBeside(w), TypeOK'
    PROVE  Ok(w)'
<1>1. TypeOK /\ Shape(w) /\ Knows(w) /\ Current(w) /\ Reports(w)
  BY DEF IInv, Ok
<1>2. /\ HasLease(w)' => HasLease(w)
      /\ SameRevision(w)' => SameRevision(w)
      /\ SameRevision(w)' \/ HasLease(w)' =>
           /\ job'.attempt = job.attempt /\ job'.state = job.state
           /\ job'.holder = job.holder /\ job'.fence = job.fence
           /\ job'.revision = job.revision
  BY <1>1, LeaseBeside DEF TypeOK
<1>3. Shape(w)'
  BY <1>1 DEF Shape, Untouched
<1>4. job'.revision >= job.revision
  <2>1. job.revision \in Nat /\ "revision" \in DOMAIN job \ {"live"}
    BY <1>1 DEF TypeOK
  <2> QED  BY <2>1 DEF JobBeside
<1>5. Knows(w)'
  <2>1. held[w].revision \in Nat /\ job.revision \in Nat /\ job'.revision \in Nat
    BY <1>1 DEF TypeOK
  <2>2. held'[w].revision <= job'.revision
    BY <1>1, <1>4, <2>1 DEF Knows, Untouched
  <2>3. HasLease(w)' => (SameRevision(w) => SameRevision(w)')
    BY <1>2 DEF SameRevision, Untouched
  <2> QED  BY <1>1, <1>2, <2>2, <2>3 DEF Knows, Untouched
<1>6. Current(w)'
  <2>1. CASE ~HasLease(w)'
    BY <2>1 DEF Current
  <2>2. CASE HasLease(w)'
    <3>1. rows' = rows /\ job'.attempt = job.attempt
      BY <1>2, <2>2 DEF ChildrenBeside
    <3> QED  BY <1>1, <1>2, <2>2, <3>1 DEF Current, NotYet, RowsOf, Untouched
  <2> QED  BY <2>1, <2>2
<1>7. Reports(w)'
  <2>1. CASE rows' = rows /\ signed' \in {signed, rows} /\ filed' \in {filed, Admitted(rows)}
    BY <1>1, <1>2, <2>1 DEF Reports, Complete, Admitted, Untouched
  <2>2. CASE ~HasLease(w) /\ (step[w] = "record" => ~SameRevision(w)) /\ job' = job
    BY <1>2, <2>2 DEF Reports, Untouched
  <2> QED  BY <2>1, <2>2 DEF ChildrenBeside
<1> QED  BY <1>3, <1>5, <1>6, <1>7 DEF Ok

-----------------------------------------------------------------------------
(* A worker's own steps *)

Others(w) == \A o \in Worker \ {w} : Untouched(o)

LEMMA ForgetLeaves ==
    ASSUME TypeOK, TypeOK', NEW w \in Worker, Forget(w)
    PROVE  Others(w) /\ Ok(w)'
<1>1. Others(w)
  BY DEF Forget, At, Others, Untouched, TypeOK
<1>2. step'[w] = "idle" /\ held'[w].revision = 0
  BY DEF Forget, At, Nothing, TypeOK
<1>3. job'.revision \in Nat
  BY DEF TypeOK
<1>4. Knows(w)'
  BY <1>2, <1>3 DEF Knows, Read
<1>5. Shape(w)' /\ Current(w)' /\ Reports(w)'
  BY <1>2 DEF Shape, Current, Reports
<1> QED  BY <1>1, <1>4, <1>5 DEF Ok

\* A step that leaves the job and the rows alone.
LEMMA QuietStep ==
    ASSUME IInv, TypeOK', NEW w \in Worker, Others(w), Ok(w)', UNCHANGED <<job, rows>>,
           signed' \in {signed, rows}, filed' \in {filed, Admitted(rows)}
    PROVE  IInv'
<1>1. ASSUME NEW o \in Worker PROVE Ok(o)'
  <2>1. CASE o = w
    BY <2>1
  <2>2. CASE o # w
    BY <2>2, OkBeside DEF Others, JobBeside, ChildrenBeside
  <2> QED  BY <2>1, <2>2
<1>2. LeaseRuns' /\ AttemptsAreClaims' /\ RowsAreClaimed' /\ RetryOnce'
  BY DEF IInv, LeaseRuns, AttemptsAreClaims, RowsAreClaimed, RetryOnce
<1>3. SucceededIsSigned'
  BY DEF IInv, SucceededIsSigned, Admitted
<1> QED  BY <1>1, <1>2, <1>3 DEF IInv

\* A worker that is through with the targets goes on.
Late == {"processed", "closing", "signed", "binding", "finish"}

LEMMA Advances ==
    ASSUME IInv, NEW w \in Worker, step[w] \in Read, step'[w] \in Late,
           held'[w] = held[w], UNCHANGED job,
           step'[w] = "finish" => verdict'[w] \in Verdict,
           step'[w] \in {"signed", "binding"} /\ HasLease(w) => signed' = rows',
           step'[w] = "finish" /\ verdict'[w] = "SUCCEEDED" /\ HasLease(w) => Complete'
    PROVE  Ok(w)'
<1>1. Knows(w) /\ step'[w] \in Read
  BY DEF IInv, Ok, Late, Read
<1>2. HasLease(w)' = HasLease(w) /\ SameRevision(w)' = SameRevision(w)
  BY DEF HasLease, SameRevision
<1>3. Knows(w)'
  BY <1>1, <1>2 DEF Knows, Late
<1>4. Shape(w)' /\ Current(w)' /\ Reports(w)'
  BY <1>2 DEF Shape, Current, Reports, Late
<1> QED  BY <1>3, <1>4 DEF Ok

\* What a worker knows stays true while only its step and its rows change.
LEMMA KnowsStays ==
    ASSUME IInv, NEW w \in Worker, held'[w] = held[w], UNCHANGED job,
           step[w] \in Read, step'[w] # "record"
    PROVE  Knows(w)' /\ HasLease(w)' = HasLease(w)
<1>1. Knows(w)
  BY DEF IInv, Ok
<1>2. HasLease(w)' = HasLease(w) /\ SameRevision(w)' = SameRevision(w)
  BY DEF HasLease, SameRevision
<1> QED  BY <1>1, <1>2 DEF Knows

\* A verdict that is not a success reports nothing.
LEMMA Fails ==
    ASSUME IInv, NEW w \in Worker, NEW v \in Verdict, v # "SUCCEEDED", Decide(w, v),
           step[w] \in Read, UNCHANGED job
    PROVE  Ok(w)' /\ Others(w)
<1>1. step'[w] = "finish" /\ verdict'[w] = v /\ held'[w] = held[w]
  BY DecideTypes DEF IInv, Decide
<1>2. Others(w)
  BY DecideTypes DEF IInv, Others, Untouched, Decide
<1> QED  BY <1>1, <1>2, Advances DEF Late

LEMMA ListStep == ASSUME IInv, NEW w \in Worker, TypeOK', List(w) PROVE IInv'
<1>1. TypeOK
  BY DEF IInv
<1>2. step'[w] = "claim" /\ held'[w].revision = job.revision /\ Others(w)
  BY <1>1 DEF List, At, Others, Untouched, TypeOK
<1>3. Knows(w)'
  BY <1>1, <1>2 DEF Knows, Read, List, TypeOK
<1>4. Shape(w)' /\ Current(w)' /\ Reports(w)'
  BY <1>2 DEF Shape, Current, Reports
<1> QED  BY <1>2, <1>3, <1>4, QuietStep DEF List, children, Ok

LEMMA RereadStep == ASSUME IInv, NEW w \in Worker, TypeOK', Reread(w) PROVE IInv'
<1>1. TypeOK /\ Current(w)
  BY DEF IInv, Ok
<1>2. /\ step[w] = "reread" /\ step'[w] = "input" /\ Others(w)
      /\ held'[w].revision = job.revision /\ held'[w].attempt = job.attempt
      /\ held'[w].fence = held[w].fence
      /\ UNCHANGED <<rows, children, job>>
  BY <1>1 DEF Reread, At, Others, Untouched, TypeOK
<1>3. HasLease(w)' = HasLease(w) /\ SameRevision(w)'
  BY <1>2 DEF HasLease, SameRevision
<1>4. Knows(w)'
  BY <1>1, <1>2, <1>3 DEF Knows, TypeOK
<1>5. Current(w)'
  BY <1>1, <1>2, <1>3 DEF Current, NotYet, RowsOf
<1>6. Shape(w)' /\ Reports(w)'
  BY <1>2 DEF Shape, Reports
<1> QED  BY <1>2, <1>4, <1>5, <1>6, QuietStep DEF children, Ok

LEMMA CheckInputStep == ASSUME IInv, NEW w \in Worker, TypeOK', CheckInput(w) PROVE IInv'
<1>1. /\ TypeOK /\ Current(w) /\ step[w] = "input" /\ step[w] \in Read
      /\ UNCHANGED <<rows, children, job>>
  BY DEF IInv, Ok, CheckInput, Read
<1>2. CASE Decide(w, "FAILED")
  BY <1>1, <1>2, Fails, QuietStep DEF children, Verdict
<1>3. CASE GoOn(w, "reconcile")
  <2>1. CASE Forget(w)
    BY <1>1, <2>1, ForgetLeaves, QuietStep DEF children
  <2>2. CASE At(w, "reconcile") /\ UNCHANGED knowledge
    <3>1. step'[w] = "reconcile" /\ held'[w] = held[w] /\ Others(w)
      BY <1>1, <2>2 DEF At, knowledge, Others, Untouched, TypeOK
    <3>2. Knows(w)' /\ HasLease(w)' = HasLease(w)
      BY <1>1, <3>1, KnowsStays
    <3>3. Shape(w)' /\ Current(w)' /\ Reports(w)'
      BY <1>1, <3>1, <3>2 DEF Shape, Current, Reports, NotYet, RowsOf
    <3> QED  BY <1>1, <3>1, <3>2, <3>3, QuietStep DEF children, Ok
  <2> QED  BY <1>3, <2>1, <2>2 DEF GoOn
<1>4. CASE /\ latest' = [latest EXCEPT ![w] = rows] /\ left' = [left EXCEPT ![w] = Subject]
           /\ At(w, "retry") /\ UNCHANGED <<held, issue, verdict>>
  <2>1. /\ step'[w] = "retry" /\ held'[w] = held[w] /\ Others(w)
        /\ latest'[w] = rows /\ left'[w] = Subject
    BY <1>1, <1>4 DEF At, Others, Untouched, TypeOK
  <2>2. Knows(w)' /\ HasLease(w)' = HasLease(w)
    BY <1>1, <2>1, KnowsStays
  <2>3. Shape(w)' /\ Current(w)' /\ Reports(w)'
    BY <1>1, <2>1, <2>2 DEF Shape, Current, Reports, NotYet, RowsOf
  <2> QED  BY <1>1, <2>1, <2>2, <2>3, QuietStep DEF children, Ok
<1> QED  BY <1>2, <1>3, <1>4 DEF CheckInput

LEMMA ReconcileStep == ASSUME IInv, NEW w \in Worker, TypeOK', Reconcile(w) PROVE IInv'
<1>1. /\ TypeOK /\ step[w] = "reconcile" /\ step[w] \in Read
      /\ UNCHANGED <<rows, filed, job, faults>>
  BY DEF IInv, Reconcile, Read
<1>2. signed' \in {signed, rows}
  BY DEF Reconcile, CloseAttempts
<1>3. CASE At(w, "processed") /\ UNCHANGED knowledge
  <2>1. step'[w] = "processed" /\ held'[w] = held[w] /\ Others(w)
    BY <1>1, <1>3 DEF At, knowledge, Others, Untouched, TypeOK
  <2> QED  BY <1>1, <1>2, <2>1, Advances, QuietStep DEF Late
<1>4. CASE Decide(w, "NEEDS_RECONCILIATION")
  BY <1>1, <1>2, <1>4, Fails, QuietStep DEF Verdict
<1> QED  BY <1>3, <1>4 DEF Reconcile

LEMMA SkipTargetStep ==
    ASSUME IInv, NEW w \in Worker, NEW s \in Subject, TypeOK', SkipTarget(w, s)
    PROVE  IInv'
<1>1. /\ TypeOK /\ Current(w) /\ step[w] = "retry" /\ step[w] \in Read
      /\ UNCHANGED <<rows, children, job, step, held, latest, verdict>>
      /\ left' = [left EXCEPT ![w] = @ \ {s}]
  BY DEF IInv, Ok, SkipTarget, Read
<1>2. left'[w] \subseteq left[w] /\ Others(w)
  BY <1>1 DEF Others, Untouched, TypeOK
<1>3. Knows(w)' /\ HasLease(w)' = HasLease(w)
  BY <1>1, KnowsStays
<1>4. Shape(w)' /\ Current(w)' /\ Reports(w)'
  BY <1>1, <1>2, <1>3 DEF Shape, Current, Reports, NotYet, RowsOf
<1> QED  BY <1>1, <1>2, <1>3, <1>4, QuietStep DEF children, Ok

\* Of rows of which a success is the last, the newest is that success.
LEMMA SuccessIsNewest ==
    ASSUME TypeOK, RetryOnce, NEW w \in Worker, NEW s \in Subject,
           RowsOf(latest[w], s) = RowsOf(rows, s),
           NEW r \in RowsOf(rows, s), r.status = "SUCCEEDED"
    PROVE  Done(w, s)
<1> DEFINE Last(x) == \A o \in latest[w] : o.subject = s => o.round <= x.round
           Mine == {o \in latest[w] : o.subject = s}
<1>1. Mine = RowsOf(rows, s)
  BY DEF RowsOf
<1>2. \A o \in Mine : o \in rows /\ o.subject = s /\ o.round \in Nat
  BY <1>1 DEF RowsOf, TypeOK, Row
<1>3. r \in Mine
  BY <1>1
<1>4. \A o \in Mine : o.round <= r.round
  BY <1>2, <1>3 DEF RetryOnce
<1>5. Last(r)
  BY <1>4
<1>6. Newest(w, s) \in Mine /\ Last(Newest(w, s))
  <2>1. Newest(w, s) = CHOOSE x \in Mine : Last(x)
    BY DEF Newest
  <2> HIDE DEF Mine, Last
  <2> QED  BY <1>3, <1>5, <2>1
<1>7. Newest(w, s).round = r.round
  BY <1>2, <1>3, <1>4, <1>6
<1>8. Newest(w, s) = r
  BY <1>2, <1>3, <1>6, <1>7 DEF RetryOnce
<1> QED  BY <1>8 DEF Done

LEMMA RunTargetStep ==
    ASSUME IInv, NEW w \in Worker, NEW s \in Subject, TypeOK', RunTarget(w, s)
    PROVE  IInv'
<1>1. /\ TypeOK /\ RetryOnce /\ Current(w) /\ step[w] = "retry" /\ step[w] \in Read
      /\ s \in left[w] /\ ~Done(w, s) /\ UNCHANGED <<rows, children, job>>
  BY DEF IInv, Ok, RunTarget, Read
<1>2. CASE Forget(w)
  BY <1>1, <1>2, ForgetLeaves, QuietStep DEF children
<1>3. CASE /\ HasLease(w) /\ left' = [left EXCEPT ![w] = @ \ {s}]
           /\ held' = [held EXCEPT ![w].target = s]
           /\ At(w, "run") /\ UNCHANGED <<latest, issue, verdict>>
  <2>1. /\ step'[w] = "run" /\ held'[w].target = s /\ latest'[w] = latest[w]
        /\ held'[w].revision = held[w].revision /\ held'[w].attempt = held[w].attempt
        /\ held'[w].fence = held[w].fence
        /\ left'[w] = left[w] \ {s} /\ Others(w)
    BY <1>1, <1>3 DEF At, Others, Untouched, TypeOK
  <2>2. HasLease(w)' = HasLease(w) /\ SameRevision(w)' = SameRevision(w)
    BY <1>1, <2>1 DEF HasLease, SameRevision
  <2>3. Knows(w)'
    BY <1>1, <2>1, <2>2 DEF Knows, IInv, Ok, Read
  <2>4. \A r \in RowsOf(rows, s) : r.status = "FAILED"
    <3>1. RowsOf(latest[w], s) = RowsOf(rows, s)
      BY <1>1, <1>3 DEF Current
    <3>2. \A r \in RowsOf(rows, s) : r.status # "SUCCEEDED"
      BY <1>1, <3>1, SuccessIsNewest
    <3> QED  BY <1>1, <3>2 DEF RowsOf, TypeOK, Row
  <2>5. Current(w)'
    BY <1>1, <1>3, <2>1, <2>4 DEF Current, NotYet, RowsOf
  <2>6. Shape(w)' /\ Reports(w)'
    BY <2>1 DEF Shape, Reports
  <2> QED  BY <1>1, <2>1, <2>3, <2>5, <2>6, QuietStep DEF children, Ok
<1>4. CASE /\ issue' = [issue EXCEPT ![w] = "final"] /\ At(w, "processed")
           /\ UNCHANGED <<held, latest, left, verdict>>
  <2>1. step'[w] = "processed" /\ held'[w] = held[w] /\ Others(w)
    BY <1>1, <1>4 DEF At, Others, Untouched, TypeOK
  <2> QED  BY <1>1, <2>1, Advances, QuietStep DEF Late, children
<1> QED  BY <1>2, <1>3, <1>4 DEF RunTarget

LEMMA RetryEndsStep == ASSUME IInv, NEW w \in Worker, TypeOK', RetryEnds(w) PROVE IInv'
<1>1. TypeOK /\ step[w] \in Read /\ UNCHANGED <<rows, children, job>>
  BY DEF IInv, RetryEnds, Read
<1>2. step'[w] = "processed" /\ held'[w] = held[w] /\ Others(w)
  BY <1>1 DEF RetryEnds, At, knowledge, Others, Untouched, TypeOK
<1> QED  BY <1>1, <1>2, Advances, QuietStep DEF Late, children

LEMMA SignAttemptsStep == ASSUME IInv, NEW w \in Worker, TypeOK', SignAttempts(w) PROVE IInv'
<1>1. TypeOK /\ step[w] \in Read /\ UNCHANGED <<rows, children, job>>
  BY DEF IInv, SignAttempts, Read
<1>2. CASE Forget(w)
  BY <1>1, <1>2, ForgetLeaves, QuietStep DEF children
<1>3. CASE At(w, "closing") /\ UNCHANGED knowledge
  <2>1. step'[w] = "closing" /\ held'[w] = held[w] /\ Others(w)
    BY <1>1, <1>3 DEF At, knowledge, Others, Untouched, TypeOK
  <2> QED  BY <1>1, <2>1, Advances, QuietStep DEF Late, children
<1> QED  BY <1>2, <1>3 DEF SignAttempts, GoOn

LEMMA AttemptsSignedStep ==
    ASSUME IInv, NEW w \in Worker, TypeOK', AttemptsSigned(w)
    PROVE  IInv'
<1>1. /\ TypeOK /\ step[w] \in Read /\ UNCHANGED <<rows, filed, job>>
      /\ signed' \in {signed, rows}
  BY DEF IInv, AttemptsSigned, CloseAttempts, Read
<1>2. CASE CloseAttempts("OK") /\ At(w, "signed") /\ UNCHANGED knowledge
  <2>1. step'[w] = "signed" /\ held'[w] = held[w] /\ Others(w) /\ signed' = rows
    BY <1>1, <1>2 DEF CloseAttempts, At, knowledge, Others, Untouched, TypeOK
  <2> QED  BY <1>1, <2>1, Advances, QuietStep DEF Late
<1>3. CASE Decide(w, "FAILED") \/ Decide(w, "NEEDS_RECONCILIATION")
  BY <1>1, <1>3, Fails, QuietStep DEF Verdict
<1> QED  BY <1>2, <1>3 DEF AttemptsSigned

LEMMA SignFactsStep == ASSUME IInv, NEW w \in Worker, TypeOK', SignFacts(w) PROVE IInv'
<1>1. TypeOK /\ Reports(w) /\ step[w] = "signed" /\ step[w] \in Read
      /\ UNCHANGED <<rows, children, job>>
  BY DEF IInv, Ok, SignFacts, Read
<1>2. CASE Forget(w)
  BY <1>1, <1>2, ForgetLeaves, QuietStep DEF children
<1>3. CASE At(w, "binding") /\ UNCHANGED knowledge
  <2>1. step'[w] = "binding" /\ held'[w] = held[w] /\ Others(w)
    BY <1>1, <1>3 DEF At, knowledge, Others, Untouched, TypeOK
  <2>2. HasLease(w) => signed' = rows'
    BY <1>1 DEF Reports, children
  <2> QED  BY <1>1, <2>1, <2>2, Advances, QuietStep DEF Late, children
<1> QED  BY <1>2, <1>3 DEF SignFacts, GoOn

LEMMA FactsSignedStep ==
    ASSUME IInv, NEW w \in Worker, TypeOK', FactsSigned(w)
    PROVE  IInv'
<1>1. TypeOK /\ Reports(w) /\ step[w] = "binding" /\ step[w] \in Read
      /\ UNCHANGED <<rows, signed, job>>
  BY DEF IInv, Ok, FactsSigned, Read
<1>2. PICK outcome \in {"OK", "ERROR", "UNKNOWN"} :
        /\ CloseFacts(outcome)
        /\ Decide(w, CASE IsDone(outcome) -> Result(w)
                       [] outcome = "ERROR" -> "FAILED"
                       [] OTHER -> "NEEDS_RECONCILIATION")
  BY DEF FactsSigned
<1>3. filed' \in {filed, Admitted(rows)}
  BY <1>2 DEF CloseFacts
<1>4. CASE outcome = "OK"
  <2>1. Decide(w, Result(w)) /\ filed' = Admitted(rows) /\ Result(w) \in Verdict
    BY <1>1, <1>2, <1>4, Verdicts DEF IsDone, CloseFacts
  <2>2. /\ step'[w] = "finish" /\ verdict'[w] \in Verdict /\ held'[w] = held[w]
        /\ Others(w)
    BY <1>1, <2>1, DecideTypes DEF Others, Untouched
  <2>3. HasLease(w) => Complete'
    BY <1>1, <2>1 DEF Reports, Complete, Admitted
  <2> QED  BY <1>1, <1>3, <2>2, <2>3, Advances, QuietStep DEF Late
<1>5. CASE outcome # "OK"
  <2>1. Decide(w, "FAILED") \/ Decide(w, "NEEDS_RECONCILIATION")
    BY <1>2, <1>5 DEF IsDone
  <2> QED  BY <1>1, <1>3, <2>1, Fails, QuietStep DEF Verdict
<1> QED  BY <1>4, <1>5

LEMMA FinishStep == ASSUME IInv, NEW w \in Worker, TypeOK', Finish(w) PROVE IInv'
<1>1. TypeOK /\ Ok(w) /\ step[w] = "finish" /\ step[w] \in Read
      /\ UNCHANGED <<rows, children, job>>
  BY DEF IInv, Finish, Read
<1>2. CASE Forget(w)
  BY <1>1, <1>2, ForgetLeaves, QuietStep DEF children
<1>3. CASE HasLease(w) /\ At(w, "record") /\ UNCHANGED knowledge
  <2>1. step'[w] = "record" /\ held'[w] = held[w] /\ verdict'[w] = verdict[w] /\ Others(w)
    BY <1>1, <1>3 DEF At, knowledge, Others, Untouched, TypeOK
  <2>2. SameRevision(w)' = SameRevision(w)
    BY <1>1, <2>1 DEF SameRevision
  <2>3. Knows(w)'
    BY <1>1, <1>3, <2>1, <2>2 DEF Ok, Knows, HasLease, SameRevision
  <2>4. Shape(w)' /\ Current(w)' /\ Reports(w)'
    BY <1>1, <1>3, <2>1, <2>2 DEF Ok, Shape, Current, Reports, Complete, Admitted, children
  <2> QED  BY <1>1, <2>1, <2>3, <2>4, QuietStep DEF children, Ok
<1> QED  BY <1>2, <1>3 DEF Finish, GoOn

-----------------------------------------------------------------------------
(* The steps that change the rows or the job *)

LEMMA RunEndsStep == ASSUME IInv, NEW w \in Worker, TypeOK', RunEnds(w) PROVE IInv'
<1>1. /\ TypeOK /\ Ok(w) /\ step[w] = "run" /\ step[w] \in Read
      /\ held[w].target \in Subject /\ UNCHANGED <<children, job>>
  BY DEF IInv, Ok, Shape, RunEnds, Read
<1>2. /\ step'[w] = "retry" /\ latest'[w] = latest[w] /\ left'[w] = left[w]
      /\ held'[w].revision = held[w].revision /\ held'[w].attempt = held[w].attempt
      /\ held'[w].fence = held[w].fence /\ Others(w)
  BY <1>1 DEF RunEnds, At, Others, Untouched, TypeOK
<1>3. HasLease(w)' = HasLease(w) /\ SameRevision(w)' = SameRevision(w)
  BY <1>1, <1>2 DEF HasLease, SameRevision
<1>4. Knows(w)' /\ Shape(w)' /\ Reports(w)'
  BY <1>1, <1>2, <1>3 DEF Ok, Knows, Shape, Reports, Read
<1>5. CASE UNCHANGED rows
  <2>1. Current(w)'
    BY <1>1, <1>2, <1>3, <1>5 DEF Ok, Current, NotYet, RowsOf
  <2> QED  BY <1>1, <1>2, <1>4, <1>5, <2>1, QuietStep DEF children, Ok
<1>6. CASE HasLease(w) /\ \E status \in {"SUCCEEDED", "FAILED"} :
             rows' = rows \cup {[subject |-> held[w].target, round |-> held[w].attempt,
                                 status |-> status]}
  <2>1. PICK status \in {"SUCCEEDED", "FAILED"} :
          rows' = rows \cup {[subject |-> held[w].target, round |-> held[w].attempt,
                              status |-> status]}
    BY <1>6
  <2> DEFINE new == [subject |-> held[w].target, round |-> held[w].attempt, status |-> status]
  <2>2. held[w].attempt = job.attempt /\ job.attempt \in Nat
    BY <1>1, <1>6 DEF Ok, Knows, TypeOK
  <2>3. \A r \in rows : r.subject = held[w].target => r.round < job.attempt /\ r.status = "FAILED"
    BY <1>1, <1>6 DEF Ok, Current, NotYet, RowsOf
  <2>4. new.subject = held[w].target /\ new.round = job.attempt
    BY <2>2
  <2>5. rows' = rows \cup {new}
    BY <2>1
  <2> HIDE DEF new
  <2>6. RetryOnce'
    <3>1. ASSUME NEW r \in rows', NEW o \in rows', r.subject = o.subject, r # o
          PROVE  r.round # o.round /\ (r.round < o.round => r.status = "FAILED")
      <4>1. CASE r \in rows /\ o \in rows
        BY <3>1, <4>1 DEF IInv, RetryOnce
      <4>2. CASE r \in rows /\ o = new
        BY <2>2, <2>3, <2>4, <3>1, <4>2 DEF TypeOK, Row
      <4>3. CASE r = new /\ o \in rows
        <5>1. o.round < job.attempt /\ o.round \in Nat
          BY <1>1, <2>3, <2>4, <3>1, <4>3 DEF TypeOK, Row
        <5> QED  BY <2>2, <2>4, <4>3, <5>1
      <4> QED  BY <2>5, <3>1, <4>1, <4>2, <4>3
    <3> QED  BY <3>1 DEF RetryOnce
  <2>7. RowsAreClaimed'
    BY <1>1, <2>2, <2>4, <2>5 DEF IInv, RowsAreClaimed
  <2>8. LeaseRuns' /\ AttemptsAreClaims' /\ SucceededIsSigned'
    BY <1>1, <1>6 DEF IInv, LeaseRuns, AttemptsAreClaims, SucceededIsSigned, HasLease
  <2>9. Current(w)'
    <3>1. \A s \in left[w] : RowsOf(rows', s) = RowsOf(rows, s)
      BY <1>1, <1>6, <2>4, <2>5 DEF Ok, Current, RowsOf
    <3>2. \A s \in left[w] : NotYet(s) /\ RowsOf(latest[w], s) = RowsOf(rows, s)
      BY <1>1, <1>6 DEF Ok, Current
    <3> QED  BY <1>1, <1>2, <3>1, <3>2 DEF Current, NotYet
  <2>10. ASSUME NEW o \in Worker, o # w PROVE Ok(o)'
    <3>1. ~HasLease(o)
      BY <1>6, <2>10 DEF HasLease
    <3>2. step[o] = "record" => ~SameRevision(o)
      BY <1>6, <2>10 DEF HasLease, IInv, Ok, Knows
    <3> QED  BY <1>1, <1>2, <2>10, <3>1, <3>2, OkBeside DEF Others, JobBeside, ChildrenBeside
  <2> QED  BY <1>4, <2>6, <2>7, <2>8, <2>9, <2>10 DEF IInv, Ok
<1> QED  BY <1>5, <1>6 DEF RunEnds, MayRecord

\* A step that gives the job a new revision.
LEMMA JobStep ==
    ASSUME IInv, TypeOK', NEW w \in Worker, Others(w), Ok(w)', UNCHANGED <<rows, children>>,
           job'.revision = job.revision + 1, job'.live => job'.holder = w,
           LeaseRuns', AttemptsAreClaims', job'.attempt >= job.attempt,
           job'.state = "SUCCEEDED" => Complete
    PROVE  IInv'
<1>1. TypeOK
  BY DEF IInv
<1>2. ASSUME NEW o \in Worker, o # w PROVE Ok(o)'
  <2>1. JobBeside(o) /\ ChildrenBeside(o)
    BY <1>1, <1>2 DEF JobBeside, ChildrenBeside, children, TypeOK
  <2> QED  BY <1>2, <2>1, OkBeside DEF Others
<1>3. RowsAreClaimed' /\ RetryOnce'
  BY <1>1 DEF IInv, RowsAreClaimed, RetryOnce, TypeOK, Row
<1>4. SucceededIsSigned'
  BY DEF SucceededIsSigned, Complete, children, Admitted
<1> QED  BY <1>2, <1>3, <1>4 DEF IInv

LEMMA ClaimStep == ASSUME IInv, NEW w \in Worker, TypeOK', Claim(w) PROVE IInv'
<1>1. TypeOK /\ Ok(w) /\ step[w] = "claim" /\ UNCHANGED <<rows, children, faults>>
  BY DEF IInv, Claim
<1>2. CASE Forget(w) /\ UNCHANGED job
  BY <1>1, <1>2, ForgetLeaves, QuietStep DEF children
<1>3. CASE /\ CanClaim /\ SameRevision(w)
           /\ job' = [state |-> "RUNNING", revision |-> job.revision + 1,
                      attempt |-> job.attempt + 1, fence |-> job.fence + 1,
                      holder |-> w, live |-> TRUE]
           /\ held' = [held EXCEPT ![w].fence = job.fence + 1] /\ At(w, "reread")
           /\ UNCHANGED <<latest, left, issue, verdict>>
  <2>1. /\ job'.state = "RUNNING" /\ job'.revision = job.revision + 1
        /\ job'.attempt = job.attempt + 1 /\ job'.fence = job.fence + 1
        /\ job'.holder = w
    BY <1>3
  <2>2. /\ step'[w] = "reread" /\ held'[w].revision = held[w].revision /\ Others(w)
    BY <1>1, <1>3 DEF At, Others, Untouched, TypeOK
  <2>3. job.revision \in Nat /\ job.attempt \in Nat /\ held[w].revision \in Nat
    BY <1>1 DEF TypeOK
  <2>4. Knows(w)'
    BY <1>1, <2>1, <2>2, <2>3 DEF Ok, Knows, Read
  <2>5. Current(w)'
    <3>1. \A r \in rows' : r.round < job'.attempt
      BY <1>1, <2>1, <2>3 DEF IInv, RowsAreClaimed, TypeOK, Row
    <3> QED  BY <2>2, <3>1 DEF Current, NotYet, RowsOf
  <2>6. Shape(w)' /\ Reports(w)'
    BY <2>2 DEF Shape, Reports
  <2>7. LeaseRuns' /\ AttemptsAreClaims'
    BY <2>1 DEF IInv, LeaseRuns, AttemptsAreClaims
  <2> QED  BY <1>1, <2>1, <2>2, <2>3, <2>4, <2>5, <2>6, <2>7, JobStep DEF Ok
<1> QED  BY <1>2, <1>3 DEF Claim

LEMMA RecordStep == ASSUME IInv, NEW w \in Worker, TypeOK', Record(w) PROVE IInv'
<1>1. TypeOK /\ Ok(w) /\ step[w] = "record" /\ step[w] \in Read /\ Forget(w)
      /\ UNCHANGED <<rows, children, faults>>
  BY DEF IInv, Record, Read
<1>2. Others(w) /\ Ok(w)'
  BY <1>1, ForgetLeaves
<1>3. CASE ~SameRevision(w)
  BY <1>1, <1>2, <1>3, QuietStep DEF Record, children
<1>4. CASE SameRevision(w)
  <2>1. /\ verdict[w] \in Settled \cup Claimable /\ held[w].attempt = job.attempt
        /\ held[w].attempt \in 0..MaxAttempts
        /\ job' = Updated(verdict[w], held[w].attempt)
    BY <1>1, <1>4 DEF Ok, Shape, Knows, TypeOK, Verdict, Settled, Claimable, Record
  <2>2. /\ job'.state = verdict[w] /\ job'.revision = job.revision + 1
        /\ job'.attempt = job.attempt /\ job'.fence = job.fence /\ ~job'.live
    BY <1>1, <2>1, UpdatedTypes
  <2>3. verdict[w] = "SUCCEEDED" => Complete
    BY <1>1, <1>4 DEF Ok, Reports
  <2>4. LeaseRuns' /\ AttemptsAreClaims'
    BY <2>2 DEF IInv, LeaseRuns, AttemptsAreClaims
  <2> QED  BY <1>1, <1>2, <2>2, <2>3, <2>4, JobStep DEF TypeOK
<1> QED  BY <1>3, <1>4

LEMMA KillStep == ASSUME IInv, NEW w \in Worker, TypeOK', KillWorker(w) PROVE IInv'
  BY ForgetLeaves, QuietStep DEF IInv, KillWorker, children

LEMMA LapseStep == ASSUME IInv, TypeOK', LeaseLapses PROVE IInv'
<1>1. /\ TypeOK /\ ~job'.live /\ \A f \in DOMAIN job \ {"live"} : job'[f] = job[f]
      /\ UNCHANGED <<rows, children, step, knowledge>>
  BY DEF IInv, LeaseLapses, TypeOK
<1>2. ASSUME NEW w \in Worker PROVE Ok(w)'
  BY <1>1, OkBeside DEF Untouched, JobBeside, ChildrenBeside, knowledge, children
<1>3. job'.state = job.state /\ job'.attempt = job.attempt /\ job'.fence = job.fence
  BY <1>1 DEF TypeOK
<1>4. LeaseRuns' /\ AttemptsAreClaims' /\ RowsAreClaimed' /\ RetryOnce' /\ SucceededIsSigned'
  BY <1>1, <1>3 DEF IInv, LeaseRuns, AttemptsAreClaims, RowsAreClaimed, RetryOnce,
     SucceededIsSigned, Admitted, children
<1> QED  BY <1>2, <1>4 DEF IInv

LEMMA CancelStep == ASSUME IInv, TypeOK', CancelJob PROVE IInv'
<1>1. TypeOK /\ UNCHANGED <<rows, children, step, knowledge>>
  BY DEF IInv, CancelJob
<1>2. PICK s \in {"CANCELLED", "RUNNING"} : job' = Updated(s, job.attempt)
  BY DEF CancelJob
<1>3. /\ job'.state = s /\ job'.revision = job.revision + 1
      /\ job'.attempt = job.attempt /\ job'.fence = job.fence /\ ~job'.live
  BY <1>1, <1>2, UpdatedTypes DEF TypeOK, Settled, Claimable
<1>4. job.revision \in Nat
  BY <1>1 DEF TypeOK
<1>5. ASSUME NEW w \in Worker PROVE Ok(w)'
  BY <1>1, <1>3, <1>4, OkBeside DEF Untouched, JobBeside, ChildrenBeside, knowledge, children
<1>6. LeaseRuns' /\ AttemptsAreClaims' /\ RowsAreClaimed' /\ RetryOnce' /\ SucceededIsSigned'
  BY <1>1, <1>3 DEF IInv, LeaseRuns, AttemptsAreClaims, RowsAreClaimed, RetryOnce,
     SucceededIsSigned, children
<1> QED  BY <1>5, <1>6 DEF IInv

-----------------------------------------------------------------------------
(* The invariant *)

LEMMA InitHolds == Init => IInv
<1> SUFFICES ASSUME Init PROVE IInv
  OBVIOUS
<1>1. TypeOK
  BY InitTypes
<1>2. /\ job.state = "QUEUED" /\ job.revision = 1 /\ job.attempt = 0 /\ job.fence = 0
      /\ ~job.live
  BY DEF Init
<1>3. LeaseRuns /\ AttemptsAreClaims /\ SucceededIsSigned
  BY <1>2 DEF LeaseRuns, AttemptsAreClaims, SucceededIsSigned
<1>4. RowsAreClaimed /\ RetryOnce
  BY <1>2 DEF Init, RowsAreClaimed, RetryOnce
<1>5. ASSUME NEW w \in Worker PROVE Ok(w)
  <2>1. step[w] = "idle" /\ held[w].revision = 0
    BY DEF Init, Nothing
  <2> QED  BY <1>2, <2>1 DEF Ok, Shape, Knows, Current, Reports, Read
<1> QED  BY <1>1, <1>3, <1>4, <1>5 DEF IInv

LEMMA NextHolds == IInv /\ [Next]_vars => IInv'
<1> SUFFICES ASSUME IInv, [Next]_vars PROVE IInv'
  OBVIOUS
<1>1. ASSUME NEW w \in Worker, Work(w) PROVE IInv'
  <2>1. TypeOK'
    BY <1>1, WorkTypes
  <2> QED
    BY <1>1, <2>1, ListStep, ClaimStep, RereadStep, CheckInputStep, ReconcileStep,
       SkipTargetStep, RunTargetStep, RunEndsStep, RetryEndsStep, SignAttemptsStep,
       AttemptsSignedStep, SignFactsStep, FactsSignedStep, FinishStep, RecordStep DEF Work
<1>2. ASSUME (\E w \in Worker : KillWorker(w)) \/ LeaseLapses \/ CancelJob PROVE IInv'
  <2>1. TypeOK'
    BY <1>2, OtherTypes DEF IInv
  <2> QED  BY <1>2, <2>1, KillStep, LapseStep, CancelStep
<1>3. CASE UNCHANGED vars
  <2>1. TypeOK' /\ LeaseRuns' /\ AttemptsAreClaims' /\ RowsAreClaimed' /\ RetryOnce'
        /\ SucceededIsSigned'
    BY <1>3 DEF IInv, vars, children, knowledge, TypeOK, LeaseRuns, AttemptsAreClaims,
       RowsAreClaimed, RetryOnce, SucceededIsSigned, Admitted
  <2>2. ASSUME NEW w \in Worker PROVE Ok(w)'
    BY <1>3, <2>1, OkBeside
       DEF vars, children, knowledge, Untouched, JobBeside, ChildrenBeside
  <2> QED  BY <2>1, <2>2 DEF IInv
<1> QED  BY <1>1, <1>2, <1>3 DEF Next

\* The invariant holds in every reachable state.
THEOREM RetryInvariant == Spec => []IInv
  BY InitHolds, NextHolds, PTL DEF Spec

\* The shape of the rows, the job and the workers.
THEOREM RetryTypes == Spec => []TypeOK
<1>1. IInv => TypeOK
  BY DEF IInv
<1> QED  BY <1>1, RetryInvariant, PTL

\* However many workers, lapses and kills: an attempt of the job leaves at most
\* one row of a target, and a target is not run once it has succeeded
\* (processor/host.go RetryPublication).
THEOREM TargetsRunOnce == Spec => []RetryOnce
<1>1. IInv => RetryOnce
  BY DEF IInv
<1> QED  BY <1>1, RetryInvariant, PTL

\* A job that succeeded has all its rows in the attempt closure and all its
\* artifacts in the fact closure (exact/processor_retry.go).
THEOREM SuccessIsSigned == Spec => []SucceededIsSigned
<1>1. IInv => SucceededIsSigned
  BY DEF IInv
<1> QED  BY <1>1, RetryInvariant, PTL

\* A claim costs an attempt, and no record gives one back (sqlite/records.go
\* AcquireJobLease, UpdateJob).
THEOREM ClaimsAreCounted == Spec => []AttemptsAreClaims
<1>1. IInv => AttemptsAreClaims
  BY DEF IInv
<1> QED  BY <1>1, RetryInvariant, PTL

\* A recorded outcome stays, and no row is added after it.
THEOREM OutcomesAreFinal == Spec => OutcomeIsFinal
<1>1. ASSUME IInv, [Next]_vars, job.state \in Settled PROVE UNCHANGED <<job, rows>>
  <2>1. \A w \in Worker : ~HasLease(w)
    BY <1>1 DEF HasLease, Settled
  <2>2. ~CanClaim /\ ~job.live
    BY <1>1 DEF CanClaim, Settled, Claimable, IInv, LeaseRuns
  <2>3. ASSUME NEW w \in Worker, Work(w) PROVE UNCHANGED <<job, rows>>
    <3>1. Record(w) => ~SameRevision(w)
      BY <1>1 DEF Record, IInv, Ok, Knows, Settled
    <3> QED
      BY <2>1, <2>2, <2>3, <3>1 DEF Work, List, Claim, Reread, CheckInput, Reconcile,
         SkipTarget, RunTarget, RunEnds, MayRecord, RetryEnds, SignAttempts, AttemptsSigned,
         SignFacts, FactsSigned, Finish, Record
  <2>4. ASSUME (\E w \in Worker : KillWorker(w)) \/ LeaseLapses \/ CancelJob
        PROVE  UNCHANGED <<job, rows>>
    BY <1>1, <2>2, <2>4 DEF KillWorker, LeaseLapses, CancelJob, Settled
  <2> QED  BY <1>1, <2>3, <2>4 DEF Next, vars
<1> QED  BY <1>1, RetryInvariant, PTL DEF Spec, OutcomeIsFinal

=============================================================================

---------------------------- MODULE RestoreApply ----------------------------
(***************************************************************************)
(* Restoring a snapshot into a directory: plan.restore binds a snapshot to  *)
(* what the destination is now (exact/restore_plan.go); plan.apply leases   *)
(* the plan's job, first reconciles a destination an earlier attempt may    *)
(* have filled (exact/restore_reconcile.go), and only then writes the tree  *)
(* entry by entry (exact/restore.go).  Several plans can name one           *)
(* destination, the user owns it too, the daemon can be killed and the      *)
(* machine can lose power: nothing of the tree is synced.                   *)
(*                                                                         *)
(* How a request finds, inserts and re-reads its job is in PlanApply; here  *)
(* the claim is one step, and of the catalog only the job rows remain.      *)
(***************************************************************************)
EXTENDS Naturals, Sequences, FiniteSets

CONSTANTS
  Request,       \* concurrent plan.apply requests; each may be repeated
  Path,          \* the paths below the destination
  Above,         \* the directories each path is in
  Manifest,      \* the entries of each snapshot, sorted as they are written
  MaxPlans,      \* bound on the plans recorded
  MaxAttempts,   \* Job.MaxAttempts of a PLAN_APPLY job
  MaxFaults,     \* bound on kills, power losses, cancellations, errors, overruns
  MaxChanges     \* bound on what the user does to the destination

Snapshot == DOMAIN Manifest
\* A FIFO, a socket or a device is in the manifest too, and is not restored.
EntryOf == [path: Path, kind: {"dir", "file", "link", "special"}]
Restorable(e) == e.kind # "special"

\* prepareRestoreEntries refuses two entries of one path and a parent that is
\* no directory, and sorts parents first.
Prepared(m) ==
  /\ m \in Seq(EntryOf)
  /\ \A i, j \in 1..Len(m) :
       /\ m[i].path = m[j].path => i = j
       /\ m[i].path \in Above[m[j].path] => m[i].kind = "dir" /\ i < j

ASSUME AboveAssumption == \A p \in Path : Above[p] \in SUBSET (Path \ {p})
ASSUME ManifestAssumption ==
  Snapshot # {} /\ \A s \in Snapshot : Prepared(Manifest[s])
\* What the user writes is the content of no snapshot.
ASSUME UserAssumption == "user" \notin Snapshot
ASSUME BoundsAssumption ==
  MaxPlans \in Nat /\ MaxAttempts \in Nat /\ MaxFaults \in Nat /\ MaxChanges \in Nat

None == "none"
Nobody == "nobody"
Absent == 0                            \* the basis of a missing destination
Stamps == 0..(1 + MaxFaults + MaxChanges)
Plans == Snapshot \X Stamps

VARIABLES
  root,       \* the destination directory exists
  stamp,      \* its modification time when it was last empty
  dest,       \* what is at each path: kind, maker, snapshot, whole
  plans,      \* the plans recorded: a snapshot and the basis inspected
  job,        \* the PLAN_APPLY row of each plan
  pc,         \* control state of each request
  plan,       \* the plan it applies
  idx,        \* the entry it writes next
  seen,       \* the revision of the job it leased
  verdict,    \* the outcome it will record
  contended,  \* two requests were at work at once (history)
  faults,     \* disturbances so far
  changes     \* interventions of the user so far

tree == <<root, stamp, dest>>
control == <<pc, plan, idx, seen, verdict>>
bounds == <<contended, faults, changes>>
vars == <<tree, plans, job, control, bounds>>

Nothing == [kind |-> None, maker |-> Nobody, of |-> None, whole |-> FALSE]
UserFile == [kind |-> "file", maker |-> "user", of |-> "user", whole |-> TRUE]
Nodes == [kind: {None, "dir", "file", "link"},
          maker: Request \cup {"user", Nobody},
          of: Snapshot \cup {"user", None}, whole: BOOLEAN]

NoJob == [state |-> "QUEUED", revision |-> 1, attempt |-> 0, leased |-> FALSE]
NoPlan == CHOOSE k \in Plans : TRUE

JobRows == [state: {"QUEUED", "RUNNING", "SUCCEEDED", "FAILED"},
            revision: Nat, attempt: 0..MaxAttempts, leased: BOOLEAN]
PC == {"idle", "reconcile", "inspect", "prepare", "mkdir", "entry", "copy", "finish"}
\* "UNREAD": reconciling failed on something it could not read.
Verdicts == {None, "SUCCEEDED", "FAILED", "UNREAD"}

TypeOK ==
  /\ root \in BOOLEAN /\ stamp \in Stamps /\ dest \in [Path -> Nodes]
  /\ plans \subseteq Plans
  /\ job \in [Plans -> JobRows]
  /\ pc \in [Request -> PC]
  /\ plan \in [Request -> Plans]
  /\ idx \in [Request -> Nat] /\ seen \in [Request -> Nat]
  /\ verdict \in [Request -> Verdicts]
  /\ contended \in BOOLEAN
  /\ faults \in 0..MaxFaults /\ changes \in 0..MaxChanges

Init ==
  /\ root = FALSE /\ stamp = Absent
  /\ dest = [p \in Path |-> Nothing]
  /\ plans = {}
  /\ job = [k \in Plans |-> NoJob]
  /\ pc = [r \in Request |-> "idle"]
  /\ plan = [r \in Request |-> NoPlan]
  /\ idx = [r \in Request |-> 0]
  /\ seen = [r \in Request |-> 0]
  /\ verdict = [r \in Request |-> None]
  /\ contended = FALSE /\ faults = 0 /\ changes = 0

There(p) == dest[p].kind # None
IsEmpty == \A p \in Path : ~There(p)
Free == ~root \/ IsEmpty

\* restoreDestinationBasis: a missing destination, or an empty directory with
\* its modification time.
Basis == IF root THEN stamp ELSE Absent

Entries(r) == Manifest[plan[r][1]]
Entry(r) == Entries(r)[idx[r]]

Goto(r, l) == pc' = [pc EXCEPT ![r] = l]
Conclude(r, v) == Goto(r, "finish") /\ verdict' = [verdict EXCEPT ![r] = v]
\* The request returns; what it knew is gone.
Leave(R) ==
  /\ pc' = [r \in Request |-> IF r \in R THEN "idle" ELSE pc[r]]
  /\ plan' = [r \in Request |-> IF r \in R THEN NoPlan ELSE plan[r]]
  /\ idx' = [r \in Request |-> IF r \in R THEN 0 ELSE idx[r]]
  /\ seen' = [r \in Request |-> IF r \in R THEN 0 ELSE seen[r]]
  /\ verdict' = [r \in Request |-> IF r \in R THEN None ELSE verdict[r]]

-----------------------------------------------------------------------------
(* Planning, and the claim of the job.                                      *)

\* handlePlanRestore: InspectRestore refuses a destination that is not free,
\* and recordRestorePlan answers the plan already recorded with the same
\* digest: the same snapshot, destination and basis.
PlanRestore(s) ==
  /\ Free
  /\ <<s, Basis>> \notin plans /\ Cardinality(plans) < MaxPlans
  /\ plans' = plans \cup {<<s, Basis>>}
  /\ UNCHANGED <<tree, job, control, bounds>>

\* claimPlanApplyJob, AcquireJobLease: a settled job is only replayed.
Claim(r, k) ==
  /\ pc[r] = "idle"
  /\ k \in plans
  /\ job[k].state \in {"QUEUED", "RUNNING"}
  /\ job[k].attempt < MaxAttempts
  /\ ~job[k].leased
  /\ job' = [job EXCEPT ![k] = [state |-> "RUNNING", revision |-> @.revision + 1,
                                attempt |-> @.attempt + 1, leased |-> TRUE]]
  /\ Goto(r, "reconcile")
  /\ plan' = [plan EXCEPT ![r] = k]
  /\ seen' = [seen EXCEPT ![r] = job[k].revision + 1]
  /\ contended' = (contended \/ \E q \in Request : pc[q] # "idle")
  /\ UNCHANGED <<tree, plans, idx, verdict, faults, changes>>

-----------------------------------------------------------------------------
(* ReconcileRestorePlan, InspectRestore.                                    *)

\* reconcileRestoreEntry: type, link target, length and digest.  What is not
\* restorable is refused, and no node has its kind.
Matches(s, e) ==
  /\ dest[e.path].kind = e.kind
  /\ e.kind # "dir" => dest[e.path].of = s
  /\ e.kind = "file" => dest[e.path].whole

\* The complete tree, and nothing else.
IsSnapshot(s) ==
  /\ \A i \in 1..Len(Manifest[s]) : Matches(s, Manifest[s][i])
  /\ \A p \in Path : There(p) => \E i \in 1..Len(Manifest[s]) : Manifest[s][i].path = p

\* Mutant: what the walk did not meet is not missed.
NothingUnexpected(s) ==
  /\ ~Free
  /\ \A p \in Path : There(p) =>
       \E i \in 1..Len(Manifest[s]) :
         Manifest[s][i].path = p /\ Matches(s, Manifest[s][i])

\* Mutant: a destination that is not empty is never taken for a finished one.
NeverDone(s) == FALSE

Done(s) == ~Free /\ IsSnapshot(s)

\* A free destination has not been executed; another must be the snapshot.
Reconcile(r) ==
  /\ pc[r] = "reconcile"
  /\ \/ Free /\ Goto(r, "inspect") /\ UNCHANGED verdict
     \/ Done(plan[r][1]) /\ Conclude(r, "SUCCEEDED")
     \/ ~Free /\ ~Done(plan[r][1]) /\ Conclude(r, "FAILED")
  /\ UNCHANGED <<tree, plans, job, plan, idx, seen, bounds>>

\* ApplyRestorePlan compares the basis again.
Inspect(r) ==
  /\ pc[r] = "inspect"
  /\ IF Free /\ Basis = plan[r][2]
     THEN Goto(r, "prepare") /\ UNCHANGED verdict
     ELSE Conclude(r, "FAILED")
  /\ UNCHANGED <<tree, plans, job, plan, idx, seen, bounds>>

-----------------------------------------------------------------------------
(* Restore.                                                                 *)

\* prepareRestoreDir: Lstat and ReadDir.
PrepareDir(r) ==
  /\ pc[r] = "prepare"
  /\ \/ ~root /\ Goto(r, "mkdir") /\ UNCHANGED <<idx, verdict>>
     \/ /\ root /\ IsEmpty
        /\ Goto(r, "entry") /\ idx' = [idx EXCEPT ![r] = 1] /\ UNCHANGED verdict
     \/ root /\ ~IsEmpty /\ Conclude(r, "FAILED") /\ UNCHANGED idx
  /\ UNCHANGED <<tree, plans, job, plan, seen, bounds>>

\* os.MkdirAll of the destination, which succeeds on one made meanwhile.
MakeRoot ==
  /\ root' = TRUE
  /\ stamp' = IF root THEN stamp ELSE stamp + 1

PrepareMkdir(r) ==
  /\ pc[r] = "mkdir"
  /\ MakeRoot
  /\ Goto(r, "entry") /\ idx' = [idx EXCEPT ![r] = 1]
  /\ UNCHANGED <<dest, plans, job, plan, seen, verdict, bounds>>

\* Mutant: os.Create in the place of O_CREAT|O_EXCL|O_NOFOLLOW.
TruncatesFile(e) ==
  /\ \A q \in Above[e.path] : dest[q].kind \in {None, "dir"}
  /\ dest[e.path].kind \in {None, e.kind}

\* A directory may be there already; a file or a link may not
\* (createRestoreFile, os.Symlink), and every parent must be a directory.
CanCreate(e) ==
  /\ \A q \in Above[e.path] : dest[q].kind \in {None, "dir"}
  /\ dest[e.path].kind \in (IF e.kind = "dir" THEN {None, "dir"} ELSE {None})

\* MkdirAll of the parent, then the entry itself.
Create(r, e) ==
  LET made(kind) == [kind |-> kind, maker |-> r, of |-> plan[r][1], whole |-> kind # "file"]
      place(p, kind) == IF kind = "dir" /\ There(p) THEN dest[p] ELSE made(kind)
  IN /\ MakeRoot
     /\ dest' = [p \in Path |->
          IF p = e.path THEN place(p, e.kind)
          ELSE IF p \in Above[e.path] THEN place(p, "dir") ELSE dest[p]]

AtRestorable(r) ==
  pc[r] = "entry" /\ idx[r] <= Len(Entries(r)) /\ Restorable(Entry(r))

\* A directory or a link is one call; a file is created, then filled.
WriteEntry(r) ==
  /\ AtRestorable(r)
  /\ CanCreate(Entry(r))
  /\ Create(r, Entry(r))
  /\ IF Entry(r).kind = "file"
     THEN Goto(r, "copy") /\ UNCHANGED idx
     ELSE idx' = [idx EXCEPT ![r] = @ + 1] /\ UNCHANGED pc
  /\ UNCHANGED <<plans, job, plan, seen, verdict, bounds>>

\* "default: continue": a special file is passed over, and not counted.
SkipEntry(r) ==
  /\ pc[r] = "entry" /\ idx[r] <= Len(Entries(r)) /\ ~Restorable(Entry(r))
  /\ idx' = [idx EXCEPT ![r] = @ + 1]
  /\ UNCHANGED <<tree, plans, job, pc, plan, seen, verdict, bounds>>

EntryRefused(r) ==
  /\ AtRestorable(r)
  /\ ~CanCreate(Entry(r))
  /\ Conclude(r, "FAILED")
  /\ UNCHANGED <<tree, plans, job, plan, idx, seen, bounds>>

\* The file at a path is the one the request created and has not filled.
OpenFile(r) == [kind |-> "file", maker |-> r, of |-> plan[r][1], whole |-> FALSE]

\* restoreFile: the copy into the file it opened, which may be unlinked by
\* now, and the comparison of the digest.
CopyFile(r) ==
  LET p == Entry(r).path
  IN /\ pc[r] = "copy"
     /\ dest' = IF dest[p] = OpenFile(r) THEN [dest EXCEPT ![p].whole = TRUE] ELSE dest
     /\ Goto(r, "entry") /\ idx' = [idx EXCEPT ![r] = @ + 1]
     /\ UNCHANGED <<root, stamp, plans, job, plan, seen, verdict, bounds>>

Written(r) ==
  /\ pc[r] = "entry" /\ idx[r] > Len(Entries(r))
  /\ Conclude(r, "SUCCEEDED")
  /\ UNCHANGED <<tree, plans, job, plan, idx, seen, bounds>>

-----------------------------------------------------------------------------
(* The outcome.                                                             *)

\* UpdateJob: the row moves to its next revision and has no lease any more.
Updated(row, s) == [row EXCEPT !.state = s, !.revision = @ + 1, !.leased = FALSE]

\* executePlanBody's error becomes FAILED, whatever it was.
Recorded(v) == IF v = "UNREAD" THEN "FAILED" ELSE v

\* finishPlanApplyJob: UpdateJob compares the revision.
Finish(r) ==
  /\ pc[r] = "finish"
  /\ job' = IF job[plan[r]].revision = seen[r]
            THEN [job EXCEPT ![plan[r]] = Updated(@, Recorded(verdict[r]))]
            ELSE job
  /\ Leave({r})
  /\ UNCHANGED <<tree, plans, bounds>>

-----------------------------------------------------------------------------
(* Disturbances.                                                            *)

Disturb == faults < MaxFaults /\ faults' = faults + 1
Change == changes < MaxChanges /\ changes' = changes + 1

\* The error exits of ReconcileRestorePlan: the manifest, the publication, the
\* walk, a file's bytes or the request's context.  Only ErrRestoreNotExecuted
\* lets the plan go on.
ReconcileFails(r) ==
  /\ pc[r] = "reconcile"
  /\ Disturb
  /\ Conclude(r, "UNREAD")
  /\ UNCHANGED <<tree, plans, job, plan, idx, seen, contended, changes>>

\* Those of ApplyRestorePlan: a manifest or a blob that cannot be read, a full
\* disk, a request that ends.  The entry is not written, or stays as far as it is.
ApplyFails(r) ==
  /\ \/ pc[r] \in {"inspect", "prepare", "mkdir"}
     \/ pc[r] \in {"entry", "copy"} /\ idx[r] <= Len(Entries(r))
  /\ Disturb
  /\ Conclude(r, "FAILED")
  /\ UNCHANGED <<tree, plans, job, plan, idx, seen, contended, changes>>

FinishLost(r) ==
  /\ pc[r] = "finish"
  /\ Disturb
  /\ Leave({r})
  /\ UNCHANGED <<tree, plans, job, contended, changes>>

Holds(r, k) == pc[r] # "idle" /\ plan[r] = k /\ seen[r] = job[k].revision

\* The ten-minute lease is never renewed: it runs out after a kill, or under
\* an execution that takes longer.
LeaseRunsOut(k) ==
  /\ job[k].leased
  /\ job' = [job EXCEPT ![k].leased = FALSE]
  /\ IF \E r \in Request : Holds(r, k) THEN Disturb ELSE UNCHANGED faults
  /\ UNCHANGED <<tree, plans, control, contended, changes>>

\* handleJobCancel: a running job keeps running, without its lease and at the
\* next revision.
CancelJob(k) ==
  /\ job[k].state = "RUNNING"
  /\ Disturb
  /\ job' = [job EXCEPT ![k] = Updated(@, "RUNNING")]
  /\ UNCHANGED <<tree, plans, control, contended, changes>>

Kill ==
  /\ \E r \in Request : pc[r] # "idle"
  /\ Disturb
  /\ Leave(Request)
  /\ UNCHANGED <<tree, plans, job, contended, changes>>

\* The machine stops: of what was written since, any part is lost, and a file
\* may keep its name without its bytes.  A directory left empty has the time
\* it had before, or a later one.  The job rows are synced.
PowerLoss ==
  /\ Disturb
  /\ Leave(Request)
  /\ \E kept \in SUBSET {p \in Path : There(p)} :
       \E torn \in SUBSET {p \in kept : dest[p].kind = "file"} :
         /\ \A p \in kept : Above[p] \subseteq kept
         /\ dest' = [p \in Path |->
              IF p \in torn THEN [dest[p] EXCEPT !.whole = FALSE]
              ELSE IF p \in kept THEN dest[p] ELSE Nothing]
         /\ root' \in (IF kept # {} THEN {root} ELSE {FALSE, root})
         /\ stamp' \in (IF root' /\ kept = {} /\ ~IsEmpty THEN {stamp, stamp + 1}
                        ELSE {stamp})
  /\ UNCHANGED <<plans, job, contended, changes>>

\* The user empties the destination or removes it, or makes it; not under a
\* restore whose outcome can still be recorded.
UserClears(keep) ==
  /\ ~\E r \in Request, k \in Plans : Holds(r, k)
  /\ ~IsEmpty \/ keep # root
  /\ Change
  /\ dest' = [p \in Path |-> Nothing]
  /\ root' = keep
  /\ stamp' = IF keep THEN stamp + 1 ELSE stamp
  /\ UNCHANGED <<plans, job, control, contended, faults>>

\* The user puts a file into it, at any time.
UserWrites(p) ==
  /\ root /\ ~There(p)
  /\ \A q \in Above[p] : dest[q].kind = "dir"
  /\ Change
  /\ dest' = [dest EXCEPT ![p] = UserFile]
  /\ UNCHANGED <<root, stamp, plans, job, control, contended, faults>>

-----------------------------------------------------------------------------
Work(r) ==
  \/ Reconcile(r) \/ Inspect(r) \/ PrepareDir(r) \/ PrepareMkdir(r)
  \/ WriteEntry(r) \/ SkipEntry(r) \/ EntryRefused(r) \/ CopyFile(r) \/ Written(r) \/ Finish(r)

Next ==
  \/ \E s \in Snapshot : PlanRestore(s)
  \/ \E r \in Request : \/ \E k \in plans : Claim(r, k)
                        \/ Work(r) \/ ReconcileFails(r) \/ ApplyFails(r) \/ FinishLost(r)
  \/ \E k \in plans : LeaseRunsOut(k) \/ CancelJob(k)
  \/ Kill \/ PowerLoss
  \/ \E keep \in BOOLEAN : UserClears(keep)
  \/ \E p \in Path : UserWrites(p)

Spec == Init /\ [][Next]_vars

-----------------------------------------------------------------------------
(* Properties.                                                              *)

\* A restore is recorded as succeeded only while every entry it can restore is
\* in the destination, with its content, whichever attempt wrote it: kills,
\* power losses, takeovers, other plans and the user included.  FIFOs, sockets
\* and devices of the snapshot are not restored, and success does not say so.
SucceededIsRestored ==
  [][\A k \in Plans :
       job[k].state # "SUCCEEDED" /\ job'[k].state = "SUCCEEDED" =>
         \A i \in 1..Len(Manifest[k[1]]) :
           Restorable(Manifest[k[1]][i]) => Matches(k[1], Manifest[k[1]][i])]_vars

\* What is at a path stays until the user or a power loss removes it: no
\* restore replaces a file of the user, of another plan or of an earlier
\* attempt.
NothingIsOverwritten ==
  [][\A p \in Path : There(p) =>
       \/ dest'[p] = Nothing
       \/ [dest'[p] EXCEPT !.whole = TRUE] = [dest[p] EXCEPT !.whole = TRUE]]_vars

\* An attempt that could read the destination does not record a failure while
\* the whole snapshot is there, however often the restore was interrupted
\* before its outcome was recorded, as long as no two requests worked at once.
\* It says nothing of a snapshot with no entry, whose restore leaves an empty
\* destination that the next attempt takes for one not executed, nor of one
\* with a special file, which reconciling refuses.
CompletedIsNotFailed ==
  [][\A r \in Request, k \in Plans :
       /\ pc[r] = "finish" /\ Holds(r, k) /\ verdict[r] = "FAILED"
       /\ job[k].state # "FAILED" /\ job'[k].state = "FAILED" /\ ~contended
       => Manifest[k[1]] = <<>> \/ ~IsSnapshot(k[1])]_vars

\* What the code does not promise; a run of each gives the shortest behaviour.

\* plan_ops.go: "only an absent or empty destination may be written".
OnlyEmptyIsWritten ==
  [][\A r \in Request :
       WriteEntry(r) /\ idx[r] = 1 => IsEmpty]_vars

\* Everything that can be restored, and nothing else.
IsRestored(s) ==
  /\ \A i \in 1..Len(Manifest[s]) :
       Restorable(Manifest[s][i]) => Matches(s, Manifest[s][i])
  /\ \A p \in Path : There(p) =>
       \E i \in 1..Len(Manifest[s]) : Manifest[s][i].path = p /\ Restorable(Manifest[s][i])

\* plan_ops.go: "A restore can finish writing its complete destination and then
\* crash before the PLAN_APPLY job records success.  Reconcile that immutable
\* output first".  It is recorded as failed when the snapshot has a special
\* file, and when reconciling cannot read.
RestoredIsNotFailed ==
  [][\A k \in Plans :
       job[k].state # "FAILED" /\ job'[k].state = "FAILED" /\ ~contended =>
         Manifest[k[1]] = <<>> \/ ~IsRestored(k[1])]_vars
=============================================================================

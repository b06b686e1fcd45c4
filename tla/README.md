# RestoreWeave: specifications, model checking and proofs

RestoreWeave (Go module `github.com/ailiheizi/restoreweave`) is a personal
library and backup daemon. `restoreweaved` scans a source, stores the bytes of
its files as content-addressed objects in a *repository* (a directory, perhaps
on a removable disk), keeps a *catalog* in SQLite, and publishes each ingest as
a signed, append-only chain of *publication commits* that a clean machine can
read without the catalog. Processors (text, book and audio extractors,
embeddings) then add derived facts, which are signed as *children* of the
commit; search generations are built from the catalog and thrown away at will.
Clients talk to the daemon over a socket, MCP or HTTP.

These modules specify the part of the program that must not go wrong when
goroutines, processes and machines interleave, stall or die: who may publish,
what becomes durable in which order, what a caller is told, and what is
recorded. Paths below are relative to `src/server/` unless they start with
`docs/`.

## 1. Inventory

| Component | State it keeps | Operations | Hard behaviours | What makes it correct |
|---|---|---|---|---|
| publication fence: `internal/store/sqlite/publication_fence.go`, `internal/exact/fencing.go` | one row per domain: owner, lease token, fencing token, end of the lease | acquire/renew/take over, validate, release; a keepalive goroutine | clock read before the write lock; renewals racing release; lapses | tokens unique and growing, no early takeover, no reopening |
| repository lock: `internal/repository/publication_lock.go` | an flock per domain | poll, close; lost with the process | stranded lock, cancellation while polling | always given up |
| signed publication: `internal/exact/recovery_publication.go` | prepared closures and commits in the repository | list the lineage, choose token and generation, place the prepared closure, place the commit, observe after a lost answer | a lapse between check and placement, two catalogs, kill between two placements, lost answers | readable chain, one commit per plan, honest answers |
| scanner and capture: `internal/scanner/*.go`, `internal/capture/*.go` | none; the user's directory is its input | bind the root, enumerate, hash, check stability | files written, renamed, replaced while they are read | what it reports was there |
| planning and ingest: `internal/exact/planner.go`, `ingest.go`, `ingest_policy.go`, `ingest_protection.go` | plans, scan generations, roots with subjects, protection records | inspect, compare with the plan, place files, adopt, publish, project, process, sign children, index | files reopened after the scan, scans abandoned after adoption, commit durable but a later step fails | claims are stored, continuity only from what was published, no failure after the commit |
| reconciliation: `internal/exact/reconcile.go` | none | find the plan's publication, finish its projection and children | conflicting leftovers, plain errors | finishes exactly what is missing |
| plan.apply jobs: `controlplane/plan_ops.go`, `job_ops.go`, `internal/store/sqlite/records.go` | a job row: state, revision, attempt, lease | claim, execute, finish; cancel; abandon | requests and cancellation race, daemon killed, lease never renewed | outcomes final and true, jobs settle |
| child closures: `internal/exact/processor_attempt_closure.go`, `portable_fact_closure.go` | two chains of signed closures per commit | export rows, check the successor, sign; build facts, bind, sign | runs that outlive their timeout, several publishers | chains do not fork, rewrite or regress |
| processor host and pool: `internal/processor/host.go`, `pool.go` | attempt rows, artifacts | route, run under a timeout, record | a run given up on still ends and records | a row only from a worker that holds its lease |
| processor retry: `internal/exact/processor_retry.go` | a PROCESSOR_RETRY job | list, claim, reread, reconcile, run targets, sign, finish | takeover, lapse, unknown outcomes, attempts used up | no target twice, success means signed, jobs settle |
| repository: `internal/repository/driver.go`, `records.go`, `profile.go`, `zstd.go`, `encryption.go` | three files at the root, objects by digest | open, place, verify, repair | creation races, link / sync / remove with several placers, power loss | receipts hold, openers agree |
| restore: `internal/exact/restore_plan.go`, `restore.go`, `restore_reconcile.go` | a destination directory | bind a basis, write entries, reconcile with the manifest | killed midway, never synced, two plans and the user at one destination | success only for a complete tree, nothing overwritten |
| search generations: `internal/search/indexer.go`, `zvec_generation.go`, `coverage.go` | generation rows, index files, health flags | rebuild, query, verify, warm up | reads in separate statements, flags after unlock, lexical and semantic generations apart | one feed per generation, never an answer from another feed or a deleted note |
| semantic bundle installer: `internal/search/semantic_installer.go`, `semantic_bundle.go` | the models directory | stage, rename, sync, undo, quarantine, recover | crash between two renames, power loss, a new release | an admitted bundle survives, no tree is destroyed |
| ONNX workers: `internal/processor/onnx_*.go`, `cmd/restoreweaved/main.go` | a lease row, a factory, a child process per call | validate, start, register, request, invalidate | lease lost at any step, hung workers, bundle replaced under them | vectors of the bound bundle, an invalid factory keeps no worker |
| control plane: `controlplane/dispatcher.go`, `server.go` | connections | one goroutine per connection, operation table | concurrent requests | see plan.apply |
| repository migration, reachability, reports, identification, plugins, extractors, ranking, recovery envelopes, other catalog tables, clients, web | data | conversions, reads, single transactions | - | not concurrent; left to tests |

How they interact: a client's plan.apply claims the job of the plan in the
catalog and calls the ingest or the restore. The ingest scans again, compares,
places blobs in the repository and adopts its entries; it then calls the
publication, which takes first the repository's lock and then the catalog's
fence row. After the commit it runs the processor host, signs the children
(under the same lock), schedules a PROCESSOR_RETRY job when a processor failed,
and rebuilds the search generations, calling the semantic workers, which use
the bundle that the installer replaces. A repeated plan.apply reconciles before
it executes. Two daemons may share the catalog, and two catalogs may share the
repository.

## 2. Modules

| Module | Models | Used or proved about by |
|---|---|---|
| `FenceRow` | the row of a lease without a clock: granted, extended, lapsed, held | `Fence`, `Publication`, `SemanticWorker` |
| `Fence` | what the lease promises: abstract specification | `PublicationFence`, which refines it |
| `PublicationFence` | the lease with its clock, attempts, keepalive goroutines | `PublicationProofs` |
| `CommitLineage` | an append-only line of commits, one per plan, growing tokens: abstract specification | `Publication`, which refines it |
| `Publication` | `publishSignedClosure`: repository lock, lease, lineage, two placements, lost answers, kills | `PublicationProofs` |
| `Capture` | scan, plan, comparison, placement, adoption and publication of a directory that changes | `CaptureProofs` |
| `PlanApply` | the PLAN_APPLY job, its executors, reconciliation, cancel and abandon | `IngestProofs` |
| `ChildClosures` | attempt rows, the attempt chain and the fact chain of one commit | `IngestProofs` |
| `ProcessorRetry` | the PROCESSOR_RETRY job and its workers | `ProcessorRetryProofs` |
| `Repository` | creation, opening, placement and repair, with what is visible and what is on disk | `RepositoryProofs` |
| `RestoreApply` | restore plans, their jobs and the destination, entry by entry | `RestoreApplyProofs` |
| `SearchIndex` | rebuilds, generations, health flags and semantic queries | `SemanticSearchProofs` |
| `BundleInstaller` | the renames of the models directory, recovery, undo, power loss | `BundleInstallerProofs` |
| `SemanticWorker` | the daemon's lease, the factory, calls, worker processes, invalidation | `SemanticSearchProofs` |
| `MC...` | constants of the model-checking runs | |

The composition is assume-guarantee, from the bottom up. `PublicationFence`
shows that the clocked lease is a `Fence`; `Publication` and `SemanticWorker`
use the same rows (`FenceRow`) and let them lapse at any moment, which covers
every clock. `Repository` shows what one placement makes durable; `Publication`
and `Capture` take a placement as one step, whose answer may be lost.
`Publication` shows that commits form a `CommitLineage` and that publishers
under the repository lock exclude one another; `PlanApply`, `ChildClosures` and
`ProcessorRetry` therefore take a publication as: lock, place, an answer that
may be lost, unlock. `Capture` and `PlanApply` are two views of one request:
the job and its outcome in `PlanApply`, where capturing is one step that may
fail, and the directory, the catalog and the repository in `Capture`, where the
claim of the job is the guard of `ApplyIngestPlan`. `ChildClosures` shows what
runs that land late do to the two chains, so `ProcessorRetry` signs what its
catalog holds in one step. `BundleInstaller` shows what may be at the bundle
root, which `SemanticWorker!ReplaceTree` takes as any tree or none.

### State and actions, and the code

**PublicationFence.** `row` is the `publication_fences` row; `now` is the
machine's clock, `clk` and `kclk` the readings an attempt and its keepalive
took with `s.now()` before `BEGIN IMMEDIATE`. `Acquire`, `Validate`, `Release`
are the three transactions; `BeginAcquire`, `BeginValidate`, `BeginRelease` the
clock readings before them. `BeginRenew`/`RenewFence`/`CancelRenew` are the
ticker branch, `StopRenewing` the `cancel` and the wait for `keepaliveDone`. `Place`
is whatever the attempt does under its lease. A holder that acquires again with
an expired lease token is refused only while the row still names that token
(line 101): the guard of `MayTakeOver`.

**Publication.** Each attempt runs one `publishRecoveryClosure`. `LockMutex` to
`RefuseLease` are `acquirePublicationLease`; `ListCommits` reads the whole
lineage, checks the plan, and chooses generation, parent and token (`NextRecord`,
with the coordination token as lower bound); `CheckBefore`/`CheckAfter` are the
four calls of `validatePublicationFence`, `PlacePrepared(Unread)` and
`PlaceCommit` the placements with every answer they can give, `Observe` is
`reconcileUnknownPublicationOutcome`, `ReleaseLease` and `Unlock` the deferred
release. `Kill(p)` ends a process with all its attempts; the kernel drops its
flock, the lease row stays. Digests and signatures are identity: a commit is
readable when the chain rule of the reader holds for it (`Readable`).

**Capture.** `root`, `dir` and `tree` are the user's directory: of an inode's
metadata the comparisons only tell whether two readings agree, so it is the
number of the change that made it. A request is one record `at[r]`. `Capture`
is captureForIngest, for `InspectIngest` or `ApplyIngestPlan`; the scan is
`LstatRoot`, `ReadDir`, then for each name `Lstat`, `OpenRegular`, `ReadHead`,
`ReadTail` (a read in two halves, so that a writer comes between) or `Readlink`,
and `PostStat`, the stability check; `LstatRootAgain` closes it. `RecordPlan`
ends an inspection; `Compare` checks qualification, basis and locators of a plan
that is applied. `BeginCatalog` draws the scan generation, `PlaceFile` is one
turn of placeFiles, `Adopt` the transaction with the subjects
(`ResolveNamespaceSubjectRef`), the root (`InsertRoot`) and the protection records
(`UpsertProtection`), then `FinishScan`, `Publish`, `Project`. `Reconcile`
projects what was committed and not projected. `StepFails`, `ScanFails`,
`CommitAnswerLost` and `Kill` are the faults. The user writes, writes without
moving size or time of modification, renames, and the root is replaced.

**PlanApply.** `job` is the row (state, revision, attempt, fence, lease). A
request walks `find`, `lease`, `reread`, `reconcile`, and then either the
children that are missing or a first execution: `capture`, `prepared`, `commit`,
`project`, `process`. `Finish` is `finishPlanApplyJob` with the revision it
read; `FinishLost` a write that fails. `CancelJob`, `CheckAbandon` /
`MarkAbandoned`, `LeaseRunsOut` and `Kill` are the disturbances.

**ChildClosures.** A run starts (its `created_at`), ends later with a row, or is
lost with its process. Publishers run `ExportAttempts` / `PlaceAttempts`
(`publishProcessorAttemptClosure`) and `BuildFacts` / `BindFacts` /
`PlaceFacts` (`publishPortableFactClosure`) under the repository lock.
`AttemptsRead` and `FactsRead` are the readers' checks: a publisher whose own
reading fails returns (`Refuse`).

**ProcessorRetry.** A worker runs `List`, `Claim` (AcquireJobLease), `Reread`
(GetJob), `CheckInput`, `Reconcile` for a job found in NEEDS_RECONCILIATION, or
`SkipTarget` / `RunTarget` / `RunEnds` per target with the lease checks of
`host.go`, then `SignAttempts`, `SignFacts`, `Finish` (lease validation) and
`Record` (UpdateJob). `LeaseLapses`, `CancelJob`, `KillWorker` disturb it.

**Repository.** The three root files, every object and every prefix directory
have what a process sees and what a power loss leaves. Opening is `ReadMarker`,
`CheckUnmarked`, `LinkMarker`, `ReadMetadata`, `LinkMetadata`, `LoadIdentity`,
`LinkIdentity` and the root's `SyncRoot`; placing is `Stage`, `LookForObject`,
`LinkObject`, `SyncPrefix`, `SyncParents`, on a failed sync `Retract`, and
`Unstage`; repair is `StageRepair`, `Inspect`, `Replace`, `SyncRepair`. A
receipt says whether the placer linked the object itself. `Damage` rots a
file, `PowerLoss` returns everything to what is on disk and ends all processes.

**RestoreApply.** `dest` has what is at each path: who made it, of which
snapshot, whole or not. `PlanRestore` binds a snapshot to the destination as
it is; `Claim` leases the job, `Reconcile` is `ReconcileRestorePlan` (the
comparison of a tree that may be there already), `Inspect` the check of the
basis, `PrepareDir` and `PrepareMkdir` the destination itself, `WriteEntry`,
`SkipEntry`, `EntryRefused` and `CopyFile` the entries in sorted order, `Finish`
the job's outcome under the revision that was leased. A manifest names FIFOs,
sockets and devices too (`Restorable` tells them apart): the restore passes over
them, and the reconciliation of the same tree refuses them. `ReconcileFails` and
`ApplyFails` are the error exits of the two halves of executePlanBody; what
reconciling could not read (`"UNREAD"`) is recorded FAILED like what it judged
(`Recorded`). `PowerLoss` drops names and contents at will, since nothing is
synced, and the destination with them or without; `UserClears` and `UserWrites`
are the user.

**SearchIndex.** A root is `<<source, scan generation>>`, a note any durable
text a hit is checked against, of a subject of one source. The root of an empty
directory (`bare`) has no entry in the catalog, as adoption skips ".", so it is
among the latest roots and not among the latest entries. `BeginScan`, `Publish`, `WriteNote`,
`DeleteNote` change the catalog; a rebuild is `LockRebuild`, `ReadEntries`,
`ReadFacts`, `BuildLexical`, `BeginSemantic`, `BuildSemantic`, `AdmitSemantic` or
`FailSemantic`, `UnlockRebuild` and, after the unlock, `StoreHealth`. A
semantic query is `StartQuery`, `CheckFeed`, `EnsureVerified`, `AnswerQuery`.
`ReplaceLibrary`, `Restart` and `Warm` change what this process may trust.
`inherited` is a history variable, the generations a process found when it
started; with it `Settled` names the lexical generation of a rebuild that has
ended well, which a query notes when it begins (`due`).

**BundleInstaller.** `dir` is the models directory: the destination, the active
backup, the historical and rejected siblings; `unsynced` the states a power
loss may return to. A request is `RequestOnline` or `RequestOffline`, recovery
(`LookAside` to `SyncRecovery`), `Reuse` or a staged candidate
(`DownloadCandidate`, `CopyCandidate`), `PublishCandidate` and `SwapIn`, `SyncSwap`,
`Verify`, `Finalize`, `SyncHistory`; what fails after the swap is undone by
`QuarantineNew`, `UndoOld`, `SyncUndo`. `Upgrade` starts another release.

**SemanticWorker.** `row` is the lease row of the daemon's domain. A call is
`Check`, `Renew` (validateFence), `LoadBundle`, `Admit`, the second validation,
`ChildAdmits`, `ChildStarts`, `Register`, `Request`, `TakeReply`, `Unregister`,
`CloseSession`. Invalidate is `Flag`, `Take`, `CloseTaken`, by a call, a
monitor, the keeper or the shutdown. `KeeperRenews`/`KeeperRefused` are
keepSemanticLeaseAlive, `MonitorRenews`/`MonitorRefused` the lease monitor of a
worker, `Stop` to `Exit` the shutdown. `Lapse`, `TakeOver`, `ReplaceTree`,
`Cancel` and `ChildDies` come from outside.

## 3. Runs

| Run | Question | Instance and why it is enough |
|---|---|---|
| `fence` | Is the clocked lease safe, and a `Fence`? | three attempts, lease 2, clock to 4: a lease expires under its holder, is taken over, expires again and meets a stale renewal; symmetric in attempts |
| `publication` | Do the chain and the answers survive lapses, kills, lost answers, two catalogs? | three attempts, three processes, two catalogs, two attempts for one plan: a predecessor, a duplicate and a foreign writer |
| `publication_live` | Is the lock given up and do attempts return? | two attempts, two processes, one catalog; no symmetry, for liveness |
| `plan_apply` | Are outcomes of plan.apply true and final, and do jobs settle? | two requests, two attempts, two disturbances: a job is taken over, and may run out of attempts |
| `child_closures` | Do the chains of children fork, rewrite or regress? | two subjects, two publishers, three runs: chains of three, and a row between two that are signed |
| `processor_retry` | Are targets run once, outcomes signed, open jobs taken up? | two workers, two targets, two attempts, one kill or cancellation; lapses unbounded |
| `repository` | What does a receipt promise, and do openers agree? | two processes race to create an encrypted repository and to place a blob and a record naming it; two faults: a failed sync of one placer and a power loss |
| `search` | Which feed do generations and answers come from? | two clients, one querier, one source, one note, two scans of it, three generations, two library replacements or restarts: a rebuild is overtaken, one fails between its two halves, an empty directory is published between the reads of another; states that differ only in the reported latch, or in what a rebuild that has ended once read, are taken for one (`VIEW Decisive`: no action and no property reads them) |
| `installer` | Does the bundle survive, and is anything destroyed? | three bundles, two releases, three requests, three faults: an installation interrupted, its recovery interrupted, and an upgrade between |
| `semantic_worker` | Whose vectors, and do workers stop? | one daemon and another attempt at its lease, one call goroutine with two calls, one lapse, one replacement, with and without the sandbox |
| `restore` | Is a recorded success true, and is anything overwritten? | two requests, three paths, two snapshots, one with a FIFO where the other has a directory, two plans, two attempts each, two faults, one change by the user: an interrupted restore is reconciled beside another plan |
| `capture` | Was what is adopted there, is what is claimed stored, which scans count? | two symmetric requests, a readable file and one that is not, two contents, two plans, two scans, two changes, one fault: a plan is applied twice, between two changes, after an abandoned scan |

What the properties say, beyond types.

* `TokensDistinct`, `NoEarlyTakeover`, `ReleasedStaysClosed` are what a fencing
  token is for, and `ImplementsFence` that the clock adds nothing to the lease.
* `LineageReadable`, `PreparedBeforeCommit` and `ImplementsLineage` relate all
  commits that any process of any catalog ever placed (one per plan among them);
  `ResultIsHonest` relates what a caller was told to what is durable, also later:
  a plain error is given only for a commit that never becomes durable.
* `UndisturbedFailureIsHonest`, `SucceededIsPublished` and `OutcomeIsFinal` relate
  the job to the repository and to its own past.
* `AttemptLineage`, `FactsNeverRegress` relate every pair of closures of a chain;
  `RetryOnce`, `SucceededIsSigned` a job, its rows and what is signed.
* `PlacedReceiptIsDurable`, `ReceiptKeepsItsSetting` relate a receipt to every later
  state of the disk, and `OpenersAgree` processes that raced to create.
* `GenerationIsOneFeed`, `GenerationsNeverRegress`, `DeletedNoteNeverAnswered`,
  `AnswerIsOfTheFeed`, `ReadyIsVerified` relate generations and answers to the
  catalog at the moment they were built or asked, and the capability to evidence.
  Two of them say less than one might wish, as the code does: a generation may
  record a root without its entries when the source was published empty, and a
  default answer is of the same entries and notes as the lexical lane only in
  the process whose rebuild has ended (`due`); during a rebuild, and after a
  restart, the code compares primary roots.
* `BundleSurvives`, `RecoveredServes`, `NoTreeDestroyed` relate the directory to
  its history through every interruption.
* `VectorsOfTheManifest` relates a reply to the bundle the index is bound to,
  `InvalidStopsWorkers` the factory's flag to every worker that could still reply;
  `SupersededStops` and `CallsReturn` are what must eventually happen.
* `SucceededIsRestored`, `NothingIsOverwritten`, `CompletedIsNotFailed` relate
  the job of a plan to the destination at the moment of recording, and what is at
  a path to what was. Success is of the entries that can be restored;
  `CompletedIsNotFailed` is about attempts that could read what they reconciled,
  and says nothing of a snapshot with a special file, which no attempt recognises.
* `ContentWasThere` relates plans and adopted scans to the directory's history,
  `ClaimsAreStored` catalog and repository, `SubjectsArePublished` a scan to the
  scans before it.

All bounds are named constants: `MaxTime` (clock), `MaxAttempts` (the code's 3,
or 2), `MaxRuns`, `MaxScans`, `MaxGenerations`, `MaxRequests`, `MaxPlans`,
`MaxCalls`, `MaxLapses`, `MaxReplaced`, `MaxChanges` (the user's directory) and
`MaxFaults` (disturbances). Each attempt of `Publication` runs once; repetition is
another attempt. `capture` has the state constraint `OneScan`: two scans only
read the directory, so one at a time is interleaved with the user and with a
request that places and adopts. Deadlock checking is off in all runs: every model
ends, when attempts have returned, bounds are reached, or jobs are settled.
Symmetry is used in safety runs only.

### Fairness

* `Publication!FairSpec`: weak fairness of each attempt's own steps, since a
  goroutine that is not blocked goes on; polling for the flock is such a step,
  and giving up on it (`AbandonLock`, a cancelled context) is not forced. Weak
  fairness of polling suffices because an attempt runs once, so a lock that is
  free stays free when nobody else wants it.
* `PlanApply!FairSpec`: requests are served, a client repeats plan.apply until it
  is answered (`Begin` is such a step), and a lease of ten minutes runs out.
  `ApplySettles` is stated for behaviours with fewer disturbances than
  attempts: the code has no fourth attempt.
* `ProcessorRetry!FairSpec`: workers poll (`RunProcessorRetryWorker`) and go on,
  and an orphaned lease runs out. Nothing says a target ever succeeds.
* `SemanticWorker!FairSpec`: the daemon's goroutines go on. Nothing is assumed of
  the worker processes, which may hang for ever, of clients, of the clock or of
  the installer; timers of the transport are steps of the call.

### Further configurations

These instances are not among the runs. Each checks a statement that a
comment or a reader might expect of the code, and TLC finds a behaviour of the
code that does not keep it; of a configuration with several statements, one is
checked at a time.

| Configuration | Statement | What happens |
|---|---|---|
| `MCPublicationFenceReuse.cfg` | `ExpiredTokenNeverReused` | an expired lease token is granted again once another attempt has taken the row over and let it expire (`publication_fence.go:95-101`); fencing stays safe, the domain is blocked for one lease |
| `MCPlanApplyFailed.cfg` | `FailedMeansUnpublished` | a durable publication whose reconciliation ends in a plain error is recorded FAILED for good (`plan_ops.go:323`) |
| `MCPlanApplyAbandoned.cfg` | `AbandonedMeansUnapplied` | plan.abandon and plan.apply interleave, and the plan is both (`plan_ops.go:731`) |
| `MCChildClosuresAttempts.cfg` | `SignedAttemptsStayExtendable` | rows are listed by start time; after a late row no further attempt closure of the commit is signed (`processor_attempts.go:138`) |
| `MCChildClosuresFacts.cfg` | `FactsStayReadable` | a fact closure names an artifact its attempt closure does not; its reader refuses all fact closures of the commit (`portable_fact_closure.go:277`) |
| `MCProcessorRetryReconciled.cfg` | `SucceededMeansRetried` | a retry whose targets failed and whose closure was unknown becomes SUCCEEDED at the next claim (`processor_retry.go:240`) |
| `MCRepositoryReceipts.cfg` | `DurableRecordNamesDurableBlobs` | a placer that found a blob in place answers without syncing its directory; after a power loss a durable record names a blob that is gone (`driver.go:204`) |
| `MCSearchIndexLimits.cfg` | `HealthyIsCurrent` | the health flags of an earlier rebuild are stored after a later one's (`indexer.go:249`) |
| | `NewestIsIndexable` | the publication committed last is not of its source's highest generation, and the rebuild it calls for is refused (`annotations.go:431`) |
| | `RootsAreIndexed` | an empty directory is published between the reads of the roots and of the entries: the generation records the root of before and none of its entries, and no entry is there to fail the scope check (`indexer.go:286-353`, `ingest.go:496`) |
| | `AnswerHasTheLatestNotes` | a note is written, the lexical generation is there and the semantic one not yet, or never since it failed and the daemon was restarted: a default query answers from the vectors of before, as only primary roots are compared (`indexer.go:783`, `808-822`) |
| `MCBundleInstallerWedged.cfg` | `PublishedIsFinalized` | a crash after the swap leaves a backup this release does not admit beside an admitted bundle, and requests are refused (`semantic_installer.go:533`) |
| `MCSemanticWorkerCancelled.cfg` | `UnavailableLostItsLease` | a client that goes away while its call renews the lease invalidates the provider until the daemon is restarted (`onnx_provider_factory.go:145`) |
| `MCRestoreApplyLimits.cfg` | `OnlyEmptyIsWritten` | between the check and the first entry another plan or the user writes; the tree is of two snapshots, and neither is recorded as succeeded unless complete (`restore.go:216`) |
| | `RestoredIsNotFailed` | everything that can be restored is written, the daemon is killed, and the next attempt records FAILED: the snapshot has a FIFO, which reconciling refuses (`restore_reconcile.go:127`, `178`), or reconciling could not read (`restore_reconcile.go:48-85`, `plan_ops.go:358`) |
| `MCCaptureSubjects.cfg` | `SubjectsContinue` | two requests adopt before either is projected: the subject of a name is split (`namespace.go:183-189`, `ingest.go:134`) |

## 4. Findings

No run states a finding: what the further configurations show is described
there. Limits of the code met while modelling, which no configuration states:
a job killed in its last attempt stays RUNNING or NEEDS_RECONCILIATION
(`records.go:856`, `plan_ops.go:282`); a kill between the attempt closure and
`scheduleProcessorRetry` loses the retry (`ingest.go:170-178`); a restore to an
absent destination that failed cannot be repeated with the same plan, since the
destination exists by then (`plan_ops.go:936`); a manifest without entries for
its directories is restored, but its reconciliation finds an unexpected path
(`restore_reconcile.go:114`); a restore of a snapshot without entries, killed
before its outcome was recorded, fails when repeated, since the empty directory it
made counts as not executed and is no longer the plan's basis
(`restore_reconcile.go:87`, `restore_plan.go:85`); a directory entry that is not writable is created
before its children (`restore.go:80`); the newer of two published generations may
list an earlier state of the directory, since its number is drawn after the read
(`ingest.go:202`); a restore passes over FIFOs, sockets and devices and is
recorded SUCCEEDED without saying so (`restore.go:103`); a scan that was adopted and never published has revised
protection records (`protection.go:224`); a plan can have a content no file ever
had, when a write in the midst of the hash left size and time of modification
alone (`internal/capture/facts.go:14`), but what is adopted was read once more.

## 5. Proofs

Every theorem is proved for all values of the constants under the assumptions
named in its component's module; `PROJECT.json` lists them. Each proof module
has one lemma per action, cited by the step that splits `Next`. Three proof modules
hold the proofs of two components each, and no fact of the one is used for the
other: the lease and the publication under it (`PublicationProofs`), what an
ingest does to a plan's job and to the children of its commit (`IngestProofs`),
and the semantic lane (`SemanticSearchProofs`).

**PublicationProofs**, PublicationFence (`TTL \in Nat \ {0}`, `NoAttempt \notin Attempt`,
`MaxTime \in Nat`): `TokensAreDistinct`, `ReleaseIsFinal`, `TakeoversWait`,
`TokensOnlyGrow`, `FenceRefinement`. `LeaseInv` strengthens the properties with:
clock readings are in the past, so a lease judged expired by a reading is
expired in fact; no attempt has a token above the row's; an attempt is unknown
to the row until it acquires; and after `stopKeepalive` returns no renewal is in
flight. The last is why release is final: it is the wait for `keepaliveDone`, not
the cancel, that the proof uses. The refinement maps the row's end of lease to
"live" at the current time, and the tick past it to the abstract `Lapse`.

**PublicationProofs**, Publication (any attempts, processes, plans and catalogs):
`LineageStaysReadable`, `ClosuresComeFirst`, `ResultsAreHonest`, `PlansCommitOnce`,
`TokensAreKept`, `LineageRefinement`. `PublicationInv` says that attempts inside
the repository lock hold it (`LockExcludes`), that commits are numbered 1..n with
a last one (`LineHasEnd`), and that what an attempt has signed since it listed
them still continues the line (`RecordsContinue`): nothing is placed in between
because nobody else is inside. The argument never uses the lease: expired
attempts may well place a commit, and it is the lock that keeps the chain
linear. This is worth knowing, since `publication_lock_other.go` calls the SQLite
fence the portable boundary. The lease matters for what the theorems about it
say and for `TokensAreKept`.

**CaptureProofs** (any names, contents and first tree, any requests and
resolutions, any protection modes, any bounds): `CapturedWasThere`, `ClaimsHold`,
`ContinuityIsPublished`. In `CaptureInv`, `Dated` says that metadata numbers only
changes that have been, and `Recorded` that the histories have what is there now;
so a name that still has the metadata of an earlier reading has been left alone
since, or was written unseen. On that rest `Lists` (as long as root and directory
stand still, what is listed and what is scanned make up what is present) and
`Reads` (as long as the snapshot stands, what was read is what is there, unless a
write escaped the snapshot; what was read in two halves that agree was there in any
case). `Held` keeps it for the entries emitted: a complete entry was there, unless
it is torn and a write escaped. A torn content is what no file has, and
`placeFiles` gets only what it reads again past the digest of the scan; hence the
exact claims were there although a write escaped the scan. `Applier` says that the
generation of a request has the request's own basis, and that the contents it
claims are stored except for those it has still to place, so nothing is adopted
before. The user's changes need a lemma of their own, `ScannerMoves`: whatever
they do to the tree, a request that could be deceived has lost its snapshot, or
the write is in `unseen`. `Allocated` has a newest published scan as part of the
invariant, since finding a maximum would take induction.

**RepositoryProofs** (any processes, profiles, key references, blobs, records and
number of faults; `Absent` is no identity): `PlacedReceiptsHold`,
`SettingsAreKept`, `OpenersAlwaysAgree`. `IInv` has three parts. `Settled`: what an
opener has accepted as profile, key and identity is what everybody sees, from
the step at which it read or linked it on; as no root file is ever replaced
(`RootGrows`), it stays so until a power loss, and that closes all processes.
`Alone`: between its link and its receipt a placer is the only one that linked
its object, so a failed sync removes no object of another's receipt. `Placing`
and `ReceiptsHold`: when the sync is through, object, directory and the three
root files are on the disk with the placer's own setting (`Secured`, `Sealed`),
which no later step can undo. `ContentsMarked` is needed for rot: a rotten
object still counts as one that is there.

**BundleInstallerProofs** (any bundles, releases with at least one pinned bundle,
any number of requests and faults): `BundleAlwaysSurvives`, `RecoveryServes`,
`TreesAreKept`. `IInv` states survival for all directories a power loss may still
return to (`Possible`), not only for the current one: `ServedHeld` and `EverHeld`
are the properties over `Possible`. The rest says where an aside tree is while
a replacement can be undone (`ServedAside`, `AsideThere`) and that recovery leaves
none (`AsideHandled`).

**SemanticSearchProofs**, SemanticWorker (any daemons, calls, profiles and bounds):
`VectorsAreOfTheManifest`, `InvalidationIsComplete`. `UsedIsKnown`: a worker in use
is registered with its factory, or an Invalidate has taken it and will close
it; `FlaggedTakes`: an invalid factory still has registered workers only while
the Invalidate that set the flag has not taken them yet. Together they leave no
worker that registered too late to be stopped. `Bound` follows a session's
profile from its admission to the reply.

**SemanticSearchProofs**, SearchIndex (any sources, notes, rebuilding clients and
queries, any number of scans, generations, restarts and replaced libraries):
`GenerationsAreOneFeed`, `GenerationsAdvance`, `DeletedNotesStayOut`,
`AnswersAreOfTheFeed`, `ReadinessIsEvidence`. In `IndexInv`, `Rebuilds` says that a
rebuild between lock and unlock holds the mutex and that the scope it has read
covers every generation there is, so the generation it inserts goes back in no
source; nothing but the mutex is needed for that, since publications that land
meanwhile only make the latest roots later. The scope has one root per source
(`OneToASource`), and each published root is covered by a latest one, so entries
inside the scope are those of every root of it but the sources published empty
(`Emptied`): this is all the check of the entries gives, as roots and entries are
read apart. `Paired` is why a default answer has the entries and notes of the
lexical lane: once a rebuild of this process has ended and its semantic half did
not fail, the latest generations of the two dimensions are of one feed, and a
failure shuts the lane until a rebuild ends well. It needs a generation above
`inherited`, since a restart forgets the failure.
`Evident` (the latest semantic generation was verified by this process, against
the library it is bound to) holds whenever readiness does, and once a rebuild is
to admit its generation; between, `rebuildSemantic` has withdrawn readiness, and
needs to: the row it inserts is at once the latest. `Fed` is carried by a query
from `CheckFeed` on. A deleted note stays deleted, so the admission of the hits
by the row read last decides (`Queries`).

**RestoreApplyProofs** (any requests, and any snapshots whose manifests pass
`PrepareManifest`): `RestoreIsComplete`, `RestoreOverwritesNothing`,
`RestoreFailureIsHonest`. The heart of
`IInv` is `Wrote`: as long as a request can still record its outcome (`Leased`:
it has the revision it leased), every entry it wrote or found is in the
destination as its manifest has it, special files excepted. A destination that is
lost or emptied takes the lease with it, so the record is refused; `NotAhead`
keeps a stale request from matching a later revision.
For the honest failure `SInv` follows the request that works alone (`Alone`: until
two have worked at once, at most one is at work): since reconciliation found the
destination free, or not the snapshot, none of the entries it has still to write
is there (`Short`), and what the user writes meanwhile is the content of no
snapshot (`UserAssumption`, the only assumption about the user). What reconciling
could not read is outside of `Short`, and so of the theorem. Writing an entry
never makes the place of a later one, as parents are sorted first
(`LaterStayOpen`).

**IngestProofs**, ChildClosures (any subjects, publishers and number of runs):
`AttemptsAreOneLine`, `FactsOnlyGrow`. Publishers past the lock hold it
(`Excludes`), so a draft still continues its chain when it is placed, however
long ago it was made (`DraftsAttempts`, `DraftsFacts`). The successor check of the
code only compares with the last closure; `LineageGrows` derives the order among
all of them. That a chain has a last closure is part of the invariant (`Chains`),
since finding a maximum would take induction. For the facts it matters that
rows are never deleted: a closure bound to nothing can only follow closures
bound to nothing, as artifacts, once admitted, stay (`BoundIsNewest`).

**IngestProofs**, PlanApply (any requests, subjects, attempts and disturbances):
`SuccessIsPublished`, `FailureIsHonest`, `OutcomesAreKept`, `ExecutorsExclude`. `Reports`
says that a request about to report success has projected a committed
publication, and holds whatever happens, as neither is ever undone. The other
two need who is executing. `Executes`: as long as no executor was overtaken
(history variable `overtaken`), one that executes has the lease and knows the
revision its claim made, and nobody else executes. `Honest` and `Undisturbed`:
before the first disturbance a running job has such an executor, so it is
claimed once, from QUEUED, when nothing is committed; an execution that ends
FAILED then left nothing. For the finality of outcomes, `Knows` relates the
revision a request has seen to the job: who knows the present one when it
claims found the job open, so no stale request leases a job that awaits
reconciliation; a replay works on a job that ended, and that stays ended.
`Replays` is why a job promoted to SUCCEEDED lacks no children: nobody adds rows
to a publication while its job awaits reconciliation, unless an executor was
overtaken, which `OutcomeIsFinal` excepts.

**ProcessorRetryProofs** (any targets, workers, attempts and faults, leases that
lapse at any moment): `TargetsRunOnce`, `SuccessIsSigned`, `ClaimsAreCounted`,
`OutcomesAreFinal`. Per worker, `Knows` relates what it has reread to the row: who
knows the present revision knows the present attempt, but only the lease tells
whether the claim was its own. `Current` says that what the holder listed of the
targets it has not been through is what there is, since nobody else inserts
rows; `Reports` that what it has signed stays complete as long as it may report
it. `LeaseBeside` is the step that carries it: nothing ever gives a worker back
a lease or a revision that it lost.

The modules' type theorems (`...Types`, `TypeCorrect`) come with them. Of the
proved properties, six have no run of their own: `TokensMonotone`,
`OneTokenPerAttempt`, `AttemptsAreClaims`, `ProcessorRetry!OutcomeIsFinal`,
`OneCommitPerPlan`, which is implied by `ImplementsLineage`, and what
`ExecutorsExclude` states.

Model-checked only: all liveness (`LockIsGivenUp`, `AttemptsReturn`, `ApplySettles`, `RetrySettles`,
`SupersededStops`, `CallsReturn`), which is out of the prover's reach. No module
declares a recursive operator, and no proof needs induction over data.

## 6. Not modelled, and why

* Codecs, canonical JSON, signatures, digests, compression, encryption: assumed
  injective and unforgeable, as the code uses them. What is modelled of them is
  what a reader is told under another setting (`Repository!Readable`).
* Repository migration (`migration.go`): called by tests only at this commit.
* Reachability, savings, capacity, snapshots, diff, verify: readers of immutable
  objects whose result is a report. Exports write into a fresh directory.
* Portable recovery envelopes: the fields are data; the chain conditions their
  reader checks are in `Publication` and `ChildClosures`.
* Ranking, projection of documents, coverage reports: stateless, and floating
  point is out of TLC's reach.
* Extractors, embedding, RPC framing, sandbox: they enter as a run that succeeds,
  fails, hangs or ends late.
* Dispatcher, read services, views, content, descriptions, configuration: one
  read or one catalog transaction per request; SQLite serialises them. Notes and
  publications appear where another component depends on them (`SearchIndex`,
  `Capture`).
* Schema migrations: DDL in one transaction.
* Identification and plugins: pure classification.
* Clients, web interface, packaging: send one request and show the answer.
* The repository lock where flock is not built: it only returns an error.

The parts that are modelled partly, and what they leave out, are in
`PROJECT.json` under `components`. Subdirectories in `Capture` are one level:
each level of the scan repeats the same steps on its own handle.

## 7. Plan

Done: the fence, publication, plan.apply with both bodies, capture and ingest,
children, retries, the repository, restore, search generations, the semantic
bundle and its workers; proofs of all eleven of them. Left: the composition of
`PlanApply` with `ProcessorRetry` around `scheduleProcessorRetry`.

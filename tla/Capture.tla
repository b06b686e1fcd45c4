------------------------------ MODULE Capture ------------------------------
(***************************************************************************)
(* Capturing a directory: plan.ingest scans it and records what it found as *)
(* a plan (exact/planner.go InspectIngest); plan.apply scans it again,      *)
(* compares, places the files in the repository, adopts the entries in the  *)
(* catalog and publishes them (exact/ingest.go), while the user goes on     *)
(* working in the directory, other plans are applied, the root is replaced  *)
(* and the daemon is killed.                                                *)
(*                                                                         *)
(* Of an inode's metadata the comparisons only tell whether two readings   *)
(* agree, so it is the number of the change that made it.  A rename or a   *)
(* removal changes the metadata of the file and of the directory.  A write *)
(* in place may leave it alone: the snapshot has the size and the time of  *)
(* modification and not the change time, so a write of as many bytes is    *)
(* not seen when it falls in the same tick of the clock or sets the time   *)
(* back.  One level of the tree is modelled; a directory below is scanned  *)
(* as the root is.  A read is two halves, so that a writer can come        *)
(* between.                                                                *)
(*                                                                         *)
(* The claim on the plan's job is in PlanApply, the commit in Publication,  *)
(* the placement of one object in Repository.                               *)
(***************************************************************************)
EXTENDS Naturals, Sequences, FiniteSetsExt

CONSTANTS
    Names,        \* names the directory may have
    Contents,     \* contents of files and targets of symbolic links
    Start,        \* what each name may be at first
    Becomes,      \* what each name may become
    Request,      \* requests at work
    DefaultMode,  \* the protection mode of the service
    FileMode,     \* modes given to single files: a function on some names
    Located,      \* files an external locator was given for
    Resolutions,  \* sets of files whose metadata-only resolution is approved
    MaxPlans,     \* bound: plans inspected
    MaxScans,     \* bound: scan generations begun
    MaxChanges,   \* bound: changes of the directory
    MaxFaults     \* bound: failed steps and kills of the daemon

Exact == {"STORE_EXACT", "STORE_EXACT_WITH_EXTERNAL_FALLBACK"}
Modes == Exact \cup {"LINK_ONLY", "METADATA_ONLY"}

Absent == [kind |-> "none", data |-> "none"]
Unreadable == [kind |-> "file", data |-> "unreadable"]
Torn == "torn"        \* what a read that a writer came between adds up to
Things == [kind : {"file", "link"}, data : Contents] \cup {Absent, Unreadable}

ASSUME TreeAssumption ==
    /\ {"none", "unreadable", Torn} \cap Contents = {}
    /\ Start \in [Names -> SUBSET Things] /\ Becomes \in [Names -> SUBSET Things]

ASSUME PolicyAssumption ==
    /\ DefaultMode \in Modes
    /\ DOMAIN FileMode \subseteq Names /\ FileMode \in [DOMAIN FileMode -> Modes]
    /\ Located \subseteq Names /\ Resolutions \subseteq SUBSET Names

ASSUME BoundsAssumption ==
    {MaxPlans, MaxScans, MaxChanges, MaxFaults} \subseteq Nat

VARIABLES
    root,        \* which directory the path names
    dir,         \* the directory's metadata
    tree,        \* what is at each name, with its metadata
    change,      \* changes so far
    been,        \* history: [name, thing, meta] ever
    listed,      \* history: [meta, names] of the directory ever
    unseen,      \* history: [name, meta] of writes that left the metadata alone
    stored,      \* contents verified in the repository
    plans,       \* the plans recorded
    scans,       \* scan_generations with what was adopted under them
    protection,  \* protection_records: the content claimed, by subject
    at,          \* of each request: where it is, and what it holds
    faults       \* faults so far

source  == <<root, dir, tree, change, been, listed, unseen>>
catalog == <<scans, protection>>
vars    == <<source, stored, plans, catalog, at, faults>>

Meta == 0..MaxChanges
Plan == 1..Len(plans)
Scan == 1..Len(scans)
Present == {n \in Names : tree[n].thing # Absent}
First(S) == CHOOSE n \in S : TRUE          \* entries are sorted by name
Nothing == [n \in {} |-> Absent]

\* A request at rest.  plan: what it applies, 0 when it inspects; root, meta:
\* the directory it has bound; todo: names it has still to scan or to place;
\* item: the entry it is at; entries: those it has scanned; whole: the entry
\* of the directory itself is COMPLETE; seen: contents it has placed; gen: the
\* generation it has begun.
Rest ==
    [pc |-> "idle", plan |-> 0, approved |-> {}, root |-> 0, meta |-> 0, todo |-> {},
     item |-> [name |-> "none", thing |-> Absent, meta |-> 0, data |-> Torn],
     entries |-> Nothing, whole |-> FALSE, seen |-> {}, gen |-> 0]

Init ==
    /\ root = 0 /\ dir = 0 /\ change = 0
    /\ \E t \in [Names -> Things] :
         /\ \A n \in Names : t[n] \in Start[n]
         /\ tree = [n \in Names |-> [thing |-> t[n], meta |-> 0]]
    /\ been = {[name |-> n, thing |-> tree[n].thing, meta |-> 0] : n \in Present}
    /\ listed = {[meta |-> 0, names |-> Present]}
    /\ unseen = {} /\ stored = {} /\ plans = <<>> /\ scans = <<>>
    /\ protection = [s \in {} |-> Torn]
    /\ at = [r \in Request |-> Rest]
    /\ faults = 0

-----------------------------------------------------------------------------
(* The user's directory *)

Changed(t) ==
    /\ change < MaxChanges /\ change' = change + 1
    /\ tree' = t
    /\ LET present == {n \in Names : t[n].thing # Absent} IN
       /\ been' = been \cup {[name |-> n, thing |-> t[n].thing, meta |-> t[n].meta] :
                              n \in present}
       /\ listed' = listed \cup {[meta |-> dir', names |-> present]}
    /\ UNCHANGED <<stored, plans, catalog, at, faults>>

\* A file is written, or its mode changed, in place: the directory stays.
UserWrites(n, t) ==
    /\ tree[n].thing.kind = "file" /\ t.kind = "file"
    /\ UNCHANGED <<root, dir, unseen>>
    /\ Changed([tree EXCEPT ![n] = [thing |-> t, meta |-> change + 1]])

\* A write that leaves the size and the time of modification as they were.
UserWritesUnseen(n, t) ==
    /\ {tree[n].thing, t} \subseteq [kind : {"file"}, data : Contents]
    /\ UNCHANGED <<root, dir>>
    /\ unseen' = unseen \cup {[name |-> n, meta |-> tree[n].meta]}
    /\ Changed([tree EXCEPT ![n].thing = t])

\* A name is created, removed, or given to another file.
UserRenames(n, t) ==
    /\ tree[n].thing # Absent \/ t # Absent
    /\ dir' = change + 1 /\ UNCHANGED <<root, unseen>>
    /\ Changed([tree EXCEPT ![n] = [thing |-> t, meta |-> change + 1]])

\* Another directory, an empty one, is at the path: a disk is unmounted.
RootReplaced ==
    /\ root' = root + 1 /\ dir' = change + 1 /\ UNCHANGED unseen
    /\ Changed([n \in Names |-> [thing |-> Absent, meta |-> change + 1]])

-----------------------------------------------------------------------------
(* The scan *)

At(r, label) == at[r].pc = label
Now(r, record) == at' = [at EXCEPT ![r] = record]
Goto(r, label) == at' = [at EXCEPT ![r].pc = label]
AtWork(k) == {q \in Request : ~At(q, "idle") /\ at[q].plan = k}
VerifyRoot(r) == at[r].root = root

\* captureForIngest: the root is bound, and nothing is scanned yet.
Capture(r, k, resolutions) ==
    /\ At(r, "idle")
    /\ Now(r, [Rest EXCEPT !.pc = "root", !.plan = k, !.approved = resolutions, !.root = root])
    /\ UNCHANGED <<source, stored, plans, catalog, faults>>

InspectIngest(r, resolutions) ==
    /\ Len(plans) + Cardinality(AtWork(0)) < MaxPlans
    /\ Capture(r, 0, resolutions)

\* A plan is applied by one request at a time, once; it is taken up again
\* when the daemon was killed before it committed.
ApplyIngestPlan(r, k) ==
    /\ plans[k].open /\ AtWork(k) = {}
    /\ \A g \in Scan : scans[g].committed => scans[g].plan # k
    /\ Len(scans) + Cardinality({q \in Request : at[q].plan # 0 /\ at[q].gen = 0}) < MaxScans
    /\ Capture(r, k, plans[k].approved)

Scanning == UNCHANGED <<source, stored, plans, catalog, faults>>

\* A root that cannot be listed is the only entry, and not COMPLETE.
LstatRoot(r) ==
    /\ At(r, "root")
    /\ Now(r, IF VerifyRoot(r) THEN [at[r] EXCEPT !.pc = "list", !.meta = dir]
                              ELSE [at[r] EXCEPT !.pc = "scanned"])
    /\ Scanning

\* Open, fstat, ReadDir, fstat.
ReadDir(r) ==
    /\ At(r, "list")
    /\ Now(r, IF VerifyRoot(r) /\ dir = at[r].meta
                THEN [at[r] EXCEPT !.pc = "walk", !.todo = Present]
                ELSE [at[r] EXCEPT !.pc = "scanned"])
    /\ Scanning

Emit(r, item, state, thing, stable) ==
    Now(r, [at[r] EXCEPT
              !.pc = "walk", !.item = Rest.item, !.todo = @ \ {item.name},
              !.entries = [n \in DOMAIN @ \cup {item.name} |->
                 IF n = item.name
                   THEN [state |-> state, thing |-> thing, meta |-> item.meta, stable |-> stable]
                   ELSE @[n]]])

Here(r) == tree[at[r].item.name]
SameSnapshot(r) == VerifyRoot(r) /\ Here(r).meta = at[r].item.meta
Unstable(r) == Emit(r, at[r].item, "UNSTABLE", Absent, FALSE)

Lstat(r) ==
    /\ At(r, "walk") /\ at[r].todo # {}
    /\ LET n == First(at[r].todo)
           item == [name |-> n, thing |-> tree[n].thing, meta |-> tree[n].meta, data |-> Torn]
       IN IF VerifyRoot(r) /\ tree[n].thing # Absent
            THEN Now(r, [at[r] EXCEPT !.pc = item.thing.kind, !.item = item])
            ELSE Emit(r, item, "FAILED", Absent, FALSE)
    /\ Scanning

\* A file that cannot be opened although it is still the one seen.
OpenFailure(r) == Emit(r, at[r].item, "FAILED", [kind |-> "file", data |-> "none"], TRUE)

\* Open and fstat.
OpenRegular(r) ==
    /\ At(r, "file")
    /\ IF ~SameSnapshot(r) THEN Unstable(r)
       ELSE IF Here(r).thing = Unreadable THEN OpenFailure(r)
       ELSE Goto(r, "head")
    /\ Scanning

\* What a handle yields: the file it was opened on, or what has been written
\* to it since.
Yields(r) == {at[r].item.thing.data} \cup
             (IF Here(r).thing.kind = "file" /\ Here(r).thing # Unreadable
                THEN {Here(r).thing.data} ELSE {})

ReadHead(r, d) ==
    /\ At(r, "head") /\ d \in Yields(r)
    /\ Now(r, [at[r] EXCEPT !.pc = "tail", !.item.data = d])
    /\ Scanning

ReadTail(r, d) ==
    /\ At(r, "tail") /\ d \in Yields(r)
    /\ Now(r, [at[r] EXCEPT !.pc = "check", !.item.data = IF @ = d THEN d ELSE Torn])
    /\ Scanning

Readlink(r) ==
    /\ At(r, "link")
    /\ Now(r, [at[r] EXCEPT !.pc = "check", !.item.data =
                 IF VerifyRoot(r) /\ Here(r).thing.kind = "link" THEN Here(r).thing.data
                                                               ELSE Torn])
    /\ Scanning

\* Mutant: the metadata is compared before the content is read, and not after.
PostStatRootOnly(r) ==
    /\ At(r, "check")
    /\ IF VerifyRoot(r)
         THEN Emit(r, at[r].item, "COMPLETE",
                   [kind |-> at[r].item.thing.kind, data |-> at[r].item.data], TRUE)
         ELSE Unstable(r)
    /\ Scanning

\* The stability check of a regular file (fstat and Lstat) and of a link.
PostStat(r) ==
    /\ At(r, "check")
    /\ IF SameSnapshot(r)
         THEN Emit(r, at[r].item, "COMPLETE",
                   [kind |-> at[r].item.thing.kind, data |-> at[r].item.data], TRUE)
         ELSE Unstable(r)
    /\ Scanning

LstatRootAgain(r) ==
    /\ At(r, "walk") /\ at[r].todo = {}
    /\ Now(r, [at[r] EXCEPT !.pc = "scanned",
                            !.whole = VerifyRoot(r) /\ dir = at[r].meta])
    /\ Scanning

-----------------------------------------------------------------------------
(* The plan *)

Mode(n) == IF n \in DOMAIN FileMode THEN FileMode[n] ELSE DefaultMode

\* A file that could not be read, but whose metadata stood still, may be
\* recorded without its content when its mode and the operator say so.
Resolved(r, n) ==
    LET e == at[r].entries[n] IN
    /\ e.state = "FAILED" /\ e.stable
    /\ Mode(n) = "METADATA_ONLY" /\ n \in at[r].approved

Scanned(r) == DOMAIN at[r].entries
Complete(r) == {n \in Scanned(r) : at[r].entries[n].state = "COMPLETE"}
Files(r) == {n \in Complete(r) : at[r].entries[n].thing.kind = "file"}

Qualified(r) == at[r].whole /\ \A n \in Scanned(r) \ Complete(r) : Resolved(r, n)

\* bindIngestLocators
Binds(r) ==
    /\ Located \subseteq Files(r)
    /\ \A n \in Files(r) :
         n \in Located <=> Mode(n) \in {"LINK_ONLY", "STORE_EXACT_WITH_EXTERNAL_FALLBACK"}
    /\ \A n \in DOMAIN FileMode : n \in Files(r) \/ (n \in Scanned(r) /\ Resolved(r, n))

\* captureBasisDigest
Basis(r) == [root |-> at[r].root, meta |-> at[r].meta, entries |-> at[r].entries]

\* The rest of InspectIngest; a plan with blocked entries is recorded for
\* review, and cannot be applied.
RecordPlan(r) ==
    /\ At(r, "scanned") /\ at[r].plan = 0
    /\ Now(r, Rest)
    /\ plans' = IF Qualified(r) /\ ~Binds(r) THEN plans
                ELSE Append(plans, [basis |-> Basis(r), approved |-> at[r].approved,
                                    open |-> Qualified(r)])
    /\ UNCHANGED <<source, stored, catalog, faults>>

-----------------------------------------------------------------------------
(* Applying a plan *)

\* The request returns, and the job of its plan with it.
Return(r) == Now(r, Rest) /\ plans' = [plans EXCEPT ![at[r].plan].open = FALSE]

Compare(r) ==
    /\ At(r, "scanned") /\ at[r].plan # 0
    /\ IF Qualified(r) /\ Basis(r) = plans[at[r].plan].basis /\ Binds(r)
         THEN Goto(r, "begin") /\ UNCHANGED plans
         ELSE Return(r)
    /\ UNCHANGED <<source, stored, catalog, faults>>

\* The scan draws its generation only now, after the directory was read.
BeginCatalog(r) ==
    /\ At(r, "begin")
    /\ Now(r, [at[r] EXCEPT !.pc = "place", !.gen = Len(scans) + 1,
                            !.todo = {n \in Files(r) : Mode(n) \in Exact}])
    /\ scans' = Append(scans, [plan |-> at[r].plan, state |-> "RUNNING", basis |-> Basis(r),
                               subject |-> Nothing, adopted |-> FALSE,
                               committed |-> FALSE, projected |-> FALSE])
    /\ UNCHANGED <<source, stored, plans, protection, faults>>

\* finishScan(FAILED)
FailScan(r) ==
    /\ Return(r)
    /\ scans' = [scans EXCEPT ![at[r].gen].state = "FAILED"]
    /\ UNCHANGED protection

\* The repository refuses bytes that have not the digest of the scan; a
\* placement that fails is forgiven when the content is there.
Places(n, content) == content \in stored \cup {tree[n].thing.data}

\* placeFiles, one file: it is opened again and streamed into the repository.
Reopens(r, n) == VerifyRoot(r) /\ tree[n].thing.kind = "file" /\ tree[n].thing # Unreadable

\* Mutant: the repository takes the bytes it is given.
PlaceFileUnchecked(r) ==
    /\ At(r, "place") /\ at[r].todo # {}
    /\ LET n == First(at[r].todo) IN
       IF Reopens(r, n)
         THEN /\ Now(r, [at[r] EXCEPT !.todo = @ \ {n}])
              /\ stored' = stored \cup {tree[n].thing.data}
              /\ UNCHANGED <<plans, catalog>>
         ELSE FailScan(r) /\ UNCHANGED stored
    /\ UNCHANGED <<source, faults>>

PlaceFile(r) ==
    /\ At(r, "place") /\ at[r].todo # {}
    /\ LET n == First(at[r].todo)
           content == at[r].entries[n].thing.data
       IN IF \/ content \in at[r].seen
             \/ Reopens(r, n) /\ Places(n, content)
            THEN /\ Now(r, [at[r] EXCEPT !.todo = @ \ {n}, !.seen = @ \cup {content}])
                 /\ stored' = stored \cup {content}
                 /\ UNCHANGED <<plans, catalog>>
            ELSE FailScan(r) /\ UNCHANGED stored
    /\ UNCHANGED <<source, faults>>

\* Mutant: a root need not be published to be the basis of continuity.
AdoptedCounts == {g \in Scan : scans[g].adopted}

Published == {g \in Scan : scans[g].projected}

\* ResolveNamespaceSubjectRef: the subject that the newest published root has
\* for this name and kind, or a new one.
Subject(n, kind, g) ==
    LET latest == scans[Max(Published)] IN
    IF /\ Published # {} /\ n \in DOMAIN latest.subject
       /\ latest.basis.entries[n].thing.kind = kind
      THEN latest.subject[n]
      ELSE [name |-> n, gen |-> g]

\* The content whose exact bytes the protection of an entry claims.
Claim(entries, n) ==
    IF /\ entries[n].state = "COMPLETE" /\ entries[n].thing.kind = "file"
       /\ Mode(n) \in Exact
      THEN entries[n].thing.data
      ELSE "none"

Subjects(r) ==
    [n \in Scanned(r) |-> Subject(n, at[r].entries[n].thing.kind, at[r].gen)]

\* The root with its entries, under the subjects allocated.
InsertRoot(r) ==
    scans' = [scans EXCEPT ![at[r].gen].adopted = TRUE, ![at[r].gen].subject = Subjects(r)]

\* The protection of every subject is inserted, or revised.
UpsertProtection(r) ==
    LET ours == {Subjects(r)[n] : n \in Scanned(r)} IN
    protection' = [s \in DOMAIN protection \cup ours |->
                     IF s \in ours THEN Claim(at[r].entries, s.name) ELSE protection[s]]

\* adopt: one transaction.
Adopt(r) ==
    /\ At(r, "place") /\ at[r].todo = {}
    /\ Goto(r, "finish")
    /\ InsertRoot(r) /\ UpsertProtection(r)
    /\ UNCHANGED <<source, stored, plans, faults>>

FinishScan(r) ==
    /\ At(r, "finish") /\ Goto(r, "publish")
    /\ scans' = [scans EXCEPT ![at[r].gen].state =
                    IF Complete(r) = Scanned(r) THEN "COMPLETE" ELSE "INCOMPLETE"]
    /\ UNCHANGED <<source, stored, plans, protection, faults>>

Committed(r) ==
    /\ scans' = [scans EXCEPT ![at[r].gen].committed = TRUE]
    /\ UNCHANGED <<source, stored, protection>>

\* The manifest is written and the publication signed and committed.
Publish(r) ==
    /\ At(r, "publish") /\ Goto(r, "project")
    /\ Committed(r) /\ UNCHANGED <<plans, faults>>

\* InsertPublication, in a transaction of its own.
Project(r) ==
    /\ At(r, "project") /\ Return(r)
    /\ scans' = [scans EXCEPT ![at[r].gen].projected = TRUE]
    /\ UNCHANGED <<source, stored, protection, faults>>

\* A committed publication nobody is at work on is projected later.
Reconcile(g) ==
    /\ scans[g].committed /\ ~scans[g].projected /\ AtWork(scans[g].plan) = {}
    /\ scans' = [scans EXCEPT ![g].projected = TRUE]
    /\ UNCHANGED <<source, stored, plans, protection, at, faults>>

-----------------------------------------------------------------------------
(* Faults *)

Fault == faults < MaxFaults /\ faults' = faults + 1

\* The step a request is at fails.  Once adopted, the scan keeps its state.
StepFails(r) ==
    /\ Fault
    /\ At(r, "begin") \/ At(r, "finish") \/ At(r, "publish") \/ At(r, "project")
    /\ Return(r)
    /\ UNCHANGED <<source, stored, catalog>>

\* A placement fails, or the transaction of adopt.
ScanFails(r) == Fault /\ At(r, "place") /\ FailScan(r) /\ UNCHANGED <<source, stored>>

\* The commit is durable and its answer is lost.
CommitAnswerLost(r) == Fault /\ At(r, "publish") /\ Return(r) /\ Committed(r)

Kill ==
    /\ Fault /\ \E r \in Request : ~At(r, "idle")
    /\ at' = [r \in Request |-> Rest]
    /\ UNCHANGED <<source, stored, plans, catalog>>

-----------------------------------------------------------------------------
Scans(r) ==
    \/ \E resolutions \in Resolutions : InspectIngest(r, resolutions)
    \/ LstatRoot(r) \/ ReadDir(r) \/ Lstat(r) \/ OpenRegular(r)
    \/ \E d \in Contents : ReadHead(r, d) \/ ReadTail(r, d)
    \/ Readlink(r) \/ PostStat(r) \/ LstatRootAgain(r) \/ RecordPlan(r)

Applies(r) ==
    \/ \E k \in Plan : ApplyIngestPlan(r, k)
    \/ Compare(r) \/ BeginCatalog(r) \/ PlaceFile(r) \/ Adopt(r)
    \/ FinishScan(r) \/ Publish(r) \/ Project(r)
    \/ StepFails(r) \/ ScanFails(r) \/ CommitAnswerLost(r)

User ==
    \/ \E n \in Names : \E t \in Becomes[n] :
         UserWrites(n, t) \/ UserWritesUnseen(n, t) \/ UserRenames(n, t)
    \/ RootReplaced

Next ==
    \/ \E r \in Request : Scans(r) \/ Applies(r)
    \/ \E g \in Scan : Reconcile(g)
    \/ User
    \/ Kill

Spec == Init /\ [][Next]_vars

-----------------------------------------------------------------------------
(* Properties *)

Thing == [kind : {"file", "link", "none"}, data : Contents \cup {"none", "unreadable", Torn}]
Listing ==
    UNION {[S -> [state : {"COMPLETE", "FAILED", "UNSTABLE"}, thing : Thing,
                  meta : Meta, stable : BOOLEAN]] : S \in SUBSET Names}
DirectoryBasis == [root : Meta, meta : Meta, entries : Listing]
Labels == {"idle", "root", "list", "walk", "file", "link", "head", "tail", "check", "scanned",
           "begin", "place", "finish", "publish", "project"}

TypeOK ==
    /\ root \in Meta /\ dir \in Meta /\ change \in Meta
    /\ tree \in [Names -> [thing : Things, meta : Meta]]
    /\ stored \subseteq Contents \cup {Torn}
    /\ plans \in Seq([basis : DirectoryBasis, approved : SUBSET Names, open : BOOLEAN])
    /\ \A g \in Scan :
         /\ scans[g].plan \in Plan /\ scans[g].basis \in DirectoryBasis
         /\ scans[g].state \in {"RUNNING", "FAILED", "COMPLETE", "INCOMPLETE"}
    /\ at \in [Request ->
         [pc : Labels, plan : {0} \cup Plan, approved : SUBSET Names,
          root : Meta, meta : Meta, todo : SUBSET Names,
          item : [name : Names \cup {"none"}, thing : Thing, meta : Meta,
                  data : Contents \cup {Torn}],
          entries : Listing, whole : BOOLEAN, seen : SUBSET (Contents \cup {Torn}),
          gen : {0} \cup Scan]]
    /\ faults \in 0..MaxFaults

\* A plan that can be applied and a scan that was adopted list a directory as
\* it was at one moment, and give each file the content, and each link the
\* target, that it had with the metadata recorded: never what a writer, a
\* rename or another directory at the path made of two readings (scanner.go
\* scanRegular and scanDirectory, root.go VerifyRoot).  A write that left the
\* metadata alone escapes the scans; but what is adopted as exact has been
\* read once more by placeFiles, and was there all the same.
Was(n, e) == [name |-> n, thing |-> e.thing, meta |-> e.meta] \in been
Seen(n, e) == [name |-> n, meta |-> e.meta] \notin unseen
Listed(basis) == [meta |-> basis.meta, names |-> DOMAIN basis.entries] \in listed

ContentWasThere ==
    /\ \A k \in Plan : plans[k].open =>
         /\ Listed(plans[k].basis)
         /\ \A n \in DOMAIN plans[k].basis.entries :
              LET e == plans[k].basis.entries[n] IN
              e.state = "COMPLETE" /\ Seen(n, e) => Was(n, e)
    /\ \A g \in Scan : scans[g].adopted =>
         \A n \in DOMAIN scans[g].basis.entries :
           LET e == scans[g].basis.entries[n] IN
           Claim(scans[g].basis.entries, n) # "none" => Was(n, e)

\* The exact bytes of every file that an adopted scan or a protection record
\* claims to store are in the repository, although the file is opened again
\* after it was hashed and may have changed since (ingest.go placeFiles,
\* ingest_protection.go insertPreparedProtection).
ClaimsAreStored ==
    /\ \A g \in Scan : scans[g].adopted =>
         \A n \in DOMAIN scans[g].basis.entries :
           Claim(scans[g].basis.entries, n) \in stored \cup {"none"}
    /\ \A s \in DOMAIN protection : protection[s] \in stored \cup {"none"}

\* A scan that was abandoned never becomes the basis of continuity: the
\* subject of an entry was allocated by its own scan or by a published one,
\* for the same name and kind (ingest.go adopt, namespace.go
\* ResolveNamespaceSubjectRef).
SubjectsArePublished ==
    \A g \in Scan : \A n \in DOMAIN scans[g].subject :
        LET s == scans[g].subject[n]
            kind(h) == scans[h].basis.entries[n].thing.kind
        IN /\ s.name = n
           /\ s.gen # g => scans[s.gen].projected /\ kind(s.gen) = kind(g)

\* Not so: a name that two published roots, one after the other, have with
\* the same kind keeps its subject (the comment of ResolveNamespaceSubjectRef
\* calls allocation and publication one transaction; they are two).
SubjectsContinue ==
    \A g \in Published, h \in Published :
        (g < h /\ \A i \in Published : i <= g \/ h <= i) =>
          \A n \in DOMAIN scans[g].subject \cap DOMAIN scans[h].subject :
            scans[g].basis.entries[n].thing.kind = scans[h].basis.entries[n].thing.kind
              => scans[g].subject[n] = scans[h].subject[n]
=============================================================================

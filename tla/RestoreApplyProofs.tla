------------------------- MODULE RestoreApplyProofs -------------------------
(***************************************************************************)
(* Proofs about RestoreApply, for every set of requests and snapshots, and  *)
(* for every number of plans, attempts, disturbances and interventions.     *)
(***************************************************************************)
EXTENDS RestoreApply, TLAPS

\* A destination is made at most once more than it is lost or emptied.
StampBound == stamp <= faults + changes + (IF root THEN 1 ELSE 0)

\* No request has leased a revision that is still to come.
NotAhead(r) == pc[r] # "idle" => seen[r] <= job[plan[r]].revision

\* A request that writes is at an entry of its snapshot, or after the last; one
\* that has finished knows its outcome.
AtEntry(r) ==
  /\ pc[r] \in {"entry", "copy"} => idx[r] \in 1..(Len(Entries(r)) + 1)
  /\ pc[r] = "copy" => idx[r] <= Len(Entries(r)) /\ Entry(r).kind = "file"
  /\ pc[r] = "finish" => verdict[r] # None

Leased(r) == Holds(r, plan[r])
HasFirst(r, n) ==
  \A i \in 1..n : Restorable(Entries(r)[i]) => Matches(plan[r][1], Entries(r)[i])

\* As long as it can still record its outcome, everything it wrote, or found
\* when it reconciled, is in the destination.
Wrote(r) ==
  Leased(r) =>
    /\ pc[r] \in {"entry", "copy"} => HasFirst(r, idx[r] - 1)
    /\ pc[r] = "copy" => dest[Entry(r).path] = OpenFile(r)
    /\ pc[r] = "finish" /\ verdict[r] = "SUCCEEDED" => HasFirst(r, Len(Entries(r)))

Ok(r) == NotAhead(r) /\ AtEntry(r) /\ Wrote(r)
IInv == TypeOK /\ StampBound /\ \A r \in Request : Ok(r)

-----------------------------------------------------------------------------
(* Snapshots and requests *)

LEMMA Snapshots ==
    ASSUME TypeOK, NEW r \in Request
    PROVE  /\ plan[r] \in Plans /\ plan[r][1] \in Snapshot
           /\ Len(Entries(r)) \in Nat
           /\ \A i \in 1..Len(Entries(r)) : Entries(r)[i] \in EntryOf
           /\ \A i, j \in 1..Len(Entries(r)) :
                /\ Entries(r)[i].path = Entries(r)[j].path => i = j
                /\ Entries(r)[i].path \in Above[Entries(r)[j].path] =>
                     Entries(r)[i].kind = "dir"
<1>1. plan[r] \in Plans /\ plan[r][1] \in Snapshot
  BY DEF TypeOK, Plans
<1>2. Prepared(Manifest[plan[r][1]])
  BY <1>1, ManifestAssumption
<1> QED
  BY <1>1, <1>2 DEF Prepared, Entries

\* The destination keeps what it has, but for a file another request fills.
KeepsFor(r) ==
  \A p \in Path : There(p) =>
    \/ dest'[p] = dest[p]
    \/ /\ dest[p] # OpenFile(r) /\ dest[p].kind = "file" /\ ~dest[p].whole
       /\ dest'[p] = [dest[p] EXCEPT !.whole = TRUE]

LEMMA MatchesStay ==
    ASSUME TypeOK, NEW r \in Request, KeepsFor(r), NEW e \in EntryOf, NEW s,
           Matches(s, e)
    PROVE  dest'[e.path] = dest[e.path]
  BY DEF TypeOK, KeepsFor, EntryOf, Matches, There, Nodes, None

\* What a request does not touch itself stays in order for it.
LEMMA OkStays ==
    ASSUME TypeOK, TypeOK', NEW r \in Request, Ok(r), KeepsFor(r),
           pc'[r] = pc[r], plan'[r] = plan[r], idx'[r] = idx[r],
           seen'[r] = seen[r], verdict'[r] = verdict[r],
           job'[plan[r]].revision >= job[plan[r]].revision
    PROVE  Ok(r)'
<1> USE Snapshots
<1>1. job[plan[r]].revision \in Nat /\ job'[plan[r]].revision \in Nat /\ seen[r] \in Nat
  BY DEF TypeOK, JobRows
<1>2. NotAhead(r)' /\ AtEntry(r)'
  BY <1>1 DEF Ok, NotAhead, AtEntry, Entries, Entry
<1>3. ASSUME Leased(r)' PROVE Leased(r)
  BY <1>1, <1>3 DEF Leased, Holds, Ok, NotAhead
<1>4. ASSUME NEW n \in 0..Len(Entries(r)), HasFirst(r, n) PROVE HasFirst(r, n)'
  <2>1. Entries(r)' = Entries(r)
    BY DEF Entries
  <2> SUFFICES ASSUME NEW i \in 1..n, Restorable(Entries(r)[i])
               PROVE  Matches(plan[r][1], Entries(r)[i])'
    BY <2>1 DEF HasFirst
  <2>4. Entries(r)[i] \in EntryOf
    OBVIOUS
  <2>2. Matches(plan[r][1], Entries(r)[i])
    BY <1>4 DEF HasFirst
  <2>3. dest'[Entries(r)[i].path] = dest[Entries(r)[i].path]
    BY <2>2, <2>4, MatchesStay
  <2> QED
    BY <2>1, <2>2, <2>3 DEF Matches
<1>5. ASSUME pc[r] = "copy", Leased(r) PROVE dest'[Entry(r).path] = dest[Entry(r).path]
  <2>1. Entry(r) \in EntryOf /\ dest[Entry(r).path] = OpenFile(r)
    BY <1>5 DEF Ok, AtEntry, Wrote, Entry
  <2>2. Entry(r).path \in Path /\ dest[Entry(r).path].kind = "file"
    BY <2>1 DEF OpenFile, EntryOf
  <2> QED
    BY <2>1, <2>2 DEF KeepsFor, There, None
<1>6. ASSUME Leased(r)', pc[r] \in {"entry", "copy"} PROVE HasFirst(r, idx[r] - 1)'
  <2>1. idx[r] - 1 \in 0..Len(Entries(r))
    BY <1>6 DEF Ok, AtEntry, TypeOK
  <2> QED
    BY <1>3, <1>4, <1>6, <2>1 DEF Ok, Wrote
<1>7. Wrote(r)'
  <2> SUFFICES ASSUME Leased(r)'
               PROVE  /\ pc[r] \in {"entry", "copy"} => HasFirst(r, idx[r] - 1)'
                      /\ pc[r] = "copy" => dest'[Entry(r).path] = OpenFile(r)
                      /\ pc[r] = "finish" /\ verdict[r] = "SUCCEEDED" =>
                           HasFirst(r, Len(Entries(r)))'
    BY DEF Wrote, Entries, Entry, OpenFile, HasFirst
  <2>1. Leased(r)
    BY <1>3
  <2>2. pc[r] \in {"entry", "copy"} => HasFirst(r, idx[r] - 1)'
    BY <1>6
  <2>3. pc[r] = "copy" => dest'[Entry(r).path] = OpenFile(r)
    BY <1>5, <2>1 DEF Ok, Wrote
  <2>4. ASSUME pc[r] = "finish", verdict[r] = "SUCCEEDED"
        PROVE  HasFirst(r, Len(Entries(r)))'
    <3>1. HasFirst(r, Len(Entries(r)))
      BY <2>1, <2>4 DEF Ok, Wrote
    <3>2. Entries(r)' = Entries(r) /\ Len(Entries(r)) \in 0..Len(Entries(r))
      BY DEF Entries
    <3> QED
      BY <1>4, <3>1, <3>2
  <2> QED
    BY <2>2, <2>3, <2>4
<1> QED
  BY <1>2, <1>7 DEF Ok

-----------------------------------------------------------------------------
(* Types *)

LEMMA PlanTypes ==
    /\ Absent \in Stamps /\ NoPlan \in Plans
    /\ NoJob \in JobRows
    /\ Nothing \in Nodes /\ UserFile \in Nodes
<1>1. Absent \in Stamps
  BY BoundsAssumption DEF Stamps, Absent
<1>2. \E k : k \in Plans
  <2>1. PICK s : s \in Snapshot
    BY ManifestAssumption
  <2>2. <<s, Absent>> \in Plans
    BY <1>1, <2>1 DEF Plans
  <2> QED
    BY <2>2
<1> QED
  BY <1>1, <1>2, BoundsAssumption DEF NoPlan, NoJob, JobRows, Nothing, UserFile, Nodes, None

LEMMA InitInv == Init => IInv
<1> SUFFICES ASSUME Init PROVE IInv
  OBVIOUS
<1>1. TypeOK
  <2>1. root \in BOOLEAN /\ stamp \in Stamps /\ dest \in [Path -> Nodes]
    BY PlanTypes DEF Init
  <2>2. /\ plans \subseteq Plans
        /\ job \in [Plans -> JobRows]
    BY PlanTypes DEF Init
  <2>3. /\ pc \in [Request -> PC]
        /\ plan \in [Request -> Plans]
        /\ idx \in [Request -> Nat] /\ seen \in [Request -> Nat]
        /\ verdict \in [Request -> Verdicts]
    BY PlanTypes DEF Init, PC, Verdicts
  <2>4. contended \in BOOLEAN
    BY Zenon DEF Init
  <2>5. faults \in 0..MaxFaults /\ changes \in 0..MaxChanges
    <3>1. MaxFaults >= 0 /\ MaxChanges >= 0 /\ MaxFaults \in Nat /\ MaxChanges \in Nat
      BY BoundsAssumption
    <3> QED
      BY <3>1 DEF Init
  <2> QED
    BY <2>1, <2>2, <2>3, <2>4, <2>5 DEF TypeOK
<1>2. StampBound
  BY DEF Init, StampBound, Absent
<1>3. \A r \in Request : Ok(r)
  BY DEF Init, Ok, NotAhead, AtEntry, Wrote, Leased, Holds
<1> QED
  BY <1>1, <1>2, <1>3 DEF IInv

LEMMA LeaveTypes ==
    ASSUME TypeOK, NEW R \in SUBSET Request, Leave(R)
    PROVE  /\ pc' \in [Request -> PC]
           /\ plan' \in [Request -> Plans]
           /\ idx' \in [Request -> Nat] /\ seen' \in [Request -> Nat]
           /\ verdict' \in [Request -> Verdicts]
  BY PlanTypes DEF TypeOK, Leave, PC, Verdicts

LEMMA WorkTypes ==
    ASSUME TypeOK, StampBound, NEW r \in Request, AtEntry(r), Work(r)
    PROVE  TypeOK' /\ StampBound'
<1> USE BoundsAssumption
<1>1. CASE Reconcile(r)
  BY <1>1 DEF Reconcile, Goto, Conclude, PC, Verdicts, TypeOK, StampBound, tree, bounds
<1>2. CASE Inspect(r)
  BY <1>2 DEF Inspect, Goto, Conclude, PC, Verdicts, TypeOK, StampBound, tree, bounds
<1>3. CASE PrepareDir(r)
  <2>1. /\ pc' \in [Request -> PC]
        /\ idx' \in [Request -> Nat]
        /\ verdict' \in [Request -> Verdicts]
    BY <1>3 DEF PrepareDir, Goto, Conclude, PC, Verdicts, TypeOK
  <2> QED
    BY <1>3, <2>1 DEF PrepareDir, TypeOK, StampBound, tree, bounds
<1>4. ASSUME MakeRoot, UNCHANGED <<faults, changes>>
      PROVE  root' \in BOOLEAN /\ stamp' \in Stamps /\ StampBound'
  BY <1>4 DEF MakeRoot, TypeOK, StampBound, Stamps
<1>5. CASE PrepareMkdir(r)
  BY <1>4, <1>5 DEF PrepareMkdir, Goto, PC, TypeOK, bounds
<1>6. CASE WriteEntry(r)
  <2>1. dest' \in [Path -> Nodes]
    <3>1. \A p \in Path : dest[p] \in Nodes
      BY DEF TypeOK
    <3>2. \A kind \in {"dir", "file", "link"} :
            [kind |-> kind, maker |-> r, of |-> plan[r][1], whole |-> kind # "file"] \in Nodes
      BY Snapshots DEF Nodes
    <3>3. Entry(r).kind \in {"dir", "file", "link"}
      <4>1. idx[r] \in 1..Len(Entries(r))
        BY <1>6, Snapshots DEF WriteEntry, AtRestorable, AtEntry
      <4> QED
        BY <1>6, <4>1, Snapshots DEF Entry, EntryOf, WriteEntry, AtRestorable, Restorable
    <3> QED
      BY <1>6, <3>1, <3>2, <3>3 DEF WriteEntry, Create
  <2>2. pc' \in [Request -> PC]
    BY <1>6 DEF WriteEntry, Goto, PC, TypeOK
  <2>3. idx' \in [Request -> Nat]
    BY <1>6 DEF WriteEntry, TypeOK
  <2>4. root' \in BOOLEAN /\ stamp' \in Stamps /\ StampBound'
    BY <1>4, <1>6 DEF WriteEntry, Create, bounds
  <2> QED
    BY <1>6, <2>1, <2>2, <2>3, <2>4 DEF WriteEntry, TypeOK, bounds
<1>7. CASE EntryRefused(r)
  BY <1>7 DEF EntryRefused, Goto, Conclude, PC, Verdicts, TypeOK, StampBound, tree, bounds
<1>8. CASE CopyFile(r)
  <2>1. dest' \in [Path -> Nodes]
    <3>1. \A p \in Path : [dest[p] EXCEPT !.whole = TRUE] \in Nodes
      BY DEF TypeOK, Nodes
    <3> QED
      BY <1>8, <3>1 DEF CopyFile, TypeOK
  <2> QED
    BY <1>8, <2>1 DEF CopyFile, Goto, PC, TypeOK, StampBound, bounds
<1>9. CASE Written(r)
  BY <1>9 DEF Written, Goto, Conclude, PC, Verdicts, TypeOK, StampBound, tree, bounds
<1>10. CASE Finish(r)
  <2>1. job' \in [Plans -> JobRows]
    <3> DEFINE row == job[plan[r]]
    <3>1. row \in JobRows
      BY DEF TypeOK
    <3>2. row.revision + 1 \in Nat
      BY <3>1 DEF JobRows
    <3>3. Recorded(verdict[r]) \in {"SUCCEEDED", "FAILED"}
      BY <1>10 DEF Finish, AtEntry, TypeOK, Verdicts, Recorded
    <3>4. Updated(row, Recorded(verdict[r])) \in JobRows
      BY <3>1, <3>2, <3>3 DEF JobRows, Updated
    <3>5. job' = job \/ job' = [job EXCEPT ![plan[r]] = Updated(row, Recorded(verdict[r]))]
      BY <1>10 DEF Finish
    <3>6. job \in [Plans -> JobRows]
      BY DEF TypeOK
    <3> HIDE DEF row
    <3> QED
      BY <3>4, <3>5, <3>6
  <2> QED
    BY <1>10, <2>1, LeaveTypes DEF Finish, TypeOK, StampBound, tree, bounds
<1>11. CASE SkipEntry(r)
  BY <1>11 DEF SkipEntry, TypeOK, StampBound, tree, bounds
<1> QED
  BY <1>1, <1>2, <1>3, <1>5, <1>6, <1>7, <1>8, <1>9, <1>10, <1>11 DEF Work

LEMMA Sums ==
    \A s, d, e, z, g, h, y \in Nat :
      s <= d + e + z /\ d + e + z <= g + h + y => s <= g + h + y
  OBVIOUS

Held(b) == IF b THEN 1 ELSE 0

\* What leaves the modification time alone.
LEMMA StampStays ==
    ASSUME TypeOK, StampBound, stamp' = stamp, faults' \in Nat, changes' \in Nat,
           faults + changes + Held(root) <= faults' + changes' + Held(root')
    PROVE  StampBound'
<1>1. stamp \in Nat /\ faults \in Nat /\ changes \in Nat
  BY BoundsAssumption DEF TypeOK, Stamps
<1>2. Held(root) \in Nat /\ Held(root') \in Nat
  BY DEF Held
<1>3. stamp <= faults + changes + Held(root)
  BY DEF StampBound, Held
<1>4. stamp <= faults' + changes' + Held(root')
  BY <1>1, <1>2, <1>3, Sums
<1> QED
  BY <1>4 DEF StampBound, Held

LEMMA More ==
    \A d, e, z, g, h, y \in Nat :
      \/ d <= g /\ e <= h /\ z = y
      \/ d + 1 = g /\ e = h /\ z <= 1
      => d + e + z <= g + h + y
  OBVIOUS

\* A disturbance, or an intervention that does not empty the destination.
LEMMA Disturbed ==
    ASSUME TypeOK, StampBound, stamp' = stamp, faults' \in Nat, changes' \in Nat,
           \/ root' = root /\ faults <= faults' /\ changes <= changes'
           \/ faults + 1 = faults' /\ changes' = changes
    PROVE  StampBound'
<1>1. faults \in Nat /\ changes \in Nat
  BY BoundsAssumption DEF TypeOK
<1>2. Held(root) \in Nat /\ Held(root') \in Nat /\ Held(root) <= 1
  BY DEF Held
<1>3. root' = root => Held(root') = Held(root)
  BY DEF Held
<1>4. faults + changes + Held(root) <= faults' + changes' + Held(root')
  BY <1>1, <1>2, <1>3, More
<1> QED
  BY <1>4, StampStays

LEMMA TypesStep ==
    ASSUME TypeOK, StampBound, \A r \in Request : AtEntry(r), [Next]_vars
    PROVE  TypeOK' /\ StampBound'
<1> USE BoundsAssumption
<1>1. ASSUME NEW s \in Snapshot, PlanRestore(s) PROVE TypeOK' /\ StampBound'
  <2>1. Basis \in Stamps
    BY PlanTypes DEF Basis, TypeOK
  <2> QED
    BY <1>1, <2>1 DEF PlanRestore, Plans, TypeOK, StampBound, tree, control, bounds
<1>2. ASSUME NEW r \in Request, NEW k \in plans, Claim(r, k) PROVE TypeOK' /\ StampBound'
  <2>1. k \in Plans /\ job[k] \in JobRows /\ job[k].revision + 1 \in Nat
    BY DEF TypeOK, JobRows
  <2>2. job' \in [Plans -> JobRows]
    BY <1>2, <2>1 DEF Claim, TypeOK, JobRows
  <2>3. pc' \in [Request -> PC] /\ plan' \in [Request -> Plans] /\ seen' \in [Request -> Nat]
    BY <1>2, <2>1 DEF Claim, Goto, PC, TypeOK
  <2>4. contended' \in BOOLEAN
    BY <1>2, Zenon DEF Claim, TypeOK
  <2> QED
    BY <1>2, <2>2, <2>3, <2>4 DEF Claim, TypeOK, StampBound, tree
<1>3. ASSUME NEW r \in Request, Work(r) PROVE TypeOK' /\ StampBound'
  BY <1>3, WorkTypes
<1>4. ASSUME NEW r \in Request, ReconcileFails(r) \/ ApplyFails(r) PROVE TypeOK' /\ StampBound'
  <2>1. pc' \in [Request -> PC] /\ verdict' \in [Request -> Verdicts]
    BY <1>4 DEF ReconcileFails, ApplyFails, Conclude, Goto, PC, Verdicts, TypeOK
  <2>2. faults' \in 0..MaxFaults /\ faults <= faults'
    BY <1>4 DEF ReconcileFails, ApplyFails, Disturb, TypeOK
  <2> QED
    <3>1. root' \in BOOLEAN /\ contended' \in BOOLEAN
      BY <1>4, Zenon DEF ReconcileFails, ApplyFails, TypeOK, tree
    <3>2. StampBound'
      <4>1. stamp' = stamp /\ root' = root /\ changes' = changes
        BY <1>4 DEF ReconcileFails, ApplyFails, tree
      <4>2. faults' \in Nat /\ changes \in Nat /\ faults <= faults' /\ changes <= changes
        BY <2>2 DEF TypeOK
      <4> QED
        BY <4>1, <4>2, Disturbed
    <3> QED
      BY <1>4, <2>1, <2>2, <3>1, <3>2 DEF ReconcileFails, ApplyFails, TypeOK, tree
<1>5. ASSUME NEW r \in Request, FinishLost(r) PROVE TypeOK' /\ StampBound'
  <2>1. /\ pc' \in [Request -> PC] /\ plan' \in [Request -> Plans]
        /\ idx' \in [Request -> Nat] /\ seen' \in [Request -> Nat]
        /\ verdict' \in [Request -> Verdicts]
    BY <1>5, LeaveTypes, {r} \in SUBSET Request DEF FinishLost
  <2>2. faults' \in 0..MaxFaults /\ faults <= faults'
    BY <1>5 DEF FinishLost, Disturb, TypeOK
  <2> QED
    <3>1. root' \in BOOLEAN /\ contended' \in BOOLEAN
      BY <1>5, Zenon DEF FinishLost, TypeOK, tree
    <3>2. StampBound'
      <4>1. stamp' = stamp /\ root' = root /\ changes' = changes
        BY <1>5 DEF FinishLost, tree
      <4>2. faults' \in Nat /\ changes \in Nat /\ faults <= faults' /\ changes <= changes
        BY <2>2 DEF TypeOK
      <4> QED
        BY <4>1, <4>2, Disturbed
    <3> QED
      BY <1>5, <2>1, <2>2, <3>1, <3>2 DEF FinishLost, TypeOK, tree
<1>6. ASSUME NEW k \in plans, LeaseRunsOut(k) PROVE TypeOK' /\ StampBound'
  <2>1. job' \in [Plans -> JobRows]
    BY <1>6 DEF LeaseRunsOut, TypeOK, JobRows
  <2>2. faults' \in 0..MaxFaults /\ faults <= faults'
    BY <1>6 DEF LeaseRunsOut, Disturb, TypeOK
  <2> QED
    <3>1. root' \in BOOLEAN /\ contended' \in BOOLEAN
      BY <1>6, Zenon DEF LeaseRunsOut, TypeOK, tree, control
    <3>2. StampBound'
      <4>1. stamp' = stamp /\ root' = root /\ changes' = changes
        BY <1>6 DEF LeaseRunsOut, tree, control
      <4>2. faults' \in Nat /\ changes \in Nat /\ faults <= faults' /\ changes <= changes
        BY <2>2 DEF TypeOK
      <4> QED
        BY <4>1, <4>2, Disturbed
    <3> QED
      BY <1>6, <2>1, <2>2, <3>1, <3>2 DEF LeaseRunsOut, TypeOK, tree, control
<1>7. ASSUME NEW k \in plans, CancelJob(k) PROVE TypeOK' /\ StampBound'
  <2>1. k \in Plans /\ job[k] \in JobRows /\ job[k].revision + 1 \in Nat
    BY DEF TypeOK, JobRows
  <2>2. job' \in [Plans -> JobRows]
    <3>1. Updated(job[k], "RUNNING") \in JobRows
      BY <2>1 DEF Updated, JobRows
    <3> QED
      BY <1>7, <2>1, <3>1 DEF CancelJob, TypeOK
  <2>3. faults' \in 0..MaxFaults /\ faults <= faults'
    BY <1>7 DEF CancelJob, Disturb, TypeOK
  <2> QED
    <3>1. root' \in BOOLEAN /\ contended' \in BOOLEAN
      BY <1>7, Zenon DEF CancelJob, TypeOK, tree, control
    <3>2. StampBound'
      <4>1. stamp' = stamp /\ root' = root /\ changes' = changes
        BY <1>7 DEF CancelJob, tree, control
      <4>2. faults' \in Nat /\ changes \in Nat /\ faults <= faults' /\ changes <= changes
        BY <2>3 DEF TypeOK
      <4> QED
        BY <4>1, <4>2, Disturbed
    <3> QED
      BY <1>7, <2>2, <2>3, <3>1, <3>2 DEF CancelJob, TypeOK, tree, control
<1>8. CASE Kill
  <2>1. /\ pc' \in [Request -> PC] /\ plan' \in [Request -> Plans]
        /\ idx' \in [Request -> Nat] /\ seen' \in [Request -> Nat]
        /\ verdict' \in [Request -> Verdicts]
    BY <1>8, LeaveTypes, Request \in SUBSET Request DEF Kill
  <2>2. faults' \in 0..MaxFaults /\ faults <= faults'
    BY <1>8 DEF Kill, Disturb, TypeOK
  <2> QED
    <3>1. root' \in BOOLEAN /\ contended' \in BOOLEAN
      BY <1>8, Zenon DEF Kill, TypeOK, tree
    <3>2. StampBound'
      <4>1. stamp' = stamp /\ root' = root /\ changes' = changes
        BY <1>8 DEF Kill, tree
      <4>2. faults' \in Nat /\ changes \in Nat /\ faults <= faults' /\ changes <= changes
        BY <2>2 DEF TypeOK
      <4> QED
        BY <4>1, <4>2, Disturbed
    <3> QED
      BY <1>8, <2>1, <2>2, <3>1, <3>2 DEF Kill, TypeOK, tree
<1>9. CASE PowerLoss
  <2>1. dest' \in [Path -> Nodes] /\ root' \in BOOLEAN /\ (root' => root)
    <3>1. \A p \in Path : dest[p] \in Nodes /\ [dest[p] EXCEPT !.whole = FALSE] \in Nodes
      BY DEF TypeOK, Nodes
    <3>2. PICK kept, torn :
            /\ dest' = [p \in Path |->
                 IF p \in torn THEN [dest[p] EXCEPT !.whole = FALSE]
                 ELSE IF p \in kept THEN dest[p] ELSE Nothing]
            /\ root' \in (IF kept # {} THEN {root} ELSE {FALSE, root})
      BY <1>9 DEF PowerLoss
    <3>3. dest' \in [Path -> Nodes]
      BY <3>1, <3>2, PlanTypes
    <3>4. root' = root \/ root' = FALSE
      BY <3>2
    <3>5. root' \in BOOLEAN /\ (root' => root)
      <4>1. root \in BOOLEAN
        BY DEF TypeOK
      <4>2. ASSUME root' = root PROVE root' \in BOOLEAN /\ (root' => root)
        BY <4>1, <4>2, Zenon
      <4>3. ASSUME root' = FALSE PROVE root' \in BOOLEAN /\ (root' => root)
        BY <4>3, Zenon
      <4> QED
        BY <3>4, <4>2, <4>3, Zenon
    <3> QED
      BY <3>3, <3>5, Zenon
  <2>2. /\ pc' \in [Request -> PC] /\ plan' \in [Request -> Plans]
        /\ idx' \in [Request -> Nat] /\ seen' \in [Request -> Nat]
        /\ verdict' \in [Request -> Verdicts]
    BY <1>9, LeaveTypes, Request \in SUBSET Request DEF PowerLoss
  <2>3. faults' \in 0..MaxFaults /\ faults' = faults + 1
    BY <1>9 DEF PowerLoss, Disturb, TypeOK
  <2> QED
    <3>1. changes' = changes /\ stamp' \in {stamp, stamp + 1} /\ (stamp' # stamp => root')
      BY <1>9 DEF PowerLoss
    <3>2. faults' \in Nat /\ changes \in Nat /\ faults \in Nat /\ stamp \in Nat /\ faults + 1 = faults'
      BY <2>3 DEF TypeOK, Stamps
    <3>3. ASSUME stamp' = stamp PROVE stamp' \in Stamps /\ StampBound'
      <4>1. StampBound'
        BY <3>1, <3>2, <3>3, Disturbed
      <4>2. stamp' \in Stamps
        BY <3>3 DEF TypeOK
      <4> QED
        BY <4>1, <4>2, Zenon
    <3>4. ASSUME stamp' # stamp PROVE stamp' \in Stamps /\ StampBound'
      <4>1. stamp' = stamp + 1 /\ changes' = changes
        BY <3>1, <3>4
      <4>2. root' /\ root
        BY <2>1, <3>1, <3>4, Zenon
      <4>3. stamp <= faults + changes + 1
        BY <4>2 DEF StampBound
      <4>4. \A s, d, e \in Nat : s <= d + e + 1 => s + 1 <= (d + 1) + e + 1
        OBVIOUS
      <4>5. stamp' <= faults' + changes' + 1
        <5>1. stamp + 1 <= (faults + 1) + changes + 1
          BY <3>2, <4>3, <4>4
        <5> QED
          BY <3>2, <4>1, <5>1
      <4>6. faults' <= MaxFaults /\ changes <= MaxChanges
        BY <2>3 DEF TypeOK
      <4>7. stamp' \in Stamps
        <5>1. \A s, d, e, f, c \in Nat :
                s <= d + e + 1 /\ d <= f /\ e <= c => s \in 0..(1 + f + c)
          OBVIOUS
        <5>2. stamp' \in Nat /\ changes' \in Nat
          BY <3>2, <4>1
        <5>3. changes' <= MaxChanges
          BY <4>1, <4>6
        <5> QED
          BY <3>2, <4>5, <4>6, <5>1, <5>2, <5>3 DEF Stamps
      <4>8. StampBound'
        BY <4>2, <4>5 DEF StampBound
      <4> QED
        BY <4>7, <4>8, Zenon
    <3>5. contended' \in BOOLEAN
      BY <1>9, Zenon DEF PowerLoss, TypeOK
    <3>6. stamp' \in Stamps /\ StampBound'
      BY <3>3, <3>4, Zenon
    <3>7. plans' = plans /\ job' = job /\ changes' = changes
      BY <1>9 DEF PowerLoss
    <3>8. TypeOK'
      BY <2>1, <2>2, <2>3, <3>5, <3>6, <3>7 DEF TypeOK
    <3> QED
      BY <3>6, <3>8, Zenon
<1>10. ASSUME NEW keep \in BOOLEAN, UserClears(keep) PROVE TypeOK' /\ StampBound'
  <2>1. stamp' \in Stamps /\ StampBound'
    BY <1>10 DEF UserClears, Change, TypeOK, StampBound, Stamps
  <2> QED
    BY <1>10, <2>1, PlanTypes DEF UserClears, Change, TypeOK, control
<1>11. ASSUME NEW p \in Path, UserWrites(p) PROVE TypeOK' /\ StampBound'
  <2>1. dest' \in [Path -> Nodes]
    BY <1>11, PlanTypes DEF UserWrites, TypeOK
  <2> QED
    <3>1. changes' \in 0..MaxChanges /\ changes <= changes'
      BY <1>11 DEF UserWrites, Change, TypeOK
    <3>2. StampBound'
      <4>1. stamp' = stamp /\ root' = root /\ faults' = faults
        BY <1>11 DEF UserWrites
      <4>2. faults \in Nat /\ faults <= faults /\ changes' \in Nat
        BY <3>1 DEF TypeOK
      <4> QED
        BY <3>1, <4>1, <4>2, Disturbed
    <3>3. root' \in BOOLEAN /\ contended' \in BOOLEAN
      BY <1>11, Zenon DEF UserWrites, TypeOK
    <3> QED
      BY <1>11, <2>1, <3>1, <3>2, <3>3 DEF UserWrites, TypeOK, control
<1>12. CASE UNCHANGED vars
  BY <1>12 DEF vars, tree, control, bounds, TypeOK, StampBound
<1> QED
  BY <1>1, <1>2, <1>3, <1>4, <1>5, <1>6, <1>7, <1>8, <1>9, <1>10, <1>11, <1>12 DEF Next

-----------------------------------------------------------------------------
(* Steps *)

LEMMA IdleIsOk ==
    ASSUME NEW r \in Request, pc'[r] = "idle"
    PROVE  Ok(r)'
  BY DEF Ok, NotAhead, AtEntry, Wrote, Leased, Holds

\* The request ends in an error, or cannot record its outcome.
Fails(q) == ReconcileFails(q) \/ ApplyFails(q) \/ FinishLost(q)

\* What a step of a request does to the other requests.
LEMMA OthersOk ==
    ASSUME IInv, TypeOK', NEW q \in Request, NEW r \in Request \ {q},
           Work(q) \/ Fails(q) \/ \E k \in plans : Claim(q, k)
    PROVE  Ok(r)'
<1> USE BoundsAssumption
<1>1. TypeOK /\ Ok(r) /\ plan[r] \in Plans /\ job[plan[r]] \in JobRows
  BY DEF IInv, TypeOK
<1>2. /\ pc'[r] = pc[r] /\ plan'[r] = plan[r] /\ idx'[r] = idx[r]
      /\ seen'[r] = seen[r] /\ verdict'[r] = verdict[r]
  BY <1>1 DEF Work, Reconcile, Inspect, PrepareDir, PrepareMkdir, WriteEntry, SkipEntry,
     EntryRefused,
     CopyFile, Written, Finish, Fails, ReconcileFails, ApplyFails, FinishLost, Claim, Goto,
     Conclude, Leave, TypeOK
<1>3. job'[plan[r]].revision >= job[plan[r]].revision
  <2>1. CASE job' = job
    BY <1>1, <2>1 DEF JobRows
  <2>2. ASSUME NEW k \in Plans, NEW row,
               job' = [job EXCEPT ![k] = row], row.revision = job[k].revision + 1
        PROVE  job'[plan[r]].revision >= job[plan[r]].revision
    BY <1>1, <2>2 DEF TypeOK, JobRows
  <2>3. CASE Work(q)
    <3>1. \/ job' = job
          \/ job' = [job EXCEPT ![plan[q]] =
                        Updated(job[plan[q]], Recorded(verdict[q]))]
      BY <2>3 DEF Work, Reconcile, Inspect, PrepareDir, PrepareMkdir, WriteEntry,
         SkipEntry, EntryRefused, CopyFile, Written, Finish
    <3>2. plan[q] \in Plans /\ job[plan[q]] \in JobRows
      BY <1>1 DEF TypeOK
    <3>3. Updated(job[plan[q]], Recorded(verdict[q])).revision = job[plan[q]].revision + 1
      BY <3>2 DEF Updated, JobRows
    <3> QED
      BY <2>1, <2>2, <3>1, <3>2, <3>3
  <2>4. CASE Fails(q)
    BY <2>1, <2>4 DEF Fails, ReconcileFails, ApplyFails, FinishLost
  <2>5. ASSUME NEW k \in plans, Claim(q, k)
        PROVE  job'[plan[r]].revision >= job[plan[r]].revision
    BY <1>1, <2>5 DEF Claim, TypeOK, JobRows
  <2> QED
    BY <2>3, <2>4, <2>5
<1>4. KeepsFor(r)
  <2>1. CASE dest' = dest
    BY <2>1 DEF KeepsFor
  <2>2. CASE WriteEntry(q)
    BY <2>2 DEF WriteEntry, Create, CanCreate, There, KeepsFor, None
  <2>3. CASE CopyFile(q)
    <3>1. CASE dest[Entry(q).path] = OpenFile(q)
      <4>1. OpenFile(q) # OpenFile(r) /\ OpenFile(q).kind = "file" /\ ~OpenFile(q).whole
        BY DEF OpenFile
      <4>2. dest' = [dest EXCEPT ![Entry(q).path] = [@ EXCEPT !.whole = TRUE]]
        BY <2>3, <3>1 DEF CopyFile
      <4> QED
        BY <1>1, <3>1, <4>1, <4>2 DEF KeepsFor, TypeOK
    <3>2. CASE dest[Entry(q).path] # OpenFile(q)
      BY <2>1, <2>3, <3>2 DEF CopyFile
    <3> QED
      BY <3>1, <3>2
  <2> QED
    BY <2>1, <2>2, <2>3 DEF Work, Reconcile, Inspect, PrepareDir, PrepareMkdir,
       SkipEntry, EntryRefused, Written, Finish, Fails, ReconcileFails, ApplyFails, FinishLost,
       Claim, tree
<1> QED
  BY <1>1, <1>2, <1>3, <1>4, OkStays

\* A request whose lease was good before a step of its own: neither its plan
\* nor its job's revision has moved.
LEMMA StillLeased ==
    ASSUME TypeOK, NEW q \in Request, NotAhead(q), Leased(q)', pc[q] # "idle",
           plan'[q] = plan[q], seen'[q] = seen[q], job' = job
    PROVE  Leased(q)
  BY DEF Leased, Holds

LEMMA Failing ==
    ASSUME TypeOK, NEW q \in Request, Ok(q), pc[q] # "idle", pc'[q] = "finish",
           verdict'[q] \in {"FAILED", "UNREAD"},
           plan'[q] = plan[q], seen'[q] = seen[q], job' = job
    PROVE  Ok(q)'
  BY DEF Ok, NotAhead, AtEntry, Wrote, None

LEMMA OwnOk ==
    ASSUME IInv, TypeOK', NEW q \in Request,
           Work(q) \/ Fails(q) \/ \E k \in plans : Claim(q, k)
    PROVE  Ok(q)'
<1>1. TypeOK /\ Ok(q) /\ NotAhead(q) /\ Len(Entries(q)) \in Nat
  BY Snapshots DEF IInv, Ok
<1>2. CASE Reconcile(q)
  <2>1. CASE pc'[q] = "inspect"
    BY <1>1, <1>2, <2>1 DEF Reconcile, Goto, Ok, NotAhead, AtEntry, Wrote
  <2>2. CASE Conclude(q, "FAILED")
    <3>1. pc'[q] = "finish" /\ verdict'[q] = "FAILED"
      BY <1>1, <2>2 DEF Conclude, Goto, TypeOK
    <3> QED
      BY <1>1, <1>2, <3>1, Failing DEF Reconcile
  <2>3. CASE Done(plan[q][1]) /\ Conclude(q, "SUCCEEDED")
    <3>1. pc'[q] = "finish" /\ verdict'[q] = "SUCCEEDED"
      BY <1>1, <2>3 DEF Conclude, Goto, TypeOK
    <3>2. HasFirst(q, Len(Entries(q)))
      BY <2>3 DEF Done, IsSnapshot, HasFirst, Entries
    <3>3. HasFirst(q, Len(Entries(q)))'
      BY <1>2, <3>2 DEF Reconcile, tree, HasFirst, Matches, Entries
    <3> QED
      BY <1>1, <1>2, <3>1, <3>3 DEF Reconcile, Ok, NotAhead, AtEntry, Wrote, None
  <2> QED
    BY <1>1, <1>2, <2>1, <2>2, <2>3 DEF Reconcile, Goto, TypeOK
<1>3. CASE Inspect(q)
  <2>1. CASE Goto(q, "prepare")
    BY <1>1, <1>3, <2>1 DEF Inspect, Goto, Ok, NotAhead, AtEntry, Wrote, TypeOK
  <2>2. CASE Conclude(q, "FAILED")
    <3>1. pc'[q] = "finish" /\ verdict'[q] = "FAILED"
      BY <1>1, <2>2 DEF Conclude, Goto, TypeOK
    <3> QED
      BY <1>1, <1>3, <3>1, Failing DEF Inspect
  <2> QED
    BY <1>3, <2>1, <2>2 DEF Inspect
<1>4. ASSUME pc[q] # "idle", pc'[q] = "entry", idx'[q] = 1, job' = job,
             plan'[q] = plan[q], seen'[q] = seen[q]
      PROVE  Ok(q)'
  <2>1. Entries(q)' = Entries(q)
    BY <1>4 DEF Entries
  <2>2. HasFirst(q, idx[q] - 1)'
    BY <1>4 DEF HasFirst
  <2> QED
    BY <1>1, <1>4, <2>1, <2>2 DEF Ok, NotAhead, AtEntry, Wrote
<1>5. CASE PrepareDir(q)
  <2>1. CASE Goto(q, "mkdir")
    BY <1>1, <1>5, <2>1 DEF PrepareDir, Goto, Ok, NotAhead, AtEntry, Wrote, TypeOK
  <2>2. CASE Goto(q, "entry") /\ idx' = [idx EXCEPT ![q] = 1]
    BY <1>1, <1>4, <1>5, <2>2 DEF PrepareDir, Goto, TypeOK
  <2>3. CASE Conclude(q, "FAILED")
    <3>1. pc'[q] = "finish" /\ verdict'[q] = "FAILED"
      BY <1>1, <2>3 DEF Conclude, Goto, TypeOK
    <3> QED
      BY <1>1, <1>5, <3>1, Failing DEF PrepareDir
  <2> QED
    BY <1>5, <2>1, <2>2, <2>3 DEF PrepareDir
<1>6. CASE PrepareMkdir(q)
  BY <1>1, <1>4, <1>6 DEF PrepareMkdir, Goto, TypeOK
<1>7. CASE WriteEntry(q)
  <2>1. idx[q] \in 1..Len(Entries(q)) /\ Entry(q) \in EntryOf /\ Entry(q) = Entries(q)[idx[q]]
    BY <1>1, <1>7, Snapshots DEF WriteEntry, AtRestorable, Ok, AtEntry, Entry
  <2>2. \A p \in Path : There(p) => dest'[p] = dest[p]
    BY <1>7 DEF WriteEntry, Create, CanCreate, There, None
  <2>3. job' = job /\ plan'[q] = plan[q] /\ seen'[q] = seen[q] /\ pc[q] = "entry"
    BY <1>7 DEF WriteEntry, AtRestorable
  <2>4. Entries(q)' = Entries(q)
    BY <2>3 DEF Entries
  <2>5. ASSUME Leased(q)', NEW i \in 1..(idx[q] - 1), Restorable(Entries(q)[i])
        PROVE  Matches(plan[q][1], Entries(q)[i])'
    <3>1. Leased(q)
      BY <1>1, <2>3, <2>5, StillLeased
    <3>2. Matches(plan[q][1], Entries(q)[i])
      BY <1>1, <2>3, <2>5, <3>1 DEF Ok, Wrote, HasFirst
    <3>3. Entries(q)[i] \in EntryOf
      BY <1>1, <2>1, <2>5, Snapshots
    <3>4. dest'[Entries(q)[i].path] = dest[Entries(q)[i].path]
      BY <2>2, <3>2, <3>3 DEF Matches, There, EntryOf, None
    <3> QED
      BY <2>3, <2>4, <3>2, <3>4 DEF Matches
  <2>6. dest'[Entry(q).path] =
          IF Entry(q).kind = "dir" /\ There(Entry(q).path) THEN dest[Entry(q).path]
          ELSE [kind |-> Entry(q).kind, maker |-> q, of |-> plan[q][1],
                whole |-> Entry(q).kind # "file"]
    BY <1>7, <2>1 DEF WriteEntry, Create, EntryOf
  <2>7. CASE Entry(q).kind = "file"
    <3>1. pc'[q] = "copy" /\ idx'[q] = idx[q]
      BY <1>1, <1>7, <2>7 DEF WriteEntry, Goto, TypeOK
    <3>2. Entry(q)' = Entry(q)
      BY <2>4, <3>1 DEF Entry
    <3>3. dest'[Entry(q)'.path] = OpenFile(q)'
      BY <2>3, <2>6, <2>7, <3>2 DEF OpenFile
    <3>4. Leased(q)' => HasFirst(q, idx[q] - 1)'
      BY <2>4, <2>5, <3>1 DEF HasFirst
    <3> QED
      BY <1>1, <2>1, <2>3, <2>4, <2>7, <3>1, <3>2, <3>3, <3>4
         DEF Ok, NotAhead, AtEntry, Wrote
  <2>8. CASE Entry(q).kind # "file"
    <3>1. pc'[q] = "entry" /\ idx'[q] = idx[q] + 1
      BY <1>1, <1>7, <2>8 DEF WriteEntry, AtRestorable, TypeOK
    <3>2. Entry(q).kind = "dir" /\ There(Entry(q).path) => dest[Entry(q).path].kind = "dir"
      BY <1>7 DEF WriteEntry, CanCreate, There
    <3>3. ASSUME NEW i, i = idx[q] PROVE Matches(plan[q][1], Entries(q)[i])'
      <4>1. Entries(q)'[i] = Entry(q)
        BY <2>1, <2>4, <3>3
      <4>2. /\ dest'[Entry(q).path].kind = Entry(q).kind
            /\ Entry(q).kind # "dir" => dest'[Entry(q).path].of = plan[q][1]
        BY <2>6, <3>2
      <4> QED
        BY <2>3, <2>8, <4>1, <4>2 DEF Matches
    <3>4. Leased(q)' => HasFirst(q, idx[q] - 1)'
      <4>1. idx'[q] - 1 = idx[q]
        BY <2>1, <3>1
      <4>2. ASSUME Leased(q)', NEW i \in 1..idx[q], Restorable(Entries(q)[i])
            PROVE  Matches(plan[q][1], Entries(q)[i])'
        <5>1. i = idx[q] \/ i \in 1..(idx[q] - 1)
          BY <2>1
        <5> QED
          BY <2>5, <3>3, <4>2, <5>1
      <4> QED
        BY <2>4, <4>1, <4>2 DEF HasFirst
    <3> QED
      BY <1>1, <2>1, <2>3, <2>4, <3>1, <3>4 DEF Ok, NotAhead, AtEntry, Wrote
  <2> QED
    BY <2>7, <2>8
<1>8. CASE EntryRefused(q) \/ ReconcileFails(q) \/ ApplyFails(q)
  <2>1. pc'[q] = "finish" /\ verdict'[q] \in {"FAILED", "UNREAD"}
    BY <1>1, <1>8 DEF EntryRefused, ReconcileFails, ApplyFails, Conclude, Goto, TypeOK
  <2> QED
    BY <1>1, <1>8, <2>1, Failing DEF EntryRefused, AtRestorable, ReconcileFails, ApplyFails
<1>13. CASE SkipEntry(q)
  <2>1. idx[q] \in 1..Len(Entries(q)) /\ Entry(q) = Entries(q)[idx[q]] /\ ~Restorable(Entry(q))
    BY <1>1, <1>13, Snapshots DEF SkipEntry, Ok, AtEntry, Entry
  <2>2. /\ job' = job /\ plan'[q] = plan[q] /\ seen'[q] = seen[q] /\ pc[q] = "entry"
        /\ pc'[q] = "entry" /\ idx'[q] = idx[q] + 1 /\ dest' = dest
    BY <1>1, <1>13 DEF SkipEntry, TypeOK, tree
  <2>3. Entries(q)' = Entries(q)
    BY <2>2 DEF Entries
  <2>4. ASSUME Leased(q)', NEW i \in 1..idx[q], Restorable(Entries(q)[i])
        PROVE  Matches(plan[q][1], Entries(q)[i])'
    <3>1. Leased(q) /\ i \in 1..(idx[q] - 1)
      BY <1>1, <2>1, <2>2, <2>4, StillLeased
    <3>2. Matches(plan[q][1], Entries(q)[i])
      BY <1>1, <2>2, <2>4, <3>1 DEF Ok, Wrote, HasFirst
    <3> QED
      BY <2>2, <2>3, <3>2 DEF Matches
  <2>5. Leased(q)' => HasFirst(q, idx[q] - 1)'
    <3>1. idx'[q] - 1 = idx[q]
      BY <2>1, <2>2
    <3> QED
      BY <2>3, <2>4, <3>1 DEF HasFirst
  <2> QED
    BY <1>1, <2>1, <2>2, <2>3, <2>5 DEF Ok, NotAhead, AtEntry, Wrote
<1>9. CASE CopyFile(q)
  <2>1. idx[q] \in 1..Len(Entries(q)) /\ Entry(q) = Entries(q)[idx[q]] /\ Entry(q).kind = "file"
    BY <1>1, <1>9, Snapshots DEF CopyFile, Ok, AtEntry, Entry
  <2>2. /\ job' = job /\ plan'[q] = plan[q] /\ seen'[q] = seen[q] /\ pc[q] = "copy"
        /\ pc'[q] = "entry" /\ idx'[q] = idx[q] + 1
    BY <1>1, <1>9 DEF CopyFile, Goto, TypeOK
  <2>3. Entries(q)' = Entries(q)
    BY <2>2 DEF Entries
  <2>4. ASSUME Leased(q)', NEW i \in 1..idx[q], Restorable(Entries(q)[i])
        PROVE  Matches(plan[q][1], Entries(q)[i])'
    <3>1. Leased(q)
      BY <1>1, <2>2, <2>4, StillLeased
    <3>2. dest[Entry(q).path] = OpenFile(q) /\ Entry(q).path \in Path
      BY <1>1, <2>1, <2>2, <3>1, Snapshots DEF Ok, Wrote, EntryOf
    <3>3. dest' = [dest EXCEPT ![Entry(q).path] = [@ EXCEPT !.whole = TRUE]]
      BY <1>9, <3>2 DEF CopyFile
    <3>4. CASE i = idx[q]
      <4>1. dest'[Entry(q).path] = [OpenFile(q) EXCEPT !.whole = TRUE]
        BY <1>1, <3>2, <3>3 DEF TypeOK
      <4> QED
        BY <2>1, <2>2, <2>3, <3>4, <4>1 DEF Matches, OpenFile
    <3>5. CASE i # idx[q]
      <4>1. i \in 1..Len(Entries(q)) /\ i \in 1..(idx[q] - 1)
        BY <1>1, <2>1, <2>4, <3>5
      <4>2. Entries(q)[i].path # Entry(q).path
        BY <1>1, <2>1, <3>5, <4>1, Snapshots
      <4>3. Entries(q)[i].path \in Path
        BY <1>1, <4>1, Snapshots DEF EntryOf
      <4>4. dest'[Entries(q)[i].path] = dest[Entries(q)[i].path]
        BY <1>1, <3>3, <4>2, <4>3 DEF TypeOK
      <4>5. Matches(plan[q][1], Entries(q)[i])
        BY <1>1, <2>2, <2>4, <3>1, <4>1 DEF Ok, Wrote, HasFirst
      <4> QED
        BY <2>2, <2>3, <4>4, <4>5 DEF Matches
    <3> QED
      BY <3>4, <3>5
  <2>5. Leased(q)' => HasFirst(q, idx[q] - 1)'
    <3>1. idx'[q] - 1 = idx[q]
      BY <2>1, <2>2
    <3> QED
      BY <2>3, <2>4, <3>1 DEF HasFirst
  <2> QED
    BY <1>1, <2>1, <2>2, <2>3, <2>5 DEF Ok, NotAhead, AtEntry, Wrote
<1>10. CASE Written(q)
  <2>1. pc'[q] = "finish" /\ verdict'[q] = "SUCCEEDED"
    BY <1>1, <1>10 DEF Written, Conclude, Goto, TypeOK
  <2>2. ASSUME Leased(q)' PROVE HasFirst(q, Len(Entries(q)))'
    <3>1. Leased(q)
      BY <1>1, <1>10, <2>2, StillLeased DEF Written
    <3>2. HasFirst(q, idx[q] - 1) /\ idx[q] - 1 = Len(Entries(q))
      BY <1>1, <1>10, <3>1 DEF Written, Ok, AtEntry, Wrote, TypeOK
    <3> QED
      BY <1>10, <3>2 DEF Written, tree, HasFirst, Matches, Entries
  <2> QED
    BY <1>1, <1>10, <2>1, <2>2 DEF Written, Ok, NotAhead, AtEntry, Wrote, None
<1>11. CASE Finish(q) \/ FinishLost(q)
  BY <1>1, <1>11, IdleIsOk DEF Finish, FinishLost, Leave
<1>12. ASSUME NEW k \in plans, Claim(q, k) PROVE Ok(q)'
  <2>1. k \in Plans /\ job[k].revision \in Nat
    BY <1>1 DEF TypeOK, JobRows
  <2>2. pc'[q] = "reconcile" /\ plan'[q] = k /\ seen'[q] = job[k].revision + 1
    BY <1>1, <1>12 DEF Claim, Goto, TypeOK
  <2>3. job'[k].revision = job[k].revision + 1
    BY <1>1, <1>12, <2>1 DEF Claim, TypeOK
  <2> QED
    BY <2>1, <2>2, <2>3 DEF Ok, NotAhead, AtEntry, Wrote
<1> QED
  BY <1>2, <1>3, <1>5, <1>6, <1>7, <1>8, <1>9, <1>10, <1>11, <1>12, <1>13 DEF Work, Fails

LEMMA NextInv == IInv /\ [Next]_vars => IInv'
<1> SUFFICES ASSUME IInv, [Next]_vars PROVE IInv'
  OBVIOUS
<1>1. TypeOK' /\ StampBound'
  BY TypesStep DEF IInv, Ok
<1> SUFFICES ASSUME NEW r \in Request PROVE Ok(r)'
  BY <1>1 DEF IInv
<1>2. TypeOK /\ TypeOK' /\ Ok(r) /\ plan[r] \in Plans /\ job[plan[r]] \in JobRows
  BY <1>1 DEF IInv, TypeOK
<1>3. ASSUME NEW q \in Request,
             Work(q) \/ Fails(q) \/ \E k \in plans : Claim(q, k)
      PROVE  Ok(r)'
  BY <1>2, <1>3, OthersOk, OwnOk
<1>4. ASSUME UNCHANGED control, job'[plan[r]].revision >= job[plan[r]].revision,
             \A p \in Path : There(p) => dest'[p] = dest[p]
      PROVE  Ok(r)'
  BY <1>2, <1>4, OkStays DEF control, KeepsFor
<1>5. job[plan[r]].revision >= job[plan[r]].revision
  BY <1>2 DEF JobRows
<1>6. ASSUME NEW s \in Snapshot, PlanRestore(s) PROVE Ok(r)'
  BY <1>4, <1>5, <1>6 DEF PlanRestore, tree
<1>7. ASSUME NEW k \in plans, LeaseRunsOut(k) \/ CancelJob(k) PROVE Ok(r)'
  <2>1. k \in Plans /\ job[k].revision \in Nat
    BY <1>2 DEF TypeOK, JobRows
  <2>2. job'[plan[r]].revision >= job[plan[r]].revision
    <3>1. CASE LeaseRunsOut(k)
      <4>1. job' = [job EXCEPT ![k] = [@ EXCEPT !.leased = FALSE]]
        BY <3>1 DEF LeaseRunsOut
      <4> QED
        BY <1>2, <2>1, <4>1 DEF TypeOK, JobRows
    <3>2. CASE CancelJob(k)
      <4>1. job' = [job EXCEPT ![k] = Updated(job[k], "RUNNING")]
        BY <3>2 DEF CancelJob
      <4>2. Updated(job[k], "RUNNING").revision = job[k].revision + 1
        BY <1>2, <2>1 DEF TypeOK, JobRows, Updated
      <4> QED
        BY <1>2, <2>1, <4>1, <4>2 DEF TypeOK, JobRows
    <3> QED
      BY <1>7, <3>1, <3>2
  <2> QED
    BY <1>4, <1>7, <2>2 DEF LeaseRunsOut, CancelJob, tree
<1>8. CASE Kill \/ PowerLoss
  <2>1. Leave(Request)
    BY <1>8 DEF Kill, PowerLoss
  <2> QED
    BY <2>1, IdleIsOk DEF Leave
<1>9. ASSUME NEW keep \in BOOLEAN, UserClears(keep) PROVE Ok(r)'
  <2>1. ~Leased(r) /\ ~Leased(r)'
    BY <1>2, <1>9 DEF UserClears, Leased, Holds, control
  <2> QED
    BY <1>2, <1>9, <2>1 DEF UserClears, Ok, NotAhead, AtEntry, Wrote, Entries, Entry, control
<1>10. ASSUME NEW p \in Path, UserWrites(p) PROVE Ok(r)'
  <2>1. \A x \in Path : There(x) => dest'[x] = dest[x]
    BY <1>10 DEF UserWrites
  <2> QED
    BY <1>4, <1>5, <1>10, <2>1 DEF UserWrites
<1>11. CASE UNCHANGED vars
  BY <1>4, <1>5, <1>11 DEF vars, tree
<1> QED
  BY <1>3, <1>6, <1>7, <1>8, <1>9, <1>10, <1>11 DEF Next, Fails

-----------------------------------------------------------------------------
(* A restore that fails was not complete *)

Open(p) == ~There(p) \/ dest[p] = UserFile
OpenFrom(r, n) == \A i \in 1..Len(Entries(r)) : n <= i => Open(Entries(r)[i].path)

\* The request that works alone has found a destination that is not the
\* snapshot, and none of the entries it has still to write is there.
Short(r) ==
  ~contended /\ Leased(r) /\ Entries(r) # <<>> =>
    /\ pc[r] \in {"inspect", "prepare"} => ~IsSnapshot(plan[r][1])
    /\ pc[r] = "mkdir" => ~root
    /\ pc[r] = "entry" => OpenFrom(r, idx[r])
    /\ pc[r] = "copy" => OpenFrom(r, idx[r] + 1)
    /\ pc[r] = "finish" /\ verdict[r] = "FAILED" => ~IsSnapshot(plan[r][1])

RootHolds == ~root => IsEmpty
Alone == ~contended => \A r, q \in Request : pc[r] # "idle" /\ pc[q] # "idle" => r = q
SInv == RootHolds /\ Alone /\ \A r \in Request : Short(r)

LEMMA EmptyIsShort ==
    ASSUME TypeOK, NEW r \in Request, Entries(r) # <<>>, IsEmpty
    PROVE  ~IsSnapshot(plan[r][1]) /\ OpenFrom(r, 1)
<1>1. Len(Entries(r)) \in Nat /\ Entries(r) \in Seq(EntryOf)
  <2>1. Prepared(Manifest[plan[r][1]])
    BY Snapshots, ManifestAssumption
  <2> QED
    BY <2>1 DEF Prepared, Entries
<1>2. 1 \in 1..Len(Entries(r))
  BY <1>1
<1>3. \A i \in 1..Len(Entries(r)) : Entries(r)[i] \in EntryOf
  BY Snapshots
<1>4. ~There(Entries(r)[1].path) /\ Entries(r)[1].kind # None
  BY <1>2, <1>3 DEF IsEmpty, EntryOf, None
<1>5. ~IsSnapshot(plan[r][1])
  BY <1>2, <1>4 DEF IsSnapshot, Matches, There, Entries
<1>6. \A i \in 1..Len(Entries(r)) : ~There(Entries(r)[i].path)
  BY <1>3 DEF IsEmpty, EntryOf
<1> QED
  BY <1>5, <1>6 DEF OpenFrom, Open

\* An entry that is not there, or whose place the user has taken, is missed.
LEMMA OpenIsMissed ==
    ASSUME TypeOK, NEW r \in Request, NEW i \in 1..Len(Entries(r)),
           Open(Entries(r)[i].path)
    PROVE  ~IsSnapshot(plan[r][1])
<1>1. Entries(r)[i] \in EntryOf /\ plan[r][1] \in Snapshot
  BY Snapshots
<1>2. plan[r][1] # "user"
  BY <1>1, UserAssumption
<1>3. ~Matches(plan[r][1], Entries(r)[i])
  BY <1>1, <1>2 DEF Matches, Open, There, UserFile, EntryOf, None
<1> QED
  BY <1>3 DEF IsSnapshot, Entries

\* What the user writes completes no snapshot.
LEMMA UserNeverCompletes ==
    ASSUME TypeOK, NEW p \in Path, UserWrites(p), NEW s \in Snapshot
    PROVE  ~IsSnapshot(s)'
<1> SUFFICES ASSUME IsSnapshot(s)' PROVE FALSE
  OBVIOUS
<1>1. dest'[p] = UserFile
  BY DEF UserWrites, TypeOK
<1>2. There(p)'
  BY <1>1 DEF There, UserFile, None
<1>3. PICK i \in 1..Len(Manifest[s]) : Manifest[s][i].path = p
  BY <1>2 DEF IsSnapshot
<1>4. Matches(s, Manifest[s][i])'
  BY <1>3 DEF IsSnapshot
<1>5. Manifest[s][i].kind = "file" /\ dest'[p].of = s
  BY <1>1, <1>3, <1>4 DEF Matches, UserFile
<1> QED
  BY <1>1, <1>5, UserAssumption DEF UserFile

\* What leaves the destination alone leaves a request where it was.
LEMMA ShortStays ==
    ASSUME TypeOK, NEW r \in Request, Short(r), NotAhead(r), UNCHANGED tree,
           ~contended' => ~contended,
           pc'[r] = pc[r], plan'[r] = plan[r], idx'[r] = idx[r],
           seen'[r] = seen[r], verdict'[r] = verdict[r],
           job[plan[r]].revision \in Nat, job'[plan[r]].revision \in Nat,
           job'[plan[r]].revision >= job[plan[r]].revision
    PROVE  Short(r)'
<1> SUFFICES ASSUME ~contended, ~contended', Leased(r)', Entries(r)' # <<>> PROVE Short(r)'
  BY DEF Short
<1>1. Leased(r) /\ Entries(r)' = Entries(r)
  <2>1. seen[r] \in Nat
    BY DEF TypeOK
  <2> QED
    BY <2>1 DEF Leased, Holds, NotAhead, Entries
<1>2. IsSnapshot(plan[r][1])' <=> IsSnapshot(plan[r][1])
  BY DEF tree, IsSnapshot, Matches, There
<1>3. OpenFrom(r, idx[r])' <=> OpenFrom(r, idx[r])
  BY <1>1 DEF tree, OpenFrom, Open, There
<1>4. OpenFrom(r, idx[r] + 1)' <=> OpenFrom(r, idx[r] + 1)
  BY <1>1 DEF tree, OpenFrom, Open, There
<1> QED
  BY <1>1, <1>2, <1>3, <1>4 DEF Short, tree

LEMMA UserLeavesShort ==
    ASSUME TypeOK, NEW r \in Request, Short(r), NEW p \in Path, UserWrites(p)
    PROVE  Short(r)'
<1> SUFFICES ASSUME ~contended', Leased(r)', Entries(r)' # <<>> PROVE Short(r)'
  BY DEF Short
<1>1. /\ Leased(r) /\ Entries(r)' = Entries(r) /\ ~contended
      /\ pc' = pc /\ idx' = idx /\ plan' = plan /\ root
  BY DEF UserWrites, control, Leased, Holds, Entries
<1>2. ~IsSnapshot(plan[r][1])'
  BY <1>1, UserNeverCompletes, Snapshots
<1>3. \A x \in Path : Open(x) => Open(x)'
  BY DEF UserWrites, Open, There, TypeOK
<1>4. \A i \in 1..Len(Entries(r)) : Entries(r)[i].path \in Path
  BY Snapshots DEF EntryOf
<1>5. OpenFrom(r, idx[r]) => OpenFrom(r, idx[r])'
  BY <1>1, <1>3, <1>4 DEF OpenFrom
<1>6. OpenFrom(r, idx[r] + 1) => OpenFrom(r, idx[r] + 1)'
  BY <1>1, <1>3, <1>4 DEF OpenFrom
<1> QED
  BY <1>1, <1>2, <1>5, <1>6 DEF Short

LEMMA RootStep == ASSUME IInv, RootHolds, [Next]_vars PROVE RootHolds'
<1>1. TypeOK
  BY DEF IInv
<1>2. CASE root' = root /\ dest' = dest
  BY <1>2 DEF RootHolds, IsEmpty, There
<1>3. ASSUME NEW r \in Request, WriteEntry(r) \/ PrepareMkdir(r) PROVE RootHolds'
  BY <1>3 DEF WriteEntry, PrepareMkdir, Create, MakeRoot, RootHolds
<1>4. ASSUME NEW r \in Request, CopyFile(r) PROVE RootHolds'
  <2>1. CASE dest[Entry(r).path] = OpenFile(r)
    <3>1. idx[r] \in 1..Len(Entries(r)) /\ Entry(r) = Entries(r)[idx[r]]
      <4>1. Ok(r) /\ Len(Entries(r)) \in Nat
        BY <1>1, Snapshots DEF IInv
      <4> QED
        BY <1>4, <4>1 DEF CopyFile, Ok, AtEntry, Entry
    <3>2. Entry(r).path \in Path
      BY <1>1, <3>1, Snapshots DEF EntryOf
    <3>3. root
      BY <2>1, <3>2 DEF RootHolds, IsEmpty, There, OpenFile, None
    <3> QED
      BY <1>4, <3>3 DEF CopyFile, RootHolds
  <2>2. CASE dest[Entry(r).path] # OpenFile(r)
    BY <1>2, <1>4, <2>2 DEF CopyFile
  <2> QED
    BY <2>1, <2>2
<1>5. CASE PowerLoss
  <2>1. PICK kept \in SUBSET {p \in Path : There(p)} :
          \E torn \in SUBSET kept :
            /\ dest' = [p \in Path |->
                 IF p \in torn THEN [dest[p] EXCEPT !.whole = FALSE]
                 ELSE IF p \in kept THEN dest[p] ELSE Nothing]
            /\ root' \in (IF kept # {} THEN {root} ELSE {FALSE, root})
    BY <1>5 DEF PowerLoss
  <2>2. SUFFICES ASSUME ~root' PROVE IsEmpty'
    BY DEF RootHolds
  <2>3. kept = {}
    BY <2>1, <2>2 DEF RootHolds, IsEmpty
  <2> QED
    BY <2>1, <2>3 DEF IsEmpty, There, Nothing
<1>6. ASSUME NEW keep \in BOOLEAN, UserClears(keep) PROVE RootHolds'
  BY <1>6 DEF UserClears, RootHolds, IsEmpty, There, Nothing
<1>7. ASSUME NEW p \in Path, UserWrites(p) PROVE RootHolds'
  BY <1>7 DEF UserWrites, RootHolds
<1> QED
  BY <1>2, <1>3, <1>4, <1>5, <1>6, <1>7 DEF Next, PlanRestore, Claim, Work, Reconcile,
     Inspect, PrepareDir, SkipEntry, EntryRefused, Written, Finish, Fails, ReconcileFails,
     ApplyFails, FinishLost,
     LeaseRunsOut, CancelJob, Kill, tree, vars

Moves(q) == Work(q) \/ Fails(q)

\* A step of one request: the other requests are where they were.
LEMMA OthersRest ==
    ASSUME TypeOK, NEW q \in Request, Moves(q)
    PROVE  /\ contended' = contended /\ pc[q] # "idle"
           /\ \A r \in Request \ {q} : pc'[r] = pc[r]
<1>1. contended' = contended
  BY DEF Moves, Work, Reconcile, Inspect, PrepareDir, PrepareMkdir, WriteEntry, SkipEntry,
     AtRestorable, EntryRefused,
     CopyFile, Written, Finish, Fails, ReconcileFails, ApplyFails, FinishLost, bounds
<1>2. pc[q] # "idle"
  BY DEF Moves, Work, Reconcile, Inspect, PrepareDir, PrepareMkdir, WriteEntry, SkipEntry,
     AtRestorable, EntryRefused,
     CopyFile, Written, Finish, Fails, ReconcileFails, ApplyFails, FinishLost
<1>3. \A r \in Request \ {q} : pc'[r] = pc[r]
  BY DEF Moves, Work, Reconcile, Inspect, PrepareDir, PrepareMkdir, WriteEntry, SkipEntry,
     AtRestorable, EntryRefused,
     CopyFile, Written, Finish, Fails, ReconcileFails, ApplyFails, FinishLost, Goto, Conclude,
     Leave, TypeOK, AtRestorable
<1> QED
  BY <1>1, <1>2, <1>3

LEMMA AloneStep == ASSUME TypeOK, Alone, [Next]_vars PROVE Alone'
<1>1. CASE pc' = pc /\ contended' = contended
  BY <1>1 DEF Alone
<1>2. CASE Leave(Request)
  BY <1>2 DEF Leave, Alone
<1>3. ASSUME NEW q \in Request, Moves(q) PROVE Alone'
  <2> SUFFICES ASSUME ~contended', NEW r \in Request, NEW p \in Request,
                      pc'[r] # "idle", pc'[p] # "idle"
               PROVE  r = p
    BY DEF Alone
  <2>1. pc[r] # "idle" /\ pc[p] # "idle" /\ ~contended
    BY <1>3, OthersRest
  <2> QED
    BY <2>1 DEF Alone
<1>4. ASSUME NEW q \in Request, NEW k \in plans, Claim(q, k) PROVE Alone'
  <2> SUFFICES ASSUME ~contended', NEW r \in Request, pc'[r] # "idle" PROVE r = q
    BY DEF Alone
  <2>1. pc[r] = "idle"
    BY <1>4 DEF Claim
  <2> QED
    BY <1>4, <2>1 DEF Claim, Goto, TypeOK
<1> QED
  BY <1>1, <1>2, <1>3, <1>4 DEF Next, Moves, PlanRestore, LeaseRunsOut, CancelJob, Kill,
     PowerLoss, UserClears, UserWrites, control, bounds, vars, Fails

\* Writing an entry leaves the places of the later ones alone: parents precede.
LEMMA LaterStayOpen ==
    ASSUME TypeOK, NEW q \in Request, WriteEntry(q), idx[q] \in 1..Len(Entries(q)),
           OpenFrom(q, idx[q]), NEW j \in 1..Len(Entries(q)), idx[q] < j
    PROVE  Open(Entries(q)[j].path)'
<1> DEFINE i == idx[q]
<1>1. Prepared(Entries(q))
  BY Snapshots, ManifestAssumption DEF Entries
<1>2. Entries(q)[j].path \in Path /\ Entry(q) = Entries(q)[i]
  BY Snapshots DEF EntryOf, Entry
<1>3. Entries(q)[j].path # Entries(q)[i].path /\ i \in 1..Len(Entries(q)) /\ Len(Entries(q)) \in Nat
  BY Snapshots
<1>4. Entries(q)[j].path \notin Above[Entries(q)[i].path]
  <2>1. Entries(q)[j].path \in Above[Entries(q)[i].path] => j < i
    BY <1>1, <1>3 DEF Prepared
  <2> QED
    BY <1>3, <2>1
<1>5. dest'[Entries(q)[j].path] = dest[Entries(q)[j].path]
  BY <1>2, <1>3, <1>4 DEF WriteEntry, Create
<1>6. Open(Entries(q)[j].path)
  BY <1>3 DEF OpenFrom
<1>7. Entries(q)' = Entries(q)
  BY DEF WriteEntry, Entries
<1> QED
  BY <1>5, <1>6, <1>7 DEF Open, There

\* What a request that works alone does itself.
LEMMA OwnShort ==
    ASSUME IInv, TypeOK', SInv, NEW q \in Request, Moves(q)
    PROVE  Short(q)'
<1> SUFFICES ASSUME ~contended', Leased(q)', Entries(q)' # <<>> PROVE Short(q)'
  BY DEF Short
<1>1. TypeOK /\ Ok(q) /\ Short(q) /\ NotAhead(q) /\ Len(Entries(q)) \in Nat /\ RootHolds
  BY Snapshots DEF IInv, Ok, SInv
<1>2. ~contended /\ pc[q] # "idle"
  BY <1>1, OthersRest
<1>3. CASE Finish(q) \/ FinishLost(q)
  BY <1>1, <1>3 DEF Finish, FinishLost, Leave, Leased, Holds
<1>4. CASE ~(Finish(q) \/ FinishLost(q))
  <2>1. /\ job' = job /\ plan'[q] = plan[q] /\ seen'[q] = seen[q]
    BY <1>4 DEF Moves, Work, Reconcile, Inspect, PrepareDir, PrepareMkdir, WriteEntry,
       SkipEntry, EntryRefused, CopyFile, Written, ReconcileFails, ApplyFails, Fails, AtRestorable
  <2>2. Leased(q) /\ Entries(q)' = Entries(q) /\ Entries(q) # <<>>
    BY <1>1, <1>2, <2>1, StillLeased DEF Entries
  <2>3. tree' = tree => (IsSnapshot(plan[q][1])' <=> IsSnapshot(plan[q][1]))
    BY <2>1 DEF tree, IsSnapshot, Matches, There
  <2>4. CASE Reconcile(q)
    <3>1. Free => IsEmpty
      BY <1>1 DEF Free, RootHolds
    <3>2. CASE Free
      <4>1. ~IsSnapshot(plan[q][1])
        BY <1>1, <2>2, <3>1, <3>2, EmptyIsShort
      <4> QED
        BY <1>1, <2>1, <2>3, <2>4, <4>1, <3>2 DEF Reconcile, Goto, Conclude, Done, Short, TypeOK
    <3>3. CASE ~Free /\ Conclude(q, "FAILED") /\ ~Done(plan[q][1])
      <4>1. ~IsSnapshot(plan[q][1]) /\ pc'[q] = "finish"
        BY <1>1, <3>3 DEF Done, Conclude, Goto, TypeOK
      <4> QED
        BY <2>3, <2>4, <4>1 DEF Reconcile, Short
    <3>4. CASE ~Free /\ Conclude(q, "SUCCEEDED")
      <4>1. pc'[q] = "finish" /\ verdict'[q] = "SUCCEEDED"
        BY <1>1, <3>4 DEF Conclude, Goto, TypeOK
      <4> QED
        BY <4>1 DEF Short
    <3> QED
      BY <2>4, <3>2, <3>3, <3>4 DEF Reconcile
  <2>5. CASE Inspect(q)
    <3>1. ~IsSnapshot(plan[q][1])'
      BY <1>2, <1>1, <2>2, <2>3, <2>5 DEF Inspect, Short
    <3>2. pc'[q] \in {"prepare", "finish"}
      BY <1>1, <2>5 DEF Inspect, Goto, Conclude, TypeOK
    <3> QED
      BY <3>1, <3>2 DEF Short
  <2>6. ASSUME IsEmpty, dest' = dest, pc'[q] = "entry", idx'[q] = 1 PROVE Short(q)'
    <3>1. OpenFrom(q, 1)
      BY <1>1, <2>2, <2>6, EmptyIsShort
    <3>2. OpenFrom(q, idx[q])'
      BY <2>2, <2>6, <3>1 DEF OpenFrom, Open, There
    <3> QED
      BY <2>6, <3>2 DEF Short
  <2>7. CASE PrepareDir(q)
    <3>1. ~IsSnapshot(plan[q][1])'
      BY <1>1, <1>2, <2>2, <2>3, <2>7 DEF PrepareDir, Short
    <3>2. CASE ~root /\ Goto(q, "mkdir")
      BY <1>1, <2>7, <3>2 DEF PrepareDir, Goto, TypeOK, tree, Short
    <3>3. CASE root /\ IsEmpty /\ Goto(q, "entry") /\ idx' = [idx EXCEPT ![q] = 1]
      BY <1>1, <2>6, <2>7, <3>3 DEF PrepareDir, Goto, TypeOK, tree
    <3>4. CASE Conclude(q, "FAILED")
      BY <1>1, <3>1, <3>4 DEF Conclude, Goto, TypeOK, Short
    <3> QED
      BY <2>7, <3>2, <3>3, <3>4 DEF PrepareDir
  <2>8. CASE PrepareMkdir(q)
    <3>1. IsEmpty
      BY <1>1, <1>2, <2>2, <2>8 DEF PrepareMkdir, Short, RootHolds
    <3> QED
      BY <1>1, <2>6, <2>8, <3>1 DEF PrepareMkdir, Goto, TypeOK
  <2>9. CASE WriteEntry(q)
    <3>1. idx[q] \in 1..Len(Entries(q)) /\ OpenFrom(q, idx[q])
      BY <1>1, <1>2, <2>2, <2>9 DEF WriteEntry, AtRestorable, Ok, AtEntry, Short
    <3>3. \A j \in 1..Len(Entries(q)) : idx[q] < j => Open(Entries(q)[j].path)'
      BY <1>1, <2>9, <3>1, LaterStayOpen
    <3>4. CASE Entry(q).kind = "file"
      <4>1. pc'[q] = "copy" /\ idx'[q] = idx[q]
        BY <1>1, <2>9, <3>4 DEF WriteEntry, Goto, TypeOK
      <4>2. OpenFrom(q, idx[q] + 1)'
        BY <2>2, <3>1, <3>3, <4>1 DEF OpenFrom
      <4> QED
        BY <4>1, <4>2 DEF Short
    <3>5. CASE Entry(q).kind # "file"
      <4>1. pc'[q] = "entry" /\ idx'[q] = idx[q] + 1
        BY <1>1, <2>9, <3>5 DEF WriteEntry, AtRestorable, TypeOK
      <4>2. OpenFrom(q, idx[q])'
        BY <2>2, <3>1, <3>3, <4>1 DEF OpenFrom
      <4> QED
        BY <4>1, <4>2 DEF Short
    <3> QED
      BY <3>4, <3>5
  <2>10. CASE EntryRefused(q) \/ ApplyFails(q)
    <3>1. pc'[q] = "finish" /\ tree' = tree
      BY <1>1, <2>10 DEF EntryRefused, ApplyFails, Conclude, Goto, TypeOK
    <3>2. ~IsSnapshot(plan[q][1])
      <4>1. CASE pc[q] \in {"inspect", "prepare"}
        BY <1>1, <1>2, <2>2, <4>1 DEF Short
      <4>2. CASE pc[q] = "mkdir"
        <5>1. IsEmpty
          BY <1>1, <1>2, <2>2, <4>2 DEF Short, RootHolds
        <5> QED
          BY <1>1, <2>2, <5>1, EmptyIsShort
      <4>3. CASE pc[q] = "entry"
        <5>1. idx[q] \in 1..Len(Entries(q))
          BY <1>1, <2>10, <4>3 DEF EntryRefused, AtRestorable, ApplyFails, Ok, AtEntry
        <5>2. Open(Entries(q)[idx[q]].path)
          BY <1>1, <1>2, <2>2, <4>3, <5>1 DEF Short, OpenFrom
        <5> QED
          BY <1>1, <5>1, <5>2, OpenIsMissed
      <4>4. CASE pc[q] = "copy"
        <5>1. idx[q] \in 1..Len(Entries(q))
          BY <1>1, <4>4 DEF Ok, AtEntry
        <5>2. ~Matches(plan[q][1], Entries(q)[idx[q]])
          BY <1>1, <2>2, <4>4 DEF Ok, AtEntry, Wrote, Entry, OpenFile, Matches
        <5> QED
          BY <5>1, <5>2 DEF IsSnapshot, Entries
      <4> QED
        BY <2>10, <4>1, <4>2, <4>3, <4>4 DEF EntryRefused, AtRestorable, ApplyFails
    <3> QED
      BY <2>3, <3>1, <3>2 DEF Short
  <2>13. CASE ReconcileFails(q)
    <3>1. pc'[q] = "finish" /\ verdict'[q] = "UNREAD"
      BY <1>1, <2>13 DEF ReconcileFails, Conclude, Goto, TypeOK
    <3> QED
      BY <3>1 DEF Short
  <2>14. CASE SkipEntry(q)
    <3>1. idx[q] \in 1..Len(Entries(q)) /\ OpenFrom(q, idx[q])
      BY <1>1, <1>2, <2>2, <2>14 DEF SkipEntry, Ok, AtEntry, Short
    <3>2. pc'[q] = "entry" /\ idx'[q] = idx[q] + 1 /\ dest' = dest
      BY <1>1, <2>14 DEF SkipEntry, TypeOK, tree
    <3>3. OpenFrom(q, idx[q])'
      BY <2>2, <3>1, <3>2 DEF OpenFrom, Open, There
    <3> QED
      BY <3>2, <3>3 DEF Short
  <2>11. CASE CopyFile(q)
    <3>1. /\ idx[q] \in 1..Len(Entries(q))
          /\ OpenFrom(q, idx[q] + 1)
          /\ Entry(q) = Entries(q)[idx[q]]
      BY <1>1, <1>2, <2>2, <2>11 DEF CopyFile, Ok, AtEntry, Short, Entry
    <3>2. pc'[q] = "entry" /\ idx'[q] = idx[q] + 1
      BY <1>1, <2>11 DEF CopyFile, Goto, TypeOK
    <3>3. \A j \in 1..Len(Entries(q)) : idx[q] < j =>
            /\ Entries(q)[j].path # Entry(q).path /\ Entries(q)[j].path \in Path
      BY <1>1, <3>1, Snapshots DEF EntryOf
    <3>4. ASSUME NEW p \in Path, p # Entry(q).path PROVE dest'[p] = dest[p]
      BY <1>1, <2>11, <3>4 DEF CopyFile, TypeOK
    <3>5. ASSUME NEW j \in 1..Len(Entries(q)), idx[q] + 1 <= j
          PROVE  Open(Entries(q)[j].path)'
      <4>1. idx[q] < j /\ Open(Entries(q)[j].path)
        BY <1>1, <3>1, <3>5 DEF OpenFrom
      <4>2. dest'[Entries(q)[j].path] = dest[Entries(q)[j].path]
        BY <3>3, <3>4, <4>1
      <4> QED
        BY <2>2, <4>1, <4>2 DEF Open, There
    <3>6. OpenFrom(q, idx[q])'
      BY <2>2, <3>2, <3>5 DEF OpenFrom
    <3> QED
      BY <3>2, <3>6 DEF Short
  <2>12. CASE Written(q)
    <3>1. pc'[q] = "finish" /\ verdict'[q] = "SUCCEEDED"
      BY <1>1, <2>12 DEF Written, Conclude, Goto, TypeOK
    <3> QED
      BY <3>1 DEF Short
  <2> QED
    BY <1>4, <2>4, <2>5, <2>7, <2>8, <2>9, <2>10, <2>11, <2>12, <2>13, <2>14
       DEF Moves, Work, Fails
<1> QED
  BY <1>3, <1>4

\* A job is decided by the request that leased it, with the outcome it has.
LEMMA WhoDecides ==
    ASSUME IInv, Next, NEW k \in Plans, NEW o \in {"SUCCEEDED", "FAILED"},
           job[k].state # o, job'[k].state = o
    PROVE  \E r \in Request :
             k = plan[r] /\ Leased(r) /\ Recorded(verdict[r]) = o /\ pc[r] = "finish"
<1>1. PICK r \in Request : Finish(r)
  <2>1. job' # job
    OBVIOUS
  <2>2. ~\E q \in Request, j \in plans : Claim(q, j)
    BY DEF Claim, IInv, TypeOK
  <2>3. ~\E j \in plans : LeaseRunsOut(j)
    BY DEF LeaseRunsOut, IInv, TypeOK, JobRows
  <2>4. ~\E j \in plans : CancelJob(j)
    <3> SUFFICES ASSUME NEW j \in plans, CancelJob(j) PROVE FALSE
      OBVIOUS
    <3>1. j \in Plans /\ job[j] \in JobRows /\ job \in [Plans -> JobRows]
      BY DEF IInv, TypeOK
    <3>2. Updated(job[j], "RUNNING").state = "RUNNING"
      BY <3>1 DEF Updated, JobRows
    <3>3. job' = [job EXCEPT ![j] = Updated(job[j], "RUNNING")]
      BY DEF CancelJob
    <3> QED
      BY <3>1, <3>2, <3>3
  <2> QED
    BY <2>1, <2>2, <2>3, <2>4 DEF Next, PlanRestore, Work, Reconcile, Inspect, PrepareDir,
       PrepareMkdir, WriteEntry, SkipEntry, EntryRefused, CopyFile, Written, Fails,
       ReconcileFails, ApplyFails, FinishLost,
       Kill, PowerLoss, UserClears, UserWrites
<1>2. k = plan[r] /\ Leased(r) /\ Recorded(verdict[r]) = o /\ pc[r] = "finish"
  BY <1>1 DEF IInv, TypeOK, JobRows, Finish, Updated, Leased, Holds
<1> QED
  BY <1>2

LEMMA ShortStep ==
    ASSUME IInv, IInv', SInv, [Next]_vars, NEW r \in Request
    PROVE  Short(r)'
<1>1. TypeOK /\ TypeOK' /\ NotAhead(r) /\ Short(r) /\ Alone
  BY DEF IInv, Ok, SInv
<1>2. plan[r] \in Plans /\ job[plan[r]] \in JobRows /\ job'[plan[r]] \in JobRows
  BY <1>1 DEF TypeOK
<1>3. ASSUME pc'[r] = "idle" PROVE Short(r)'
  BY <1>3 DEF Short, Leased, Holds
<1>4. ASSUME NEW q \in Request, Moves(q) PROVE Short(r)'
  <2>1. CASE q = r
    BY <1>1, <1>4, <2>1, OwnShort
  <2>2. CASE q # r
    <3>1. /\ pc'[r] = pc[r] /\ pc[q] # "idle"
          /\ contended' = contended
      BY <1>1, <1>4, <2>2, OthersRest
    <3>2. CASE contended'
      BY <3>2 DEF Short
    <3>3. CASE ~contended'
      <4>1. pc'[r] = "idle"
        BY <1>1, <2>2, <3>1, <3>3 DEF Alone
      <4> QED
        BY <1>3, <4>1
    <3> QED
      BY <3>2, <3>3
  <2> QED
    BY <2>1, <2>2
<1>5. ASSUME NEW q \in Request, NEW k \in plans, Claim(q, k) PROVE Short(r)'
  <2>1. CASE q = r
    <3>1. pc'[r] = "reconcile"
      BY <1>1, <1>5, <2>1 DEF Claim, Goto, TypeOK
    <3> QED
      BY <3>1 DEF Short
  <2>2. CASE q # r /\ pc[r] = "idle"
    BY <1>1, <1>3, <1>5, <2>2 DEF Claim, Goto, TypeOK
  <2>3. CASE q # r /\ pc[r] # "idle"
    BY <1>5, <2>3 DEF Claim, Short
  <2> QED
    BY <2>1, <2>2, <2>3
<1>6. ASSUME UNCHANGED <<tree, control>>, contended' = contended,
             job'[plan[r]].revision >= job[plan[r]].revision
      PROVE  Short(r)'
  <2>1. /\ job[plan[r]].revision \in Nat /\ job'[plan[r]].revision \in Nat
        /\ pc'[r] = pc[r] /\ plan'[r] = plan[r] /\ idx'[r] = idx[r]
        /\ seen'[r] = seen[r] /\ verdict'[r] = verdict[r]
    BY <1>2, <1>6 DEF JobRows, control
  <2>2. (~contended' => ~contended) /\ UNCHANGED tree
    BY <1>6
  <2> QED
    BY <1>1, <1>6, <2>1, <2>2, ShortStays
<1>7. job[plan[r]].revision >= job[plan[r]].revision
  BY <1>2 DEF JobRows
<1>8. ASSUME NEW s \in Snapshot, PlanRestore(s) PROVE Short(r)'
  BY <1>6, <1>7, <1>8 DEF PlanRestore, bounds
<1>9. ASSUME NEW k \in plans, LeaseRunsOut(k) PROVE Short(r)'
  <2>1. job' = [job EXCEPT ![k] = [@ EXCEPT !.leased = FALSE]] /\ k \in Plans
    BY <1>1, <1>9 DEF LeaseRunsOut, TypeOK
  <2>2. job'[plan[r]].revision >= job[plan[r]].revision
    BY <1>1, <1>2, <2>1 DEF TypeOK, JobRows
  <2> QED
    BY <1>6, <1>9, <2>2 DEF LeaseRunsOut
<1>10. ASSUME NEW k \in plans, CancelJob(k) PROVE Short(r)'
  <2>1. k \in Plans /\ job[k] \in JobRows
    BY <1>1 DEF TypeOK
  <2>2. job' = [job EXCEPT ![k] = Updated(job[k], "RUNNING")]
    BY <1>10 DEF CancelJob
  <2>3. Updated(job[k], "RUNNING").revision = job[k].revision + 1
    BY <2>1 DEF JobRows, Updated
  <2>4. job'[plan[r]].revision >= job[plan[r]].revision
    BY <1>1, <1>2, <2>1, <2>2, <2>3 DEF TypeOK, JobRows
  <2> QED
    BY <1>6, <1>10, <2>4 DEF CancelJob
<1>11. CASE Kill \/ PowerLoss
  <2>1. Leave(Request)
    BY <1>11 DEF Kill, PowerLoss
  <2> QED
    BY <1>3, <2>1 DEF Leave
<1>12. ASSUME NEW keep \in BOOLEAN, UserClears(keep) PROVE Short(r)'
  <2>1. ~Leased(r)'
    BY <1>2, <1>12 DEF UserClears, Leased, Holds, control
  <2> QED
    BY <2>1 DEF Short
<1>13. ASSUME NEW p \in Path, UserWrites(p) PROVE Short(r)'
  BY <1>1, <1>13, UserLeavesShort
<1>14. CASE UNCHANGED vars
  BY <1>6, <1>7, <1>14 DEF vars, bounds
<1> QED
  BY <1>4, <1>5, <1>8, <1>9, <1>10, <1>11, <1>12, <1>13, <1>14 DEF Next, Moves, Fails

-----------------------------------------------------------------------------
(* Theorems *)

\* The state of a restore is what its declarations say, and a request that can
\* still record its outcome finds in the destination everything it wrote.
THEOREM RestoreInvariant == Spec => []IInv
<1>1. Init => IInv
  BY InitInv
<1>2. IInv /\ [Next]_vars => IInv'
  BY NextInv
<1> QED
  BY <1>1, <1>2, PTL DEF Spec

THEOREM RestoreTypes == Spec => []TypeOK
<1>1. IInv => TypeOK
  BY DEF IInv
<1> QED
  BY <1>1, RestoreInvariant, PTL

\* finishPlanApplyJob: whoever wrote the entries, killed and taken over
\* attempts included, a job becomes SUCCEEDED only with every directory, link
\* and file of the snapshot in place.
THEOREM RestoreIsComplete == Spec => SucceededIsRestored
<1> DEFINE Complete ==
      \A k \in Plans :
        job[k].state # "SUCCEEDED" /\ job'[k].state = "SUCCEEDED" =>
          \A i \in 1..Len(Manifest[k[1]]) :
            Restorable(Manifest[k[1]][i]) => Matches(k[1], Manifest[k[1]][i])
<1>1. IInv /\ [Next]_vars => [Complete]_vars
  <2> SUFFICES ASSUME IInv, Next, NEW k \in Plans,
                      job[k].state # "SUCCEEDED", job'[k].state = "SUCCEEDED"
               PROVE  \A i \in 1..Len(Manifest[k[1]]) :
                        Restorable(Manifest[k[1]][i]) => Matches(k[1], Manifest[k[1]][i])
    OBVIOUS
  <2>1. PICK r \in Request :
          k = plan[r] /\ Leased(r) /\ Recorded(verdict[r]) = "SUCCEEDED" /\ pc[r] = "finish"
    BY WhoDecides
  <2>2. verdict[r] = "SUCCEEDED"
    BY <2>1 DEF Recorded
  <2> QED
    BY <2>1, <2>2 DEF IInv, Ok, Wrote, HasFirst, Entries
<1>2. [][Complete]_vars <=> SucceededIsRestored
  BY PTL DEF SucceededIsRestored
<1> QED
  BY <1>1, <1>2, RestoreInvariant, PTL DEF Spec

\* createRestoreFile, os.Symlink, os.MkdirAll: no step of a restore changes or
\* replaces what is at a path, whoever put it there.
THEOREM RestoreOverwritesNothing == Spec => NothingIsOverwritten
<1> DEFINE Kept ==
      \A p \in Path : There(p) =>
        \/ dest'[p] = Nothing
        \/ [dest'[p] EXCEPT !.whole = TRUE] = [dest[p] EXCEPT !.whole = TRUE]
<1>1. IInv /\ [Next]_vars => [Kept]_vars
  <2> SUFFICES ASSUME TypeOK, Next PROVE Kept
    BY DEF IInv
  <2>1. CASE dest' = dest
    BY <2>1
  <2>2. ASSUME NEW r \in Request, WriteEntry(r) PROVE Kept
    BY <2>2 DEF WriteEntry, Create, CanCreate, There, None
  <2>3. ASSUME NEW r \in Request, CopyFile(r) PROVE Kept
    BY <2>3 DEF CopyFile, TypeOK, Nodes
  <2>4. CASE PowerLoss
    <3>1. PICK kept, torn :
            dest' = [p \in Path |->
              IF p \in torn THEN [dest[p] EXCEPT !.whole = FALSE]
              ELSE IF p \in kept THEN dest[p] ELSE Nothing]
      BY <2>4 DEF PowerLoss
    <3> QED
      BY <3>1 DEF TypeOK, Nodes
  <2>5. ASSUME NEW keep \in BOOLEAN, UserClears(keep) PROVE Kept
    BY <2>5 DEF UserClears
  <2>6. ASSUME NEW p \in Path, UserWrites(p) PROVE Kept
    BY <2>6 DEF UserWrites, TypeOK
  <2> QED
    BY <2>1, <2>2, <2>3, <2>4, <2>5, <2>6 DEF Next, PlanRestore, Claim, Work, Reconcile,
       Inspect, PrepareDir, PrepareMkdir, SkipEntry, EntryRefused, Written, Finish, Fails,
       ReconcileFails, ApplyFails, FinishLost, LeaseRunsOut, CancelJob, Kill, tree
<1>2. [][Kept]_vars <=> NothingIsOverwritten
  BY PTL DEF NothingIsOverwritten
<1> QED
  BY <1>1, <1>2, RestoreInvariant, PTL DEF Spec

\* ReconcileRestorePlan: a destination that has the whole snapshot is
\* recognised, so an attempt without a rival, if it could read, fails only on
\* one that has not, whatever kills, power losses, cancellations and the user
\* did before.
THEOREM RestoreFailureIsHonest == Spec => CompletedIsNotFailed
<1> DEFINE Recognised ==
      \A r \in Request, k \in Plans :
        /\ pc[r] = "finish" /\ Holds(r, k) /\ verdict[r] = "FAILED"
        /\ job[k].state # "FAILED" /\ job'[k].state = "FAILED" /\ ~contended
        => Manifest[k[1]] = <<>> \/ ~IsSnapshot(k[1])
<1>1. Init => SInv
  BY DEF Init, SInv, RootHolds, IsEmpty, There, Nothing, Alone, Short, Leased, Holds
<1>2. IInv /\ IInv' /\ SInv /\ [Next]_vars => SInv'
  <2> SUFFICES ASSUME IInv, IInv', SInv, [Next]_vars PROVE SInv'
    OBVIOUS
  <2>1. RootHolds' /\ Alone'
    BY RootStep, AloneStep DEF SInv, IInv
  <2> QED
    BY <2>1, ShortStep DEF SInv
<1>3. IInv /\ SInv /\ [Next]_vars => [Recognised]_vars
  <2> SUFFICES ASSUME SInv, NEW r \in Request, NEW k \in Plans,
                      pc[r] = "finish", Holds(r, k), verdict[r] = "FAILED",
                      ~contended, Manifest[k[1]] # <<>>
               PROVE  ~IsSnapshot(k[1])
    OBVIOUS
  <2>1. k = plan[r] /\ Leased(r)
    BY DEF Holds, Leased
  <2> QED
    BY <2>1 DEF SInv, Short, Entries
<1>4. [][Recognised]_vars <=> CompletedIsNotFailed
  BY PTL DEF CompletedIsNotFailed
<1> QED
  BY <1>1, <1>2, <1>3, <1>4, RestoreInvariant, PTL DEF Spec
=============================================================================

-------------------------- MODULE PublicationProofs --------------------------
(***************************************************************************)
(* Signed publication, for any number of attempts, processes, plans and     *)
(* catalogs: the lineage stays readable, and it implements CommitLineage.   *)
(*                                                                         *)
(* The argument: the repository lock makes an attempt that has taken it and *)
(* not yet left it unique, so nothing is committed between the moment it    *)
(* lists the commits and the moment it places its own; what it signed then  *)
(* still continues the line.  The lease is not used by this argument.       *)
(*                                                                         *)
(* The lease itself (PublicationFence) comes second, for any number of      *)
(* attempts, any lease length and any clock: its safety properties, and     *)
(* that it implements Fence.                                                *)
(***************************************************************************)
EXTENDS PublicationFence, Publication, TLAPS

\* The attempts between taking the repository lock and giving it up.
Inside == {"lease", "list", "check1", "prepare", "check2", "check3", "commit",
           "check4", "observe", "release"}

\* Those that may hold the lease.
Leasing == Inside \ {"lease"}

LockExcludes == \A a \in Attempt : pc[a] \in Inside => flock = a

\* c is the last commit; it is as high as the line is long.
Last(c) == /\ c \in commits
           /\ \A d \in commits : d.gen <= c.gen
           /\ {d.gen : d \in commits} = 1..c.gen

LineHasEnd == commits # {} => \E c \in commits : Last(c)

\* What an attempt is about to sign continues the line.
Continues(a) ==
  /\ ~PlanCommitted(a)
  /\ commits = {} => /\ record[a].gen = 1
                     /\ record[a].parent = NoAttempt
                     /\ record[a].fence > 0
  /\ \A c \in commits : Last(c) =>
       /\ record[a].gen = c.gen + 1
       /\ record[a].parent = c.by
       /\ record[a].fence > c.fence

Signing == {"check1", "prepare", "check2", "check3", "commit"}
RecordsContinue == \A a \in Attempt : pc[a] \in Signing => Continues(a)

Durable(a) == \E c \in commits : c.by = a

\* An attempt's commit is not durable before it places it.
NotYetDurable ==
  \A a \in Attempt :
    Durable(a) => pc[a] \in {"check4", "observe", "release", "unlock", "done", "killed"}
DurableAtCheck4 == \A a \in Attempt : pc[a] = "check4" => Durable(a)

\* Its prepared closure is, from the moment it is read back.
PreparedFirst ==
  \A a \in Attempt : pc[a] \in {"check2", "check3", "commit", "check4"} => a \in prepared

\* A result is returned on the way out.
ResultsLate ==
  \A a \in Attempt : result[a] # "none" => pc[a] \in {"release", "unlock", "done", "killed"}

\* A keepalive runs only while its attempt holds the lock, and the row that
\* names it carries its token.
KeepalivesInside ==
  \A a \in Attempt : keep[a] = "on" => pc[a] \in Leasing /\ Row(a).holder = a

RowsNameTheirToken ==
  \A a \in Attempt : Row(a).holder = a => Row(a).token = coord[a]

PublicationInv ==
  /\ TypeOK
  /\ LockExcludes
  /\ LineageReadable /\ LineHasEnd /\ OneCommitPerPlan
  /\ RecordsContinue
  /\ NotYetDurable /\ DurableAtCheck4
  /\ PreparedFirst /\ PreparedBeforeCommit
  /\ ResultsLate /\ ResultIsHonest
  /\ KeepalivesInside /\ RowsNameTheirToken

-----------------------------------------------------------------------------
(* The line of commits.                                                     *)

\* The last commit is unique, and it is the one the code picks.
LEMMA LatestIsLast ==
  ASSUME commits \in SUBSET Commit, LineageReadable, LineHasEnd, commits # {}
  PROVE  /\ Last(Latest(commits))
         /\ \A c \in commits : Last(c) => c = Latest(commits)
<1>1. PICK c \in commits : Last(c)
  BY DEF LineHasEnd
<1>2. \A d \in commits : (\A e \in commits : e.gen <= d.gen) => d = c
  <2>1. ASSUME NEW d \in commits, \A e \in commits : e.gen <= d.gen PROVE d = c
    <3>1. c.gen \in Nat /\ d.gen \in Nat /\ c.gen <= d.gen /\ d.gen <= c.gen
      BY <1>1, <2>1 DEF Last, Commit
    <3>2. c.gen = d.gen
      BY <3>1
    <3> QED BY <3>2 DEF LineageReadable, Readable
  <2> QED BY <2>1
<1>3. Latest(commits) = c
  BY <1>1, <1>2 DEF Latest, Last
<1> QED BY <1>1, <1>2, <1>3 DEF Last

\* The record the code composes is well formed and continues the line.
LEMMA NextRecordContinues ==
  ASSUME commits \in SUBSET Commit, LineageReadable, LineHasEnd,
         NEW t \in Nat, NEW a \in Attempt
  PROVE  LET r == NextRecord(commits, t) IN
         /\ r \in [gen: Nat, parent: Maybe, fence: Nat]
         /\ commits = {} => r.gen = 1 /\ r.parent = NoAttempt /\ r.fence > 0
         /\ \A c \in commits : Last(c) =>
              r.gen = c.gen + 1 /\ r.parent = c.by /\ r.fence > c.fence
<1>1. CASE commits = {}
  BY <1>1 DEF NextRecord, Larger, Maybe
<1>2. CASE commits # {}
  <2> DEFINE l == Latest(commits)
  <2>1. l \in commits /\ l \in Commit /\ \A c \in commits : Last(c) => c = l
    BY <1>2, LatestIsLast DEF Last
  <2>2. /\ NextRecord(commits, t).gen = l.gen + 1
        /\ NextRecord(commits, t).parent = l.by
        /\ NextRecord(commits, t).fence = Larger(l.fence + 1, t)
        /\ NextRecord(commits, t) \in [gen: Nat, parent: Maybe, fence: Nat]
    BY <1>2, <2>1 DEF NextRecord, Commit, Larger, Maybe
  <2>3. Larger(l.fence + 1, t) > l.fence
    BY <2>1 DEF Larger, Commit
  <2> QED BY <1>2, <2>1, <2>2, <2>3
<1> QED BY <1>1, <1>2

\* A commit of a record that continues the line keeps the line readable, makes
\* itself its end, and is the only commit of its plan.
LEMMA CommitExtendsLine ==
  ASSUME TypeOK, LineageReadable, LineHasEnd, OneCommitPerPlan,
         NEW a \in Attempt, Continues(a),
         NEW n, n = CommitOf(a), commits' = commits \cup {n}
  PROVE  LineageReadable' /\ LineHasEnd' /\ OneCommitPerPlan'
<1>1. /\ n \in Commit /\ n.by = a /\ n.plan = PlanOf[a]
      /\ n.gen = record[a].gen /\ n.parent = record[a].parent
      /\ n.fence = record[a].fence
  BY PlanOfAssumption DEF CommitOf, Commit, TypeOK
<1>2. commits \in SUBSET Commit
  BY DEF TypeOK
<1>3. CASE commits = {}
  <2>1. n.gen = 1 /\ n.parent = NoAttempt /\ n.fence > 0
    BY <1>1, <1>3 DEF Continues
  <2>2. commits' = {n}
    BY <1>3
  <2>3. Last(n)'
    <3>1. {d.gen : d \in {n}} = 1..1
      BY <2>1
    <3> QED BY <2>1, <2>2, <3>1 DEF Last
  <2>4. LineageReadable'
    BY <2>1, <2>2 DEF LineageReadable, Readable
  <2> QED BY <2>2, <2>3, <2>4 DEF LineHasEnd, OneCommitPerPlan
<1>4. CASE commits # {}
  <2>1. PICK l \in commits : Last(l)
    BY <1>4 DEF LineHasEnd
  <2>2. /\ n.gen = l.gen + 1 /\ n.parent = l.by /\ n.fence > l.fence
        /\ l \in Commit
    BY <1>1, <1>2, <2>1 DEF Continues
  <2>3. commits' = commits \cup {n}
    OBVIOUS
  <2>4. \A c \in commits : c.gen < n.gen
    BY <1>2, <2>1, <2>2 DEF Last, Commit
  <2>5. LineageReadable'
    <3>1. \A c, d \in commits' : c.gen = d.gen => c = d
      BY <1>1, <1>2, <2>3, <2>4 DEF LineageReadable, Readable, Commit
    <3>2. l.gen > 0 /\ l.fence > 0
      BY <2>1 DEF LineageReadable, Readable
    <3>3. n.gen > 1 /\ n.fence > 0
      BY <1>1, <2>2, <3>2 DEF Commit
    <3>4. \E p \in commits' : /\ n.gen = p.gen + 1 /\ n.parent = p.by
                              /\ n.fence > p.fence
      BY <2>1, <2>2, <2>3 DEF Last
    <3>5. ASSUME NEW c \in commits
          PROVE  /\ c.gen > 0 /\ c.fence > 0
                 /\ c.gen = 1 => c.parent = NoAttempt
                 /\ c.gen > 1 => \E p \in commits' : /\ c.gen = p.gen + 1
                                                     /\ c.parent = p.by
                                                     /\ c.fence > p.fence
      BY <2>3, <3>5 DEF LineageReadable, Readable
    <3>6. n.gen # 1 /\ n.gen > 0
      BY <1>1, <3>3 DEF Commit
    <3> QED BY <2>3, <3>1, <3>3, <3>4, <3>5, <3>6 DEF LineageReadable, Readable
  <2>6. Last(n)'
    <3>1. {d.gen : d \in commits'} = {d.gen : d \in commits} \cup {n.gen}
      BY <2>3
    <3>2. {d.gen : d \in commits'} = 1..n.gen
      BY <2>1, <2>2, <3>1 DEF Last, Commit
    <3>3. \A d \in commits' : d.gen <= n.gen
      BY <1>1, <1>2, <2>3, <2>4 DEF Commit
    <3> QED BY <2>3, <3>2, <3>3 DEF Last
  <2>7. OneCommitPerPlan'
    BY <1>1, <2>3 DEF OneCommitPerPlan, Continues, PlanCommitted
  <2> QED BY <2>3, <2>5, <2>6, <2>7 DEF LineHasEnd
<1> QED BY <1>3, <1>4

-----------------------------------------------------------------------------
(* The invariant.                                                           *)

\* The initial states satisfy it.
LEMMA PublicationInvInit == Init => PublicationInv
<1> SUFFICES ASSUME Init PROVE PublicationInv
  OBVIOUS
<1>1. TypeOK
  BY NoAttemptAssumption, CatalogOfAssumption
  DEF Init, TypeOK, PC, Results, Maybe, FenceRows, NoRow
<1>2. LockExcludes /\ LineageReadable /\ LineHasEnd /\ OneCommitPerPlan
  BY DEF Init, LockExcludes, Inside, LineageReadable, Readable, LineHasEnd,
         OneCommitPerPlan
<1>3. /\ RecordsContinue /\ NotYetDurable /\ DurableAtCheck4
      /\ PreparedFirst /\ PreparedBeforeCommit
  BY DEF Init, RecordsContinue, Signing, NotYetDurable, DurableAtCheck4, Durable,
         PreparedFirst, PreparedBeforeCommit
<1>4. ResultsLate /\ ResultIsHonest /\ KeepalivesInside
  BY DEF Init, ResultsLate, ResultIsHonest, KeepalivesInside
<1>5. RowsNameTheirToken
  BY NoAttemptAssumption, ProcOfAssumption, CatalogOfAssumption
  DEF Init, RowsNameTheirToken, Row, CatalogFor, NoRow
<1> QED BY <1>1, <1>2, <1>3, <1>4, <1>5 DEF PublicationInv

\* A renewal, a lapse and a release leave the row's token and holder alone.
LEMMA WindowEdits ==
  ASSUME NEW r \in FenceRows, NEW l \in BOOLEAN
  PROVE  /\ Extended(r, l) \in FenceRows /\ Lapsed(r) \in FenceRows
         /\ Extended(r, l).holder = r.holder /\ Extended(r, l).token = r.token
         /\ Lapsed(r).holder = r.holder /\ Lapsed(r).token = r.token
  BY DEF Extended, Lapsed, FenceRows

\* The parts of the invariant that speak of the repository alone survive every
\* step that places nothing.
Stored == LineageReadable /\ LineHasEnd /\ OneCommitPerPlan /\ PreparedBeforeCommit
LEMMA StoredKept ==
  ASSUME Stored, UNCHANGED <<prepared, commits>> PROVE Stored'
  BY DEF Stored, LineageReadable, LineHasEnd, Last, OneCommitPerPlan,
         PreparedBeforeCommit

\* So does what an attempt with an unchanged record was about to sign.
LEMMA ContinuesKept ==
  ASSUME NEW a \in Attempt, Continues(a), record'[a] = record[a],
         UNCHANGED commits
  PROVE  Continues(a)'
  BY DEF Continues, PlanCommitted, Last

\* Every step preserves it.
LEMMA PublicationInvStep == PublicationInv /\ [Next]_vars => PublicationInv'
<1> SUFFICES ASSUME PublicationInv, [Next]_vars PROVE PublicationInv'
  OBVIOUS
<1> USE DEF PublicationInv
<1>0. Stored
  BY DEF Stored
<1>1. ASSUME NEW a \in Attempt,
             LockMutex(a) \/ AcquireLock(a) \/ AbandonLock(a) \/ RefuseLease(a)
      PROVE  PublicationInv'
  <2> USE <1>1 DEF LockMutex, AcquireLock, AbandonLock, RefuseLease, Goto, Return
  <2>1. TypeOK'
    BY ProcOfAssumption DEF TypeOK, PC, Results, Maybe
  <2>2. Stored'
    BY <1>0, StoredKept
  <2>3. LockExcludes'
    <3>1. CASE AcquireLock(a)
      <4>1. \A b \in Attempt : pc[b] \notin Inside
        BY <3>1, NoAttemptAssumption DEF LockExcludes
      <4> QED BY <3>1, <4>1 DEF LockExcludes, TypeOK
    <3>2. CASE ~AcquireLock(a)
      <4>1. flock' = flock /\ pc'[a] \notin Inside
        BY <3>2 DEF Inside, TypeOK
      <4>2. \A b \in Attempt : b # a => pc'[b] = pc[b]
        BY <3>2 DEF TypeOK
      <4> QED BY <4>1, <4>2 DEF LockExcludes
    <3> QED BY <3>1, <3>2
  <2>4. RecordsContinue'
    BY ContinuesKept DEF RecordsContinue, Signing, TypeOK
  <2>5. NotYetDurable' /\ DurableAtCheck4' /\ PreparedFirst'
    BY DEF NotYetDurable, DurableAtCheck4, Durable, PreparedFirst, TypeOK
  <2>6. ResultsLate' /\ ResultIsHonest'
    BY DEF ResultsLate, ResultIsHonest, NotYetDurable, Durable, TypeOK
  <2>7. KeepalivesInside' /\ RowsNameTheirToken'
    BY DEF KeepalivesInside, RowsNameTheirToken, Row, Inside, Leasing, TypeOK
  <2> QED BY <2>1, <2>2, <2>3, <2>4, <2>5, <2>6, <2>7 DEF Stored
<1>2. ASSUME NEW a \in Attempt, AcquireLease(a) PROVE PublicationInv'
  <2> USE <1>2 DEF AcquireLease, Goto
  <2>0. /\ CatalogFor(a) \in Catalog /\ Row(a) \in FenceRows
        /\ flock = a
    BY ProcOfAssumption, CatalogOfAssumption
    DEF CatalogFor, Row, TypeOK, LockExcludes, Inside
  <2>1. TypeOK'
    BY <2>0 DEF TypeOK, PC, Granted, FenceRows, Row
  <2>2. Stored'
    BY <1>0, StoredKept
  <2>3. LockExcludes' /\ RecordsContinue'
    BY ContinuesKept DEF LockExcludes, Inside, RecordsContinue, Signing, TypeOK
  <2>4. NotYetDurable' /\ DurableAtCheck4' /\ PreparedFirst'
    BY DEF NotYetDurable, DurableAtCheck4, Durable, PreparedFirst, TypeOK
  <2>5. ResultsLate' /\ ResultIsHonest'
    BY DEF ResultsLate, ResultIsHonest, Durable, TypeOK
  <2>6. /\ fence'[CatalogFor(a)].holder = a
        /\ fence'[CatalogFor(a)].token = Row(a).token + 1
        /\ \A c \in Catalog : c # CatalogFor(a) => fence'[c] = fence[c]
    BY <2>0 DEF Granted, Row, TypeOK
  <2>7. KeepalivesInside'
    <3>1. ASSUME NEW b \in Attempt, keep'[b] = "on" PROVE b = a
      BY <2>0, <3>1 DEF KeepalivesInside, LockExcludes, Leasing, TypeOK
    <3> QED BY <2>6, <3>1 DEF KeepalivesInside, Inside, Leasing, Row, CatalogFor, TypeOK
  <2>8. RowsNameTheirToken'
    <3> SUFFICES ASSUME NEW b \in Attempt, Row(b)'.holder = b
                 PROVE  Row(b)'.token = coord'[b]
      BY DEF RowsNameTheirToken
    <3>1. CatalogFor(b) \in Catalog
      BY ProcOfAssumption, CatalogOfAssumption DEF CatalogFor
    <3>2. CASE CatalogFor(b) = CatalogFor(a)
      BY <2>6, <3>2 DEF Row, CatalogFor, TypeOK
    <3>3. CASE CatalogFor(b) # CatalogFor(a)
      BY <2>6, <3>1, <3>3 DEF RowsNameTheirToken, Row, CatalogFor, TypeOK
    <3> QED BY <3>2, <3>3
  <2> QED BY <2>1, <2>2, <2>3, <2>4, <2>5, <2>7, <2>8 DEF Stored
<1>3. ASSUME NEW c \in Catalog, LeaseLapses(c) PROVE PublicationInv'
  <2> USE <1>3 DEF LeaseLapses
  <2>1. /\ fence' \in [Catalog -> FenceRows]
        /\ \A d \in Catalog : /\ fence'[d].holder = fence[d].holder
                              /\ fence'[d].token = fence[d].token
    BY WindowEdits DEF TypeOK
  <2>2. TypeOK'
    BY <2>1 DEF TypeOK
  <2>3. Stored'
    BY <1>0, StoredKept
  <2>4. LockExcludes' /\ RecordsContinue'
    BY ContinuesKept DEF LockExcludes, RecordsContinue
  <2>5. NotYetDurable' /\ DurableAtCheck4' /\ PreparedFirst'
    BY DEF NotYetDurable, DurableAtCheck4, Durable, PreparedFirst
  <2>6. ResultsLate' /\ ResultIsHonest'
    BY DEF ResultsLate, ResultIsHonest, Durable
  <2>7. KeepalivesInside' /\ RowsNameTheirToken'
    BY <2>1, ProcOfAssumption, CatalogOfAssumption
    DEF KeepalivesInside, RowsNameTheirToken, Row, CatalogFor
  <2> QED BY <2>2, <2>3, <2>4, <2>5, <2>6, <2>7 DEF Stored
<1>4. ASSUME NEW a \in Attempt, Renew(a) PROVE PublicationInv'
  <2> USE <1>4 DEF Renew
  <2>0. /\ CatalogFor(a) \in Catalog /\ Row(a) \in FenceRows
        /\ Row(a).holder = a
    BY ProcOfAssumption, CatalogOfAssumption
    DEF CatalogFor, Row, TypeOK, KeepalivesInside
  <2>1. /\ fence' \in [Catalog -> FenceRows]
        /\ \A d \in Catalog : /\ fence'[d].holder = fence[d].holder
                              /\ fence'[d].token = fence[d].token
    <3>1. CASE fence' = fence
      BY <3>1 DEF TypeOK
    <3>2. CASE fence' = [fence EXCEPT ![CatalogFor(a)] = Extended(@, TRUE)]
      BY <2>0, <3>2, WindowEdits DEF TypeOK, Row
    <3> QED BY <2>0, <3>1, <3>2
  <2>2. TypeOK'
    BY <2>1 DEF TypeOK
  <2>3. Stored'
    BY <1>0, StoredKept
  <2>4. LockExcludes' /\ RecordsContinue'
    BY ContinuesKept DEF LockExcludes, RecordsContinue
  <2>5. NotYetDurable' /\ DurableAtCheck4' /\ PreparedFirst'
    BY DEF NotYetDurable, DurableAtCheck4, Durable, PreparedFirst
  <2>6. ResultsLate' /\ ResultIsHonest'
    BY DEF ResultsLate, ResultIsHonest, Durable
  <2>7. KeepalivesInside' /\ RowsNameTheirToken'
    BY <2>1, ProcOfAssumption, CatalogOfAssumption
    DEF KeepalivesInside, RowsNameTheirToken, Row, CatalogFor, TypeOK
  <2> QED BY <2>2, <2>3, <2>4, <2>5, <2>6, <2>7 DEF Stored
<1>5. ASSUME NEW a \in Attempt, ListCommits(a) PROVE PublicationInv'
  <2> USE <1>5 DEF ListCommits, Goto, Return
  <2>1. TypeOK'
    <3>1. coord[a] \in Nat /\ commits \in SUBSET Commit
      BY DEF TypeOK
    <3>2. NextRecord(commits, coord[a]) \in [gen: Nat, parent: Maybe, fence: Nat]
      BY <3>1, NextRecordContinues
    <3>3. pc' \in [Attempt -> PC] /\ result' \in [Attempt -> Results]
      BY DEF TypeOK, PC, Results
    <3>4. record' \in [Attempt -> [gen: Nat, parent: Maybe, fence: Nat]]
      <4>1. record' = [record EXCEPT ![a] = NextRecord(commits, coord[a])] \/ record' = record
        OBVIOUS
      <4> HIDE <1>5
      <4> QED BY <3>2, <4>1 DEF TypeOK
    <3>5. /\ mutex' = mutex /\ flock' = flock /\ fence' = fence /\ keep' = keep
          /\ coord' = coord /\ prepared' = prepared /\ commits' = commits
          /\ unreleased' = unreleased
      OBVIOUS
    <3> HIDE <1>5
    <3> QED BY <3>3, <3>4, <3>5 DEF TypeOK
  <2>2. Stored'
    BY <1>0, StoredKept
  <2>3. LockExcludes'
    BY DEF LockExcludes, Inside, TypeOK
  <2>4. RecordsContinue'
    <3> SUFFICES ASSUME NEW b \in Attempt, pc'[b] \in Signing
                 PROVE  Continues(b)'
      BY DEF RecordsContinue
    <3>1. CASE b # a
      BY <3>1, ContinuesKept DEF RecordsContinue, TypeOK
    <3>2. CASE b = a
      <4>1. /\ ~PlanCommitted(a)
            /\ record'[a] = NextRecord(commits, coord[a])
        BY <3>2 DEF Signing, TypeOK
      <4>2. coord[a] \in Nat /\ commits \in SUBSET Commit
        BY DEF TypeOK
      <4>3. /\ commits = {} => /\ record'[a].gen = 1
                                /\ record'[a].parent = NoAttempt
                                /\ record'[a].fence > 0
            /\ \A c \in commits : Last(c) => /\ record'[a].gen = c.gen + 1
                                             /\ record'[a].parent = c.by
                                             /\ record'[a].fence > c.fence
        BY <4>1, <4>2, NextRecordContinues
      <4> QED BY <3>2, <4>1, <4>3 DEF Continues, PlanCommitted, Last
    <3> QED BY <3>1, <3>2
  <2>5. NotYetDurable' /\ DurableAtCheck4' /\ PreparedFirst'
    BY DEF NotYetDurable, DurableAtCheck4, Durable, PreparedFirst, TypeOK
  <2>6. ResultsLate' /\ ResultIsHonest'
    BY DEF ResultsLate, ResultIsHonest, NotYetDurable, Durable, TypeOK
  <2>7. KeepalivesInside' /\ RowsNameTheirToken'
    BY DEF KeepalivesInside, RowsNameTheirToken, Row, Inside, Leasing, TypeOK
  <2> QED BY <2>1, <2>2, <2>3, <2>4, <2>5, <2>6, <2>7 DEF Stored
<1>6. ASSUME NEW a \in Attempt, CheckBefore(a) \/ CheckAfter(a) \/ Observe(a)
      PROVE  PublicationInv'
  <2> USE <1>6 DEF CheckBefore, CheckAfter, Observe, Goto, Return
  <2>1. TypeOK'
    BY DEF TypeOK, PC, Results
  <2>2. Stored'
    BY <1>0, StoredKept
  <2>3. LockExcludes'
    BY DEF LockExcludes, Inside, TypeOK
  <2>4. RecordsContinue'
    BY ContinuesKept DEF RecordsContinue, Signing, TypeOK
  <2>5. NotYetDurable' /\ DurableAtCheck4' /\ PreparedFirst'
    BY DEF NotYetDurable, DurableAtCheck4, Durable, PreparedFirst, TypeOK
  <2>6. ResultsLate' /\ ResultIsHonest'
    <3>1. /\ \A b \in Attempt : b # a => result'[b] = result[b] /\ pc'[b] = pc[b]
          /\ pc'[a] = "release" \/ result'[a] = result[a]
          /\ pc[a] \notin {"release", "unlock", "done", "killed"}
      BY DEF TypeOK
    <3>2. ResultsLate'
      BY <3>1 DEF ResultsLate
    <3>3. result'[a] = "SUCCESS" => Durable(a)
      BY DEF DurableAtCheck4, Durable, OwnCommitObserved, ResultsLate, TypeOK
    <3>4. result'[a] \in {"ERROR", "ALREADY_COMMITTED"} => ~Durable(a)
      BY DEF NotYetDurable, ResultsLate, TypeOK
    <3>5. ResultIsHonest'
      BY <3>1, <3>3, <3>4 DEF ResultIsHonest, Durable
    <3> QED BY <3>2, <3>5
  <2>7. KeepalivesInside' /\ RowsNameTheirToken'
    <3>1. pc'[a] \in Leasing /\ \A b \in Attempt : b # a => pc'[b] = pc[b]
      BY DEF Leasing, Inside, TypeOK
    <3>2. UNCHANGED <<fence, keep, coord>>
      OBVIOUS
    <3> QED BY <3>1, <3>2 DEF KeepalivesInside, RowsNameTheirToken, Row, CatalogFor
  <2> QED BY <2>1, <2>2, <2>3, <2>4, <2>5, <2>6, <2>7 DEF Stored
<1>7. ASSUME NEW a \in Attempt, PlacePrepared(a) PROVE PublicationInv'
  <2> USE <1>7 DEF PlacePrepared, Goto
  <2>1. TypeOK'
    BY DEF TypeOK, PC
  <2>2. LineageReadable' /\ LineHasEnd' /\ OneCommitPerPlan' /\ PreparedBeforeCommit'
    BY DEF LineageReadable, LineHasEnd, Last, OneCommitPerPlan, PreparedBeforeCommit
  <2>3. LockExcludes'
    BY DEF LockExcludes, Inside, TypeOK
  <2>4. RecordsContinue'
    BY ContinuesKept DEF RecordsContinue, Signing, TypeOK
  <2>5. NotYetDurable' /\ DurableAtCheck4' /\ PreparedFirst'
    BY DEF NotYetDurable, DurableAtCheck4, Durable, PreparedFirst, TypeOK
  <2>6. ResultsLate' /\ ResultIsHonest'
    BY DEF ResultsLate, ResultIsHonest, Durable, TypeOK
  <2>7. KeepalivesInside' /\ RowsNameTheirToken'
    BY DEF KeepalivesInside, RowsNameTheirToken, Row, Inside, Leasing, TypeOK
  <2> QED BY <2>1, <2>2, <2>3, <2>4, <2>5, <2>6, <2>7
<1>8. ASSUME NEW a \in Attempt, PlaceCommit(a) PROVE PublicationInv'
  <2> USE <1>8 DEF PlaceCommit, Goto
  <2>0. /\ Continues(a) /\ a \in prepared /\ ~Durable(a)
        /\ CommitOf(a) \in Commit /\ CommitOf(a).by = a
        /\ commits' = commits \/ commits' = commits \cup {CommitOf(a)}
    BY PlanOfAssumption
    DEF RecordsContinue, Signing, PreparedFirst, NotYetDurable, Commit, CommitOf, TypeOK
  <2>1. TypeOK'
    BY <2>0 DEF TypeOK, PC
  <2>2. LineageReadable' /\ LineHasEnd' /\ OneCommitPerPlan'
    <3>1. CASE commits' = commits
      BY <3>1 DEF LineageReadable, LineHasEnd, Last, OneCommitPerPlan
    <3>2. CASE commits' = commits \cup {CommitOf(a)}
      BY <2>0, <3>2, CommitExtendsLine
    <3> QED BY <2>0, <3>1, <3>2
  <2>3. PreparedBeforeCommit'
    BY <2>0 DEF PreparedBeforeCommit
  <2>4. \A b \in Attempt : b # a => (Durable(b)' <=> Durable(b))
    BY <2>0 DEF Durable
  <2>5. LockExcludes'
    BY DEF LockExcludes, Inside, TypeOK
  <2>6. RecordsContinue'
    <3> SUFFICES ASSUME NEW b \in Attempt, pc'[b] \in Signing PROVE FALSE
      BY DEF RecordsContinue
    <3> QED BY DEF LockExcludes, Inside, Signing, TypeOK
  <2>7. NotYetDurable'
    BY <2>0, <2>4 DEF NotYetDurable, TypeOK
  <2>8. DurableAtCheck4'
    <3>1. pc'[a] = "check4" => Durable(a)'
      BY <2>0 DEF Durable, TypeOK
    <3>2. \A b \in Attempt : b # a => pc'[b] = pc[b]
      BY DEF TypeOK
    <3> QED BY <2>4, <3>1, <3>2 DEF DurableAtCheck4
  <2>9. PreparedFirst'
    BY <2>0 DEF PreparedFirst, TypeOK
  <2>10. ResultsLate'
    BY DEF ResultsLate, TypeOK
  <2>11. ResultIsHonest'
    <3>1. result[a] = "none"
      BY DEF ResultsLate
    <3>2. \A b \in Attempt : b # a => (Durable(b)' <=> Durable(b))
      BY <2>4
    <3> QED BY <3>1, <3>2 DEF ResultIsHonest, Durable
  <2>12. KeepalivesInside' /\ RowsNameTheirToken'
    BY DEF KeepalivesInside, RowsNameTheirToken, Row, Inside, Leasing, TypeOK
  <2> QED BY <2>1, <2>2, <2>3, <2>5, <2>6, <2>7, <2>8, <2>9, <2>10, <2>11, <2>12
<1>9. ASSUME NEW a \in Attempt, ReleaseLease(a) \/ Unlock(a) PROVE PublicationInv'
  <2> USE <1>9 DEF ReleaseLease, Unlock, StopKeepalive, CloseLock, Goto
  <2>0. CatalogFor(a) \in Catalog
    BY ProcOfAssumption, CatalogOfAssumption DEF CatalogFor
  <2>1. /\ fence' \in [Catalog -> FenceRows]
        /\ \A d \in Catalog : /\ fence'[d].holder = fence[d].holder
                              /\ fence'[d].token = fence[d].token
    <3>1. CASE fence' = fence
      BY <3>1 DEF TypeOK
    <3>2. CASE fence' = [fence EXCEPT ![CatalogFor(a)] = Lapsed(@)]
      BY <2>0, <3>2, WindowEdits DEF TypeOK
    <3> QED BY <3>1, <3>2
  <2>2. TypeOK'
    BY <2>1, ProcOfAssumption DEF TypeOK, PC, Maybe
  <2>3. Stored'
    BY <1>0, StoredKept
  <2>4. LockExcludes'
    BY DEF LockExcludes, Inside, TypeOK
  <2>5. RecordsContinue'
    BY ContinuesKept DEF RecordsContinue, Signing, TypeOK
  <2>6. NotYetDurable' /\ DurableAtCheck4' /\ PreparedFirst'
    BY DEF NotYetDurable, DurableAtCheck4, Durable, PreparedFirst, TypeOK
  <2>7. ResultsLate' /\ ResultIsHonest'
    BY DEF ResultsLate, ResultIsHonest, Durable, TypeOK
  <2>8. KeepalivesInside' /\ RowsNameTheirToken'
    <3>1. /\ \A b \in Attempt : b # a => pc'[b] = pc[b] /\ keep'[b] = keep[b]
          /\ keep'[a] # "on"
      BY DEF KeepalivesInside, Leasing, Inside, TypeOK
    <3>2. \A b \in Attempt : /\ Row(b)'.holder = Row(b).holder
                             /\ Row(b)'.token = Row(b).token
      BY <2>1, ProcOfAssumption, CatalogOfAssumption DEF Row, CatalogFor
    <3>3. coord' = coord
      OBVIOUS
    <3> QED BY <3>1, <3>2, <3>3 DEF KeepalivesInside, RowsNameTheirToken
  <2> QED BY <2>2, <2>3, <2>4, <2>5, <2>6, <2>7, <2>8 DEF Stored
<1>10. ASSUME NEW p \in Process, Kill(p) PROVE PublicationInv'
  <2> DEFINE dead == {a \in Attempt : ProcOf[a] = p /\ Running(a)}
  <2>0. /\ pc' = [a \in Attempt |-> IF a \in dead THEN "killed" ELSE pc[a]]
        /\ keep' = [a \in Attempt |-> IF a \in dead THEN "off" ELSE keep[a]]
        /\ mutex' = [mutex EXCEPT ![p] = NoAttempt]
        /\ flock' = IF flock \in dead THEN NoAttempt ELSE flock
        /\ UNCHANGED <<fence, coord, record, prepared, commits, result, unreleased>>
    BY <1>10 DEF Kill, KernelUnlock
  <2> HIDE DEF dead
  <2>1. TypeOK'
    BY <2>0 DEF TypeOK, PC, Maybe
  <2>2. Stored'
    BY <1>0, <2>0, StoredKept
  <2>3. LockExcludes' /\ RecordsContinue'
    BY <2>0, ContinuesKept DEF LockExcludes, Inside, RecordsContinue, Signing
  <2>4. NotYetDurable' /\ DurableAtCheck4' /\ PreparedFirst'
    BY <2>0 DEF NotYetDurable, DurableAtCheck4, Durable, PreparedFirst
  <2>5. ResultsLate' /\ ResultIsHonest'
    BY <2>0 DEF ResultsLate, ResultIsHonest, Durable
  <2>6. KeepalivesInside' /\ RowsNameTheirToken'
    BY <2>0 DEF KeepalivesInside, RowsNameTheirToken, Row, CatalogFor
  <2> QED BY <2>1, <2>2, <2>3, <2>4, <2>5, <2>6 DEF Stored
<1>11. CASE UNCHANGED vars
  <2> USE <1>11 DEF vars
  <2>1. Stored'
    BY <1>0, StoredKept
  <2>2. TypeOK' /\ LockExcludes' /\ RecordsContinue'
    BY ContinuesKept DEF TypeOK, LockExcludes, RecordsContinue
  <2>3. NotYetDurable' /\ DurableAtCheck4' /\ PreparedFirst'
    BY DEF NotYetDurable, DurableAtCheck4, Durable, PreparedFirst
  <2>4. ResultsLate' /\ ResultIsHonest'
    BY DEF ResultsLate, ResultIsHonest, Durable
  <2>5. KeepalivesInside' /\ RowsNameTheirToken'
    BY DEF KeepalivesInside, RowsNameTheirToken, Row
  <2> QED BY <2>1, <2>2, <2>3, <2>4, <2>5 DEF Stored
<1> QED
  BY <1>1, <1>2, <1>3, <1>4, <1>5, <1>6, <1>7, <1>8, <1>9, <1>10, <1>11
  DEF Next, Advance

\* The invariant holds throughout.
LEMMA PublicationInvHolds == Spec => []PublicationInv
  BY PublicationInvInit, PublicationInvStep, PTL DEF Spec

-----------------------------------------------------------------------------
\* Every variable keeps its type.
THEOREM TypeCorrect == Spec => []TypeOK
<1>1. PublicationInv => TypeOK  BY DEF PublicationInv
<1> QED BY <1>1, PublicationInvHolds, PTL

\* The chain of signed commits always authenticates, so no reader and no later
\* publication is ever locked out by a broken one.
THEOREM LineageStaysReadable == Spec => []LineageReadable
<1>1. PublicationInv => LineageReadable  BY DEF PublicationInv
<1> QED BY <1>1, PublicationInvHolds, PTL

\* A plan is committed at most once, whatever is retried, killed or answered
\* late.
THEOREM PlansCommitOnce == Spec => []OneCommitPerPlan
<1>1. PublicationInv => OneCommitPerPlan  BY DEF PublicationInv
<1> QED BY <1>1, PublicationInvHolds, PTL

\* No commit is durable before the prepared closure it names.
THEOREM ClosuresComeFirst == Spec => []PreparedBeforeCommit
<1>1. PublicationInv => PreparedBeforeCommit  BY DEF PublicationInv
<1> QED BY <1>1, PublicationInvHolds, PTL

\* Success is reported only of a durable commit, a plain error only of one that
\* is not durable.
THEOREM ResultsAreHonest == Spec => []ResultIsHonest
<1>1. PublicationInv => ResultIsHonest  BY DEF PublicationInv
<1> QED BY <1>1, PublicationInvHolds, PTL

\* Under the repository lock, no attempt holds its lease under a second token.
THEOREM TokensAreKept == Spec => []OneTokenPerAttempt
<1>1. PublicationInv => OneTokenPerAttempt
  BY DEF PublicationInv, RowsNameTheirToken, OneTokenPerAttempt
<1> QED BY <1>1, PublicationInvHolds, PTL

-----------------------------------------------------------------------------
(* Publication implements CommitLineage.                                    *)

\* Only PlaceCommit adds a commit, and it adds the one it signed.
LEMMA CommitsChange ==
  ASSUME PublicationInv, [Next]_vars
  PROVE  \/ commits' = commits
         \/ \E a \in Attempt : /\ Continues(a)
                               /\ commits' = commits \cup {CommitOf(a)}
<1>1. ASSUME NEW a \in Attempt, Advance(a) \/ Renew(a), ~PlaceCommit(a)
      PROVE  commits' = commits
  BY <1>1
  DEF Advance, LockMutex, AcquireLock, AbandonLock, AcquireLease, RefuseLease, Renew,
      ListCommits, CheckBefore, CheckAfter, PlacePrepared, Observe, ReleaseLease, Unlock
<1>2. ASSUME NEW a \in Attempt, PlaceCommit(a)
      PROVE  commits' = commits \/ (Continues(a) /\ commits' = commits \cup {CommitOf(a)})
  BY <1>2 DEF PlaceCommit, PublicationInv, RecordsContinue, Signing
<1>3. CASE (\E c \in Catalog : LeaseLapses(c)) \/ (\E p \in Process : Kill(p))
  BY <1>3 DEF LeaseLapses, Kill
<1>4. CASE UNCHANGED vars
  BY <1>4 DEF vars
<1> QED BY <1>1, <1>2, <1>3, <1>4 DEF Next

Heights == {c.gen : c \in commits}

\* Each commit is the entry of its generation.
LEMMA EntryIsCommit ==
  ASSUME LineageReadable, NEW c \in commits
  PROVE  Entry(c.gen) = c /\ Line[c.gen] = [plan |-> c.plan, fence |-> c.fence]
<1>1. Entry(c.gen) = c
  BY DEF Entry, LineageReadable, Readable
<1>2. c.gen \in Heights
  BY DEF Heights
<1> QED BY <1>1, <1>2 DEF Line, Heights

\* The same after a step.
LEMMA EntryIsCommitNext ==
  ASSUME LineageReadable', NEW c \in commits'
  PROVE  Line'[c.gen] = [plan |-> c.plan, fence |-> c.fence]
<1>1. (CHOOSE d \in commits' : d.gen = c.gen) = c
  BY DEF LineageReadable, Readable
<1>2. c.gen \in {d.gen : d \in commits'}
  OBVIOUS
<1> QED BY <1>1, <1>2 DEF Line, Entry

\* One commit above the last is one Append.
LEMMA CommitIsAppend ==
  ASSUME PublicationInv, NEW a \in Attempt, Continues(a),
         NEW n, n = CommitOf(a), commits' = commits \cup {n}, commits' \in SUBSET Commit
  PROVE  L!Append
<1>1. LineageReadable /\ LineageReadable' /\ commits \in SUBSET Commit
  BY CommitExtendsLine DEF PublicationInv, TypeOK
<1>2. /\ n \in Commit /\ n.plan = PlanOf[a] /\ n.gen = record[a].gen
      /\ n.fence = record[a].fence
  BY DEF CommitOf
<1>3. DOMAIN Line = Heights /\ DOMAIN Line' = Heights'
  BY DEF Line, Heights
<1>4. Heights' = Heights \cup {n.gen}
  BY DEF Heights
<1>5. \A c \in commits :
        /\ Line[c.gen] = [plan |-> c.plan, fence |-> c.fence]
        /\ Line'[c.gen] = [plan |-> c.plan, fence |-> c.fence]
  <2>1. ASSUME NEW c \in commits PROVE Line[c.gen] = [plan |-> c.plan, fence |-> c.fence]
    BY <1>1, EntryIsCommit
  <2>2. ASSUME NEW c \in commits PROVE Line'[c.gen] = [plan |-> c.plan, fence |-> c.fence]
    <3>1. c \in commits'
      OBVIOUS
    <3> QED BY <1>1, <3>1, EntryIsCommitNext
  <2> QED BY <2>1, <2>2
<1>6. Line'[n.gen] = [plan |-> n.plan, fence |-> n.fence]
  <2>1. n \in commits'
    OBVIOUS
  <2> QED BY <1>1, <2>1, EntryIsCommitNext
<1>7. /\ \A c \in commits : /\ Line'[c.gen] = Line[c.gen]
                             /\ Line[c.gen].plan = c.plan
                             /\ Line[c.gen].fence = c.fence
       /\ Line'[n.gen].plan = n.plan /\ Line'[n.gen].fence = n.fence
  <2>1. ASSUME NEW e, NEW p, NEW f, e = [plan |-> p, fence |-> f]
        PROVE  e.plan = p /\ e.fence = f
    BY <2>1
  <2>2. ASSUME NEW c \in commits
        PROVE  /\ Line'[c.gen] = Line[c.gen]
               /\ Line[c.gen].plan = c.plan /\ Line[c.gen].fence = c.fence
    <3>1. Line[c.gen] = [plan |-> c.plan, fence |-> c.fence]
      BY <1>5
    <3>2. Line'[c.gen] = [plan |-> c.plan, fence |-> c.fence]
      BY <1>5
    <3> QED BY <3>1, <3>2, <2>1
  <2>3. Line'[n.gen].plan = n.plan /\ Line'[n.gen].fence = n.fence
    BY <1>6, <2>1
  <2> QED BY <2>2, <2>3, Zenon
<1>8. n.fence \in Nat \ {0}
  BY <1>1, <1>2 DEF LineageReadable, Readable, Commit
<1>9. Line'[n.gen] \in L!Entry
  BY <1>2, <1>6, <1>8 DEF L!Entry, Commit
<1>10. \A c \in commits : Line[c.gen].plan # Line'[n.gen].plan
  <2>1. \A c \in commits : c.plan # n.plan
    BY <1>2 DEF Continues, PlanCommitted
  <2> QED BY <1>7, <2>1
<1>11. \A g \in Heights : Line'[g] = Line[g] /\ Line[g].plan # Line'[n.gen].plan
  BY <1>10, <1>7, Zenon DEF Heights
<1>12. CASE commits = {}
  <2>1. Heights = 1..0 /\ n.gen = 0 + 1 /\ Heights' = 1..(0 + 1)
    BY <1>2, <1>4, <1>12 DEF Continues, Heights
  <2> QED BY <1>3, <1>9, <1>11, <2>1 DEF L!Append
<1>13. CASE commits # {}
  <2>1. PICK l \in commits : Last(l)
    BY <1>13 DEF PublicationInv, LineHasEnd
  <2>2. /\ l \in Commit /\ l.gen \in Nat /\ l.gen \in Heights /\ Heights = 1..l.gen
        /\ n.gen = l.gen + 1 /\ n.fence > l.fence
    BY <1>1, <1>2, <2>1 DEF Last, Continues, Heights, Commit
  <2>3. Heights' = 1..(l.gen + 1)
    BY <1>4, <2>2
  <2>4. Line'[n.gen].fence > Line[l.gen].fence
    <3>1. l \in commits
      BY <2>1 DEF Last
    <3> QED BY <1>7, <2>2, <3>1
  <2> QED BY <1>3, <1>9, <1>11, <2>2, <2>3, <2>4 DEF L!Append
<1> QED BY <1>12, <1>13

\* Initial states map to initial states.
LEMMA LineageInit == Init => L!Init
  BY DEF Init, L!Init, Line

\* Every step maps to an Append, or leaves the line as it is.
LEMMA LineageStep == PublicationInv /\ [Next]_vars => [L!Next]_Line
<1> SUFFICES ASSUME PublicationInv, [Next]_vars PROVE L!Next \/ UNCHANGED Line
  OBVIOUS
<1>1. CASE commits' = commits
  BY <1>1 DEF Line, Entry
<1>2. ASSUME NEW a \in Attempt, Continues(a), commits' = commits \cup {CommitOf(a)}
      PROVE  L!Next
  BY <1>2, CommitIsAppend, PublicationInvStep DEF L!Next, PublicationInv, TypeOK
<1> QED BY <1>1, <1>2, CommitsChange

\* Publication extends one line of commits and never rewrites it, in every
\* interleaving of attempts, lost answers, lapsed leases and kills.
THEOREM LineageRefinement == Spec => ImplementsLineage
  BY LineageInit, LineageStep, PublicationInvHolds, PTL
  DEF Spec, ImplementsLineage, L!Spec
-----------------------------------------------------------------------------
(* PublicationFence: the lease row of one domain, with its clocks.           *)

(* The invariant behind every property below.                               *)

\* A clock reading is never in the future.
ClocksPast == \A a \in Attempt : clk[a] <= now /\ kclk[a] <= now

\* No token beyond the row's has been handed out, and none twice.
TokensGranted ==
  /\ TokensDistinct
  /\ \A a \in Attempt : tok[a] <= row.fence

\* A row never written is closed and names nobody.
UnwrittenRow == row.fence = 0 => row.until = 0 /\ row.holder = NoAttempt

\* An attempt is unknown to the row, and has no keepalive, until it acquires.
Unacquired(a) == main[a] \in {"idle", "acquiring", "refused"}
FreshUntilAcquired ==
  \A a \in Attempt : Unacquired(a) => row.holder # a /\ kpc[a] = "off"

\* Once stopKeepalive has returned, no renewal is in flight.
StoppedStaysStopped ==
  \A a \in Attempt :
    main[a] \in {"releasing", "released", "unreleased"} => kpc[a] \in {"off", "failed"}

LeaseInv ==
  /\ LeaseTypeOK
  /\ ClocksPast
  /\ TokensGranted
  /\ UnwrittenRow
  /\ FreshUntilAcquired
  /\ StoppedStaysStopped
  /\ ReleasedStaysClosed

-----------------------------------------------------------------------------
\* What a successful acquisition at time t makes of the row: either the
\* holder stays and so does the token, or the window was closed at t and the
\* token is new.
LEMMA AcquiredRowIs ==
  ASSUME LeaseTypeOK, NEW a \in Attempt, NEW t \in Nat, Acquirable(a, t)
  PROVE  /\ AcquiredRow(a, t) \in [fence: Nat, holder: Attempt \cup {NoAttempt}, until: Nat]
         /\ AcquiredRow(a, t).holder = a
         /\ AcquiredRow(a, t).until = t + TTL
         /\ AcquiredRow(a, t).fence > 0
         /\ \/ row.holder = a /\ AcquiredRow(a, t).fence = row.fence
            \/ /\ row.fence = 0 \/ row.until <= t
               /\ AcquiredRow(a, t).fence = row.fence + 1
  BY TTLAssumption DEF LeaseTypeOK, Acquirable, AcquiredRow, MayRenew, MayInsert, MayTakeOver

\* The initial states satisfy the invariant.
LEMMA LeaseInvInit == LeaseInit => LeaseInv
  BY NoAttemptAssumption
  DEF LeaseInit, LeaseInv, LeaseTypeOK, ClocksPast, TokensGranted, TokensDistinct, UnwrittenRow,
      FreshUntilAcquired, Unacquired, StoppedStaysStopped, ReleasedStaysClosed,
      MainState, KeepState

\* Every step preserves it.
LEMMA LeaseInvStep == LeaseInv /\ [LeaseNext]_leaseVars => LeaseInv'
<1> SUFFICES ASSUME LeaseInv, [LeaseNext]_leaseVars PROVE LeaseInv'
  OBVIOUS
<1> USE DEF LeaseInv
<1>1. CASE Tick
  BY <1>1, MaxTimeAssumption
  DEF Tick, LeaseTypeOK, ClocksPast, TokensGranted, TokensDistinct, UnwrittenRow,
      FreshUntilAcquired, Unacquired, StoppedStaysStopped, ReleasedStaysClosed
<1>2. ASSUME NEW a \in Attempt, BeginAcquire(a) \/ Refuse(a) \/ BeginValidate(a)
                                 \/ Validate(a) \/ Place(a) \/ BeginRelease(a)
      PROVE  LeaseInv'
  BY <1>2
  DEF BeginAcquire, Refuse, BeginValidate, Validate, Place, BeginRelease,
      LeaseTypeOK, MainState, ClocksPast, TokensGranted, TokensDistinct, UnwrittenRow,
      FreshUntilAcquired, Unacquired, StoppedStaysStopped, ReleasedStaysClosed
<1>3. ASSUME NEW a \in Attempt, Acquire(a) PROVE LeaseInv'
  <2>1. /\ clk[a] \in Nat /\ Acquirable(a, clk[a])
        /\ row.holder # a
        /\ row' = AcquiredRow(a, clk[a])
    BY <1>3 DEF Acquire, LeaseTypeOK, FreshUntilAcquired, Unacquired
  <2>2. /\ row' \in [fence: Nat, holder: Attempt \cup {NoAttempt}, until: Nat]
        /\ row'.holder = a /\ row'.fence = row.fence + 1
    BY <2>1, AcquiredRowIs
  <2>3. LeaseTypeOK'
    BY <1>3, <2>2 DEF Acquire, LeaseTypeOK, MainState, KeepState
  <2>4. ClocksPast'
    BY <1>3 DEF Acquire, ClocksPast
  <2>5. TokensGranted'
    BY <1>3, <2>2 DEF Acquire, TokensGranted, TokensDistinct, LeaseTypeOK
  <2>6. UnwrittenRow'
    BY <2>2 DEF UnwrittenRow, LeaseTypeOK
  <2>7. FreshUntilAcquired' /\ StoppedStaysStopped' /\ ReleasedStaysClosed'
    BY <1>3, <2>2
    DEF Acquire, FreshUntilAcquired, Unacquired, StoppedStaysStopped,
        ReleasedStaysClosed, LeaseTypeOK
  <2> QED BY <2>3, <2>4, <2>5, <2>6, <2>7
<1>4. ASSUME NEW a \in Attempt, StopRenewing(a) PROVE LeaseInv'
  BY <1>4
  DEF StopRenewing, KeepaliveStopped, LeaseTypeOK, MainState, KeepState, ClocksPast,
      TokensGranted, TokensDistinct, UnwrittenRow, FreshUntilAcquired, Unacquired,
      StoppedStaysStopped, ReleasedStaysClosed
<1>5. ASSUME NEW a \in Attempt, Release(a) PROVE LeaseInv'
  BY <1>5
  DEF Release, ReleasedRow, ExactHold, LeaseTypeOK, MainState, ClocksPast,
      TokensGranted, TokensDistinct, UnwrittenRow, FreshUntilAcquired, Unacquired,
      StoppedStaysStopped, ReleasedStaysClosed
<1>6. ASSUME NEW a \in Attempt, BeginRenew(a) \/ CancelRenew(a) PROVE LeaseInv'
  BY <1>6
  DEF BeginRenew, CancelRenew, LeaseTypeOK, KeepState, ClocksPast, TokensGranted,
      TokensDistinct, UnwrittenRow, FreshUntilAcquired, Unacquired,
      StoppedStaysStopped, ReleasedStaysClosed
<1>7. ASSUME NEW a \in Attempt, RenewFence(a) PROVE LeaseInv'
  <2>1. CASE ~Acquirable(a, kclk[a])
    BY <1>7, <2>1
    DEF RenewFence, LeaseTypeOK, KeepState, ClocksPast, TokensGranted, TokensDistinct,
        UnwrittenRow, FreshUntilAcquired, Unacquired, StoppedStaysStopped,
        ReleasedStaysClosed
  <2>2. CASE Acquirable(a, kclk[a])
    <3>1. /\ kclk[a] \in Nat
          /\ row' = AcquiredRow(a, kclk[a])
          /\ kpc[a] = "renewing" /\ ~Unacquired(a)
      BY <1>7, <2>2 DEF RenewFence, LeaseTypeOK, FreshUntilAcquired
    <3>2. /\ row' \in [fence: Nat, holder: Attempt \cup {NoAttempt}, until: Nat]
          /\ row'.holder = a /\ row'.fence >= row.fence /\ row'.fence > 0
      BY <2>2, <3>1, AcquiredRowIs DEF LeaseTypeOK
    <3>3. LeaseTypeOK'
      BY <1>7, <2>2, <3>2 DEF RenewFence, LeaseTypeOK, KeepState
    <3>4. ClocksPast' /\ TokensGranted' /\ UnwrittenRow'
      BY <1>7, <3>2
      DEF RenewFence, ClocksPast, TokensGranted, TokensDistinct, UnwrittenRow, LeaseTypeOK
    <3>5. FreshUntilAcquired' /\ StoppedStaysStopped' /\ ReleasedStaysClosed'
      BY <1>7, <2>2, <3>1, <3>2
      DEF RenewFence, FreshUntilAcquired, Unacquired, StoppedStaysStopped,
          ReleasedStaysClosed, LeaseTypeOK
    <3> QED BY <3>3, <3>4, <3>5
  <2> QED BY <2>1, <2>2
<1>8. CASE UNCHANGED leaseVars
  BY <1>8
  DEF leaseVars, LeaseTypeOK, ClocksPast, TokensGranted, TokensDistinct, UnwrittenRow,
      FreshUntilAcquired, Unacquired, StoppedStaysStopped, ReleasedStaysClosed
<1> QED
  BY <1>1, <1>2, <1>3, <1>4, <1>5, <1>6, <1>7, <1>8 DEF LeaseNext, AttemptStep

\* The invariant holds throughout.
LEMMA LeaseInvHolds == LeaseSpec => []LeaseInv
  BY LeaseInvInit, LeaseInvStep, PTL DEF LeaseSpec

-----------------------------------------------------------------------------
\* Every variable keeps its type.
THEOREM LeaseTypes == LeaseSpec => []LeaseTypeOK
<1>1. LeaseInv => LeaseTypeOK  BY DEF LeaseInv
<1> QED BY <1>1, LeaseInvHolds, PTL

\* No two attempts are ever granted the same fencing token.
THEOREM TokensAreDistinct == LeaseSpec => []TokensDistinct
<1>1. LeaseInv => TokensDistinct  BY DEF LeaseInv, TokensGranted
<1> QED BY <1>1, LeaseInvHolds, PTL

\* The window an attempt released is never reopened by its own keepalive.
THEOREM ReleaseIsFinal == LeaseSpec => []ReleasedStaysClosed
<1>1. LeaseInv => ReleasedStaysClosed  BY DEF LeaseInv
<1> QED BY <1>1, LeaseInvHolds, PTL

\* A step of any kind changes the row in one of these ways only.
LEMMA RowChanges ==
  ASSUME LeaseInv, [LeaseNext]_leaseVars
  PROVE  \/ row' = row
         \/ \E a \in Attempt : /\ row.holder = a /\ row'.holder = a
                               /\ row'.fence = row.fence
         \/ \E a \in Attempt : /\ row.until <= now /\ row'.holder = a
                               /\ row'.fence = row.fence + 1
<1> USE DEF LeaseInv
<1>1. ASSUME NEW a \in Attempt, NEW t \in Nat, t <= now, Acquirable(a, t),
             row' = AcquiredRow(a, t)
      PROVE  \/ row.holder = a /\ row'.holder = a /\ row'.fence = row.fence
             \/ row.until <= now /\ row'.holder = a /\ row'.fence = row.fence + 1
  BY <1>1, AcquiredRowIs DEF UnwrittenRow, LeaseTypeOK
<1>2. ASSUME NEW a \in Attempt, Acquire(a)
      PROVE  clk[a] \in Nat /\ clk[a] <= now /\ Acquirable(a, clk[a])
             /\ row' = AcquiredRow(a, clk[a])
  BY <1>2 DEF Acquire, LeaseTypeOK, ClocksPast
<1>3. ASSUME NEW a \in Attempt, RenewFence(a), row' # row
      PROVE  kclk[a] \in Nat /\ kclk[a] <= now /\ Acquirable(a, kclk[a])
             /\ row' = AcquiredRow(a, kclk[a])
  BY <1>3 DEF RenewFence, LeaseTypeOK, ClocksPast
<1>4. ASSUME NEW a \in Attempt, Release(a), row' # row
      PROVE  row.holder = a /\ row'.holder = a /\ row'.fence = row.fence
  BY <1>4 DEF Release, ReleasedRow, ExactHold, LeaseTypeOK
<1>5. ASSUME row' # row
      PROVE  \E a \in Attempt : Acquire(a) \/ RenewFence(a) \/ Release(a)
  BY <1>5
  DEF LeaseNext, AttemptStep, leaseVars, Tick, BeginAcquire, Refuse, BeginValidate, Validate,
      Place, BeginRelease, StopRenewing, BeginRenew, CancelRenew
<1> QED
  BY <1>1, <1>2, <1>3, <1>4, <1>5

\* The domain changes hands only once the previous window is over, although
\* the deciding clock was read before the transaction.
THEOREM TakeoversWait == LeaseSpec => NoEarlyTakeover
<1>1. LeaseInv /\ [LeaseNext]_leaseVars => [row'.holder # row.holder => row.until <= now]_leaseVars
  BY RowChanges
<1> QED BY <1>1, LeaseInvHolds, PTL DEF LeaseSpec, NoEarlyTakeover

\* Fencing tokens never decrease, and each names one holder.
THEOREM TokensOnlyGrow == LeaseSpec => TokensMonotone
<1>1. LeaseInv /\ [LeaseNext]_leaseVars =>
        [/\ row'.fence >= row.fence
         /\ row'.fence = row.fence => row'.holder = row.holder]_leaseVars
  BY RowChanges DEF LeaseInv, LeaseTypeOK
<1> QED BY <1>1, LeaseInvHolds, PTL DEF LeaseSpec, TokensMonotone

-----------------------------------------------------------------------------
(* The lease implements Fence.                                              *)

Barred == [token |-> row.fence, holder |-> row.holder, live |-> row.until > now]
Gone == {a \in Attempt : main[a] = "released"}

\* What closing a window leaves.
LEMMA LapsedIs ==
  ASSUME NEW r \in F!FenceRows, NEW q \in F!FenceRows,
         q.token = r.token, q.holder = r.holder, q.live = FALSE
  PROVE  q = F!Lapsed(r)
<1>1. F!Lapsed(r) \in F!FenceRows
  BY DEF F!Lapsed, F!FenceRows
<1>2. F!Lapsed(r).token = r.token
  BY DEF F!Lapsed, F!FenceRows
<1>3. F!Lapsed(r).holder = r.holder
  BY DEF F!Lapsed, F!FenceRows
<1>4. F!Lapsed(r).live = FALSE
  BY DEF F!Lapsed, F!FenceRows
<1>5. q.live = F!Lapsed(r).live
  BY <1>4
<1>6. ASSUME NEW s \in F!FenceRows,
             q.token = s.token, q.holder = s.holder, q.live = s.live
      PROVE  q = s
  BY <1>6 DEF F!FenceRows
<1> QED BY <1>1, <1>2, <1>3, <1>5, <1>6

\* The row, as Fence sees it, is a row of Fence, before and after a step.
LEMMA BarredType ==
  ASSUME LeaseInv, [LeaseNext]_leaseVars
  PROVE  Barred \in F!FenceRows /\ Barred' \in F!FenceRows
<1>1. (row.until > now) \in BOOLEAN /\ (row.until > now)' \in BOOLEAN
  OBVIOUS
<1>2. LeaseTypeOK /\ LeaseTypeOK'
  BY LeaseInvStep DEF LeaseInv
<1> QED BY <1>1, <1>2 DEF LeaseTypeOK, Barred, F!FenceRows

\* An acquisition, first or renewal, is a grant or an extension there.
LEMMA AcquiringIsAbstract ==
  ASSUME LeaseInv, NEW a \in Attempt, a \notin Gone, NEW t \in Nat, t <= now,
         Acquirable(a, t), row' = AcquiredRow(a, t), now' = now, Gone' = Gone
  PROVE  F!Next
<1>1. /\ row' \in [fence: Nat, holder: Attempt \cup {NoAttempt}, until: Nat]
      /\ row'.holder = a
      /\ \/ row.holder = a /\ row'.fence = row.fence
         \/ row.until <= now /\ row'.fence = row.fence + 1
  BY AcquiredRowIs DEF LeaseInv, LeaseTypeOK, UnwrittenRow
<1> DEFINE l == row'.until > now
<1>2. l \in BOOLEAN /\ Barred'.live = l
  BY DEF Barred
<1>3. CASE row.holder = a /\ row'.fence = row.fence
  <2>1. F!Extend(a, l)
    BY <1>1, <1>3 DEF F!Extend, F!Extended, Gone
  <2> QED BY <1>2, <2>1 DEF F!Next
<1>4. CASE row.until <= now /\ row'.fence = row.fence + 1
  <2>1. ~(row.until > now)
    BY <1>4 DEF LeaseInv, LeaseTypeOK
  <2>2. F!Grant(a, l)
    BY <1>1, <1>4, <2>1 DEF F!Grant, F!Granted, Gone
  <2> QED BY <1>2, <2>2 DEF F!Next
<1> QED BY <1>1, <1>3, <1>4

\* Initial states map to initial states.
LEMMA FenceInit == LeaseInit => F!Init
<1> SUFFICES ASSUME LeaseInit PROVE F!Init
  OBVIOUS
<1>1. Gone = {}
  BY DEF LeaseInit, Gone
<1>2. Barred = F!NoRow
  <2>1. (row.until > now) = FALSE
    BY DEF LeaseInit
  <2> QED BY <2>1 DEF LeaseInit, Barred, F!NoRow
<1> QED BY <1>1, <1>2 DEF F!Init, Barred, Gone

\* Every step maps to a step of Fence, or to none.
LEMMA FenceStep == LeaseInv /\ [LeaseNext]_leaseVars => [F!Next]_(F!vars)
<1> SUFFICES ASSUME LeaseInv, [LeaseNext]_leaseVars PROVE F!Next \/ UNCHANGED F!vars
  OBVIOUS
<1>1. CASE Tick
  <2>1. Gone' = Gone /\ row' = row
    BY <1>1 DEF Tick, Gone
  <2>2. CASE row.until > now /\ ~(row.until > now')
    <3>1. (row.until > now)' = FALSE
      BY <2>1, <2>2
    <3>2. Barred' = F!Lapsed(Barred)
      <4>1. Barred \in F!FenceRows /\ Barred' \in F!FenceRows
        BY BarredType
      <4>2. /\ Barred'.token = Barred.token /\ Barred'.holder = Barred.holder
            /\ Barred'.live = FALSE
        BY <2>1, <3>1 DEF Barred
      <4> QED BY <4>1, <4>2, LapsedIs
    <3>3. F!Lapse
      BY <2>1, <2>2, <3>2 DEF F!Lapse, Gone, Barred
    <3> QED BY <3>3 DEF F!Next
  <2>3. CASE ~(row.until > now /\ ~(row.until > now'))
    <3>1. (row.until > now') = (row.until > now)
      BY <1>1, <2>3 DEF Tick, LeaseInv, LeaseTypeOK
    <3> QED BY <2>1, <3>1 DEF F!vars, Gone
  <2> QED BY <2>2, <2>3
<1>2. ASSUME NEW a \in Attempt, Acquire(a) PROVE F!Next
  <2>1. /\ clk[a] \in Nat /\ clk[a] <= now /\ a \notin Gone
        /\ Acquirable(a, clk[a]) /\ row' = AcquiredRow(a, clk[a])
        /\ now' = now
    BY <1>2 DEF Acquire, LeaseInv, LeaseTypeOK, ClocksPast, Gone
  <2>2. Gone' = Gone
    BY <1>2 DEF Acquire, Gone, LeaseInv, LeaseTypeOK
  <2> QED BY <2>1, <2>2, AcquiringIsAbstract
<1>3. ASSUME NEW a \in Attempt, RenewFence(a) PROVE F!Next \/ UNCHANGED F!vars
  <2>1. /\ kclk[a] \in Nat /\ kclk[a] <= now /\ a \notin Gone
        /\ now' = now /\ Gone' = Gone
    BY <1>3 DEF RenewFence, LeaseInv, LeaseTypeOK, ClocksPast, Gone, StoppedStaysStopped
  <2>2. CASE Acquirable(a, kclk[a])
    <3>1. row' = AcquiredRow(a, kclk[a])
      BY <1>3, <2>2 DEF RenewFence
    <3> QED BY <2>1, <2>2, <3>1, AcquiringIsAbstract
  <2>3. CASE ~Acquirable(a, kclk[a])
    BY <1>3, <2>1, <2>3 DEF RenewFence, F!vars, Gone
  <2> QED BY <2>2, <2>3
<1>4. ASSUME NEW a \in Attempt, Release(a) PROVE F!Next \/ UNCHANGED F!vars
  <2>1. CASE ExactHold(a, clk[a])
    <3>1. /\ row' = ReleasedRow(clk[a]) /\ row.holder = a /\ now' = now
          /\ ~(row'.until > now)
      BY <1>4, <2>1 DEF Release, ReleasedRow, ExactHold, LeaseInv, LeaseTypeOK, ClocksPast
    <3>2. Gone' = Gone \cup {a}
      BY <1>4, <2>1 DEF Release, Gone, LeaseInv, LeaseTypeOK
    <3>3. row'.fence = row.fence /\ row'.holder = row.holder
      BY <3>1 DEF ReleasedRow, LeaseInv, LeaseTypeOK
    <3>4. (row.until > now)' = FALSE
      BY <3>1
    <3>5. Barred' = F!Lapsed(Barred)
      <4>1. Barred \in F!FenceRows /\ Barred' \in F!FenceRows
        BY BarredType
      <4>2. /\ Barred'.token = Barred.token /\ Barred'.holder = Barred.holder
            /\ Barred'.live = FALSE
        BY <3>3, <3>4 DEF Barred
      <4> QED BY <4>1, <4>2, LapsedIs
    <3>6. F!Release(a)
      BY <3>1, <3>2, <3>5 DEF F!Release, Gone, Barred
    <3> QED BY <3>6 DEF F!Next
  <2>2. CASE ~ExactHold(a, clk[a])
    BY <1>4, <2>2 DEF Release, F!vars, LeaseInv, LeaseTypeOK
  <2> QED BY <2>1, <2>2
<1>5. CASE UNCHANGED leaseVars
  BY <1>5 DEF leaseVars, F!vars
<1>6. ASSUME NEW a \in Attempt, AttemptStep(a), ~Acquire(a), ~RenewFence(a), ~Release(a)
      PROVE  UNCHANGED F!vars
  <2>1. row' = row /\ now' = now
    BY <1>6
    DEF AttemptStep, BeginAcquire, Refuse, BeginValidate, Validate, Place,
        BeginRelease, StopRenewing, BeginRenew, CancelRenew
  <2>2. Gone' = Gone
    BY <1>6
    DEF Gone, LeaseInv, LeaseTypeOK, AttemptStep, BeginAcquire, Refuse, BeginValidate,
        Validate, Place, BeginRelease, StopRenewing, BeginRenew, CancelRenew
  <2> QED BY <2>1, <2>2 DEF F!vars, Gone
<1> QED
  BY <1>1, <1>2, <1>3, <1>4, <1>5, <1>6 DEF LeaseNext

\* The clocked lease, with its keepalives and stale readings, implements the
\* lease without clocks.
THEOREM FenceRefinement == LeaseSpec => ImplementsFence
  BY FenceInit, FenceStep, LeaseInvHolds, PTL DEF LeaseSpec, ImplementsFence, F!Spec
=============================================================================

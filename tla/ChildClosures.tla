---------------------------- MODULE ChildClosures ----------------------------
(***************************************************************************)
(* The signed children of one publication commit.  Processor runs leave     *)
(* terminal attempt rows in the catalog, each when its run ends but         *)
(* ordered by the time it started; publishProcessorAttemptClosure signs the *)
(* rows, publishPortableFactClosure signs the catalog's facts with the      *)
(* artifacts of the admitted rows and binds them to an attempt closure.     *)
(* Both run under the repository's lock (module Publication shows it to     *)
(* exclude), may be killed, and may lose the answer of their placement.     *)
(*                                                                         *)
(* A subject has one routed processor.  CANCELLED rows are FAILED here, and *)
(* a fact bundle is what it says of processor artifacts: the rest of the    *)
(* catalog's facts does not change.                                         *)
(***************************************************************************)
EXTENDS Naturals

CONSTANTS
  Subject,     \* subjects with a processor route
  Publisher,   \* goroutines that publish children of the commit
  None,        \* no publisher
  MaxRuns      \* bound on processor runs

ASSUME NoneAssumption == None \notin Publisher
ASSUME MaxRunsAssumption == MaxRuns \in Nat

VARIABLES
  clock,      \* processor runs started: the created_at of the last
  running,    \* runs that have not left a row yet
  rows,       \* processor_attempts, and the artifact of every SUCCEEDED one
  attempts,   \* durable processor-attempt closures of the commit
  facts,      \* its durable portable-fact closures
  lock,       \* the publisher that holds the repository's lock
  phase,      \* where each publisher is
  draft       \* the closure it is about to sign

vars == <<clock, running, rows, attempts, facts, lock, phase, draft>>
catalog == <<clock, running, rows>>
closures == <<attempts, facts>>
publishing == <<lock, phase, draft>>

Maybe == Publisher \cup {None}
Run == [subject: Subject, start: Nat]
Row == [subject: Subject, start: Nat, status: {"SUCCEEDED", "FAILED"}]

\* A closure's digest is its place in the sequence and who signed it.
Closure == [seq: Nat, by: Publisher, pred: Maybe, rows: SUBSET Row, bound: Nat]

NoDraft == [seq |-> 0, by |-> None, pred |-> None, rows |-> {}, bound |-> 0]

TypeOK ==
  /\ clock \in 0..MaxRuns
  /\ running \subseteq Run
  /\ rows \subseteq Row
  /\ attempts \subseteq Closure
  /\ facts \subseteq Closure
  /\ lock \in Maybe
  /\ phase \in [Publisher -> {"idle", "attempts", "sign", "facts", "bind", "place"}]
  /\ draft \in [Publisher -> Closure \cup {NoDraft}]

Init ==
  /\ clock = 0 /\ running = {} /\ rows = {}
  /\ attempts = {} /\ facts = {}
  /\ lock = None
  /\ phase = [p \in Publisher |-> "idle"]
  /\ draft = [p \in Publisher |-> NoDraft]

-----------------------------------------------------------------------------
(* Chains of closures.                                                      *)

\* Mutant: a successor may say anything.
AnySuccessor(old, new) == old # new

\* validateProcessorAttemptBundleSuccessor: bundles list their rows by start
\* time, and the later one begins with the whole of the earlier one.
Extends(old, new) ==
  /\ old \subseteq new /\ old # new
  /\ \A r \in old, n \in new \ old : r.start < n.start

Chained(C) ==
  /\ \A c, d \in C : c.seq = d.seq => c = d
  /\ \A c \in C :
       /\ c.seq > 0
       /\ c.seq = 1 => c.pred = None
       /\ c.seq > 1 => \E p \in C : c.seq = p.seq + 1 /\ c.pred = p.by

\* validateProcessorAttemptClosureLineage
AttemptsRead(A) ==
  /\ Chained(A)
  /\ \A c, d \in A : d.seq = c.seq + 1 => Extends(c.rows, d.rows)

Admitted(R) == {r \in R : r.status = "SUCCEEDED"}

\* validateProcessorAttachmentChild: the artifacts of the bundle are exactly
\* those of the attempt closure it is bound to.
BoundTo(A, f) ==
  IF f.bound = 0 THEN f.rows = {}
  ELSE \E c \in A : c.seq = f.bound /\ f.rows = Admitted(c.rows)

\* listPortableFactClosures
FactsRead(A, F) == Chained(F) /\ \A f \in F : BoundTo(A, f)

Last(C) == CHOOSE c \in C : \A d \in C : d.seq <= c.seq

\* The closure that p would put on top of the chain C.
Next1(C, p, R) ==
  [seq |-> IF C = {} THEN 1 ELSE Last(C).seq + 1,
   by |-> p,
   pred |-> IF C = {} THEN None ELSE Last(C).by,
   rows |-> R, bound |-> 0]

-----------------------------------------------------------------------------
(* Processor runs (processor/host.go admitNode, pool.go).                   *)

\* startedAt is read before the processor runs.
StartRun(s) ==
  /\ clock < MaxRuns
  /\ clock' = clock + 1
  /\ running' = running \cup {[subject |-> s, start |-> clock + 1]}
  /\ UNCHANGED <<rows, closures, publishing>>

\* Mutant: a row is left by a run that has not ended.
UnsettledRow(r, status) == [subject |-> r.subject, start |-> r.start,
                            status |-> "RUNNING"]

RowOf(r, status) ==
  [subject |-> r.subject, start |-> r.start, status |-> status]

\* The run ends and its row is inserted, with the artifact of a success; the
\* catalog admits one artifact of a subject.  The pool may have given up on
\* the run long ago.
FinishRun(r, status) ==
  /\ r \in running
  /\ status = "SUCCEEDED" => \A o \in Admitted(rows) : o.subject # r.subject
  /\ running' = running \ {r}
  /\ rows' = rows \cup {RowOf(r, status)}
  /\ UNCHANGED <<clock, closures, publishing>>

\* No row comes of it: its process was killed, or the insert was refused.
LoseRuns(R) ==
  /\ R # {} /\ R \subseteq running
  /\ running' = running \ R
  /\ UNCHANGED <<clock, rows, closures, publishing>>

-----------------------------------------------------------------------------
(* Publishing.                                                              *)

Enter(p, ph) == phase' = [phase EXCEPT ![p] = ph]

\* The call returns, with a result, an error or an unknown outcome, and gives
\* the lock up.
Return(p) ==
  /\ Enter(p, "idle")
  /\ draft' = [draft EXCEPT ![p] = NoDraft]
  /\ lock' = IF lock = p THEN None ELSE lock

Sign(p, d, ph) ==
  /\ draft' = [draft EXCEPT ![p] = d]
  /\ lock' = p
  /\ Enter(p, ph)

Call(p, ph) ==
  /\ phase[p] = "idle"
  /\ Enter(p, ph)
  /\ UNCHANGED <<catalog, closures, lock, draft>>

\* acquirePublicationFence, or a read under it, fails.
Refuse(p) ==
  /\ phase[p] \in {"attempts", "facts"}
  /\ Enter(p, "idle")
  /\ UNCHANGED <<catalog, closures, lock, draft>>

\* Mutant: publications do not exclude one another.
NoLock == TRUE

Free == lock = None

\* publishProcessorAttemptClosure up to its placement: ExportProcessorAttempts,
\* the latest closure, and the successor check.
ExportAttempts(p) ==
  /\ phase[p] = "attempts" /\ Free
  /\ LET new == Next1(attempts, p, rows)
         accepted == /\ AttemptsRead(attempts)
                     /\ attempts # {} => Extends(Last(attempts).rows, rows)
     IN IF accepted THEN Sign(p, new, "sign") ELSE Return(p)
  /\ UNCHANGED <<catalog, closures>>

\* The lease is validated, PlaceRecord and VerifyRecord run, and an error
\* after the placement is settled by reading the same object back.
PlaceAttempts(p) ==
  /\ phase[p] = "sign"
  /\ \/ attempts' = attempts \cup {draft[p]} /\ Return(p)
     \/ UNCHANGED attempts /\ Return(p)
  /\ UNCHANGED <<catalog, facts>>

\* publishPortableFactClosure up to its attachments: the bundle built from the
\* catalog, and the existing closures of the commit.
BuildFacts(p) ==
  /\ phase[p] = "facts" /\ Free
  /\ LET new == Next1(facts, p, Admitted(rows))
         accepted == /\ FactsRead(attempts, facts)
                     /\ facts # {} => Last(facts).rows # Admitted(rows)
     IN IF accepted THEN Sign(p, new, "bind") ELSE Return(p)
  /\ UNCHANGED <<catalog, closures>>

\* admittedProcessorAttemptDigest: the catalog is read again, and the newest
\* attempt closure is the one that is named.
BindFacts(p) ==
  /\ phase[p] = "bind"
  /\ LET named == attempts # {} /\ AttemptsRead(attempts)
     IN \/ Admitted(rows) = {} /\ Sign(p, draft[p], "place")
        \/ /\ Admitted(rows) # {} /\ named
           /\ Sign(p, [draft[p] EXCEPT !.bound = Last(attempts).seq], "place")
        \/ Admitted(rows) # {} /\ ~named /\ Return(p)
  /\ UNCHANGED <<catalog, closures>>

PlaceFacts(p) ==
  /\ phase[p] = "place"
  /\ \/ facts' = facts \cup {draft[p]} /\ Return(p)
     \/ UNCHANGED facts /\ Return(p)
  /\ UNCHANGED <<catalog, attempts>>

\* The publisher's process is killed, and the runs R with it.
Stop(p, R) ==
  /\ R \subseteq running
  /\ running' = running \ R
  /\ Enter(p, "idle")
  /\ draft' = [draft EXCEPT ![p] = NoDraft]
  /\ lock' = IF lock = p THEN None ELSE lock
  /\ UNCHANGED <<clock, rows, closures>>

Publish(p) ==
  \/ ExportAttempts(p) \/ PlaceAttempts(p)
  \/ BuildFacts(p) \/ BindFacts(p) \/ PlaceFacts(p)

Next ==
  \/ \E s \in Subject : StartRun(s)
  \/ \E r \in running : \E status \in {"SUCCEEDED", "FAILED"} : FinishRun(r, status)
  \/ \E R \in SUBSET running : LoseRuns(R)
  \/ \E p \in Publisher :
       \/ Call(p, "attempts") \/ Call(p, "facts")
       \/ Refuse(p) \/ Publish(p)
       \/ \E R \in SUBSET running : Stop(p, R)

Spec == Init /\ [][Next]_vars

-----------------------------------------------------------------------------
(* Properties.                                                              *)

\* The attempt closures of a commit are one chain without gaps or forks, and
\* no row that was signed is ever dropped, or preceded by one that was not:
\* whoever signs, whichever answers are lost and however late rows arrive.  A
\* reader refuses every attempt closure of a broken chain.
AttemptLineage ==
  /\ Chained(attempts)
  /\ \A c, d \in attempts :
       c.seq < d.seq =>
         /\ c.rows \subseteq d.rows
         /\ \A r \in c.rows, n \in d.rows \ c.rows : r.start < n.start

\* Fact closures never go back: a later one is bound to no older attempt
\* closure and has every artifact of the earlier ones, and none has artifacts
\* without naming a durable attempt closure.
FactsNeverRegress ==
  /\ Chained(facts)
  /\ \A f \in facts :
       /\ f.rows # {} => f.bound > 0
       /\ f.bound > 0 => \E c \in attempts : c.seq = f.bound
  /\ \A f, g \in facts : f.seq < g.seq => f.bound <= g.bound /\ f.rows \subseteq g.rows

\* processor_attempts.go: "ListProcessorAttempts returns immutable outcomes in
\* completion order", so that what is exported later extends what was signed.
SignedAttemptsStayExtendable ==
  attempts # {} =>
    rows = Last(attempts).rows \/ Extends(Last(attempts).rows, rows)

\* portable_fact_closure.go: what the publisher signs is what
\* validateProcessorAttachmentChild accepts.  One closure that it refuses
\* makes every fact closure of the commit unreadable, and is never replaced.
FactsStayReadable == FactsRead(attempts, facts)
=============================================================================

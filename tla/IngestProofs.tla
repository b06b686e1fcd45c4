---------------------------- MODULE IngestProofs ----------------------------
(***************************************************************************)
(* Proofs about the two models of an ingest that is being applied: the      *)
(* closures signed as children of its commit (ChildClosures), for any       *)
(* subjects and publishers and any number of processor runs, and the job    *)
(* that publishes it (PlanApply), for any requests, attempts and number of  *)
(* disturbances.  No fact of the one is used for the other.                 *)
(***************************************************************************)
EXTENDS ChildClosures, PlanApply, TLAPS

Phases == {"idle", "attempts", "sign", "facts", "bind", "place"}
Inside == {"sign", "bind", "place"}

\* A chain that is not empty has an end.
HasLast(C) == C # {} => \E c \in C : \A d \in C : d.seq <= c.seq

\* The closure d, once placed, is the next of the chain C.
Continues(C, d) ==
  /\ d \in Closure
  /\ d.seq = IF C = {} THEN 1 ELSE Last(C).seq + 1
  /\ d.pred = IF C = {} THEN None ELSE Last(C).by

\* Artifacts are only signed with a durable attempt closure, and one is only
\* named once there are artifacts.
Bound(f) ==
  /\ f.rows # {} => f.bound > 0
  /\ f.bound > 0 => /\ Admitted(rows) # {}
                    /\ \E c \in attempts : c.seq = f.bound

\* Publishers past the lock exclude one another, so that what each has drafted
\* still continues the chain when it is placed.
Excludes(p) == phase[p] \in Inside => lock = p

DraftsAttempts(p) ==
  phase[p] = "sign" =>
    /\ Continues(attempts, draft[p])
    /\ attempts # {} => Extends(Last(attempts).rows, draft[p].rows)

DraftsFacts(p) ==
  /\ phase[p] \in {"bind", "place"} =>
       /\ Continues(facts, draft[p])
       /\ draft[p].rows \subseteq Admitted(rows)
       /\ \A f \in facts : f.rows \subseteq draft[p].rows
  /\ phase[p] = "bind" => draft[p].bound = 0
  /\ phase[p] = "place" =>
       /\ Bound(draft[p])
       /\ \A f \in facts : f.bound <= draft[p].bound

Ok(p) == Excludes(p) /\ DraftsAttempts(p) /\ DraftsFacts(p)

\* Durable facts are of rows that the catalog still has.
FactsAreKnown == \A f \in facts : f.rows \subseteq Admitted(rows) /\ Bound(f)

Chains == HasLast(attempts) /\ HasLast(facts)

IInv ==
  /\ TypeOK
  /\ Chains
  /\ AttemptLineage
  /\ FactsNeverRegress
  /\ FactsAreKnown
  /\ \A p \in Publisher : Ok(p)

-----------------------------------------------------------------------------
(* Chains *)

LEMMA LastIsLast ==
    ASSUME NEW C, C # {}, HasLast(C)
    PROVE  Last(C) \in C /\ \A d \in C : d.seq <= Last(C).seq
  BY DEF HasLast, Last

LEMMA NextIsClosure ==
    ASSUME NEW C \in SUBSET Closure, HasLast(C), NEW p \in Publisher,
           NEW R \in SUBSET Row
    PROVE  /\ Continues(C, Next1(C, p, R))
           /\ Next1(C, p, R).rows = R /\ Next1(C, p, R).bound = 0
<1>1. CASE C = {}
  BY <1>1 DEF Next1, Continues, Closure, Maybe
<1>2. CASE C # {}
  <2>1. Last(C) \in Closure
    BY <1>2, LastIsLast
  <2>2. Last(C).seq + 1 \in Nat /\ Last(C).by \in Maybe
    BY <2>1 DEF Closure, Maybe
  <2> QED  BY <1>2, <2>2 DEF Next1, Continues, Closure, Maybe
<1> QED  BY <1>1, <1>2

LEMMA ChainGrows ==
    ASSUME NEW C \in SUBSET Closure, HasLast(C), Chained(C),
           NEW d, Continues(C, d)
    PROVE  /\ Chained(C \cup {d}) /\ HasLast(C \cup {d})
           /\ \A c \in C : c.seq < d.seq
<1>0. \A c \in C \cup {d} : c.seq \in Nat
  BY DEF Continues, Closure
<1>1. CASE C = {}
  BY <1>0, <1>1 DEF Continues, Chained, HasLast
<1>2. CASE C # {}
  <2> DEFINE e == Last(C)
  <2>1. e \in C /\ \A c \in C : c.seq <= e.seq
    BY <1>2, LastIsLast
  <2>2. d.seq = e.seq + 1 /\ d.pred = e.by
    BY <1>2 DEF Continues
  <2>3. \A c \in C : c.seq < d.seq
    BY <1>0, <2>1, <2>2
  <2>4. HasLast(C \cup {d})
    BY <1>0, <2>3 DEF HasLast
  <2>5. \A a, b \in C \cup {d} : a.seq = b.seq => a = b
    BY <1>0, <2>3 DEF Chained
  <2>6. /\ d.seq > 0 /\ d.seq # 1
        /\ \E p \in C \cup {d} : d.seq = p.seq + 1 /\ d.pred = p.by
    BY <1>0, <2>1, <2>2 DEF Chained
  <2>7. ASSUME NEW c \in C
        PROVE  /\ c.seq > 0
               /\ c.seq = 1 => c.pred = None
               /\ c.seq > 1 => \E p \in C \cup {d} : c.seq = p.seq + 1 /\ c.pred = p.by
    BY DEF Chained
  <2>8. Chained(C \cup {d})
    BY <2>5, <2>6, <2>7 DEF Chained
  <2> QED  BY <2>3, <2>4, <2>8
<1> QED  BY <1>1, <1>2

LEMMA AdmittedRows == Admitted(rows) \subseteq rows
  BY DEF Admitted

-----------------------------------------------------------------------------
(* Types *)

LEMMA ReturnTypes ==
    ASSUME TypeOK, NEW p \in Publisher, Return(p)
    PROVE  /\ phase' \in [Publisher -> Phases] /\ lock' \in Maybe
           /\ draft' \in [Publisher -> Closure \cup {NoDraft}]
           /\ phase'[p] = "idle"
           /\ \A q \in Publisher \ {p} : phase'[q] = phase[q] /\ draft'[q] = draft[q]
           /\ \A q \in Publisher \ {p} : lock = q => lock' = q
  BY DEF Return, Enter, TypeOK, Phases, Maybe

LEMMA SignTypes ==
    ASSUME TypeOK, NEW p \in Publisher, NEW d \in Closure, NEW ph \in Phases,
           Sign(p, d, ph)
    PROVE  /\ phase' \in [Publisher -> Phases] /\ lock' = p /\ lock' \in Maybe
           /\ draft' \in [Publisher -> Closure \cup {NoDraft}]
           /\ phase'[p] = ph /\ draft'[p] = d
           /\ \A q \in Publisher \ {p} : phase'[q] = phase[q] /\ draft'[q] = draft[q]
  BY DEF Sign, Enter, TypeOK, Phases, Maybe

-----------------------------------------------------------------------------
(* Steps that place nothing *)

\* Publishers see no difference when rows are added.
LEMMA OkBeside ==
    ASSUME IInv, NEW q \in Publisher, UNCHANGED closures, rows \subseteq rows',
           phase'[q] = phase[q], draft'[q] = draft[q],
           phase[q] \in Inside => lock' = q
    PROVE  Ok(q)'
<1>1. Admitted(rows) \subseteq Admitted(rows')
  BY DEF Admitted
<1>2. Ok(q)
  BY DEF IInv
<1>3. Excludes(q)' /\ DraftsAttempts(q)'
  BY <1>2 DEF Ok, Excludes, DraftsAttempts, Continues, closures
<1>4. Bound(draft[q]) => Bound(draft[q])'
  BY <1>1 DEF Bound, closures
<1>5. DraftsFacts(q)'
  BY <1>1, <1>2, <1>4 DEF Ok, DraftsFacts, Continues, closures, Bound
<1> QED  BY <1>3, <1>5 DEF Ok

LEMMA ClosuresBeside ==
    ASSUME IInv, UNCHANGED closures, rows \subseteq rows'
    PROVE  (Chains /\ AttemptLineage /\ FactsNeverRegress /\ FactsAreKnown)'
<1>1. Admitted(rows) \subseteq Admitted(rows')
  BY DEF Admitted
<1>2. (Chains /\ AttemptLineage /\ FactsNeverRegress)'
  BY DEF IInv, closures, Chains, AttemptLineage, FactsNeverRegress
<1>3. FactsAreKnown'
  BY <1>1 DEF IInv, closures, FactsAreKnown, Bound
<1> QED  BY <1>2, <1>3

\* Nobody else is inside when p takes or has the lock.
LEMMA Alone ==
    ASSUME IInv, NEW p \in Publisher, Free \/ phase[p] \in Inside
    PROVE  \A q \in Publisher \ {p} : phase[q] \notin Inside
<1> SUFFICES ASSUME NEW q \in Publisher \ {p}, phase[q] \in Inside PROVE FALSE
  OBVIOUS
<1>1. lock = q /\ (phase[p] \in Inside => lock = p)
  BY DEF IInv, Ok, Excludes
<1> QED  BY <1>1, NoneAssumption DEF Free

\* A publisher that leaves, or is outside, has nothing to keep.
LEMMA OkOutside ==
    ASSUME NEW p \in Publisher, phase'[p] \in {"idle", "attempts", "facts"}
    PROVE  Ok(p)'
  BY DEF Ok, Excludes, DraftsAttempts, DraftsFacts, Inside

LEMMA CatalogStep ==
    ASSUME IInv, TypeOK', UNCHANGED <<closures, publishing>>, rows \subseteq rows'
    PROVE  IInv'
<1>1. ASSUME NEW q \in Publisher PROVE Ok(q)'
  <2>1. phase[q] \in Inside => lock' = q
    BY DEF IInv, Ok, Excludes, publishing
  <2> QED  BY <2>1, OkBeside DEF publishing
<1> QED  BY <1>1, ClosuresBeside DEF IInv

LEMMA OutsideStep ==
    ASSUME IInv, TypeOK', NEW p \in Publisher, UNCHANGED <<closures, rows>>,
           phase'[p] \in {"idle", "attempts", "facts"},
           \A q \in Publisher \ {p} : phase'[q] = phase[q] /\ draft'[q] = draft[q],
           \A q \in Publisher \ {p} : lock = q => lock' = q
    PROVE  IInv'
<1>1. ASSUME NEW q \in Publisher PROVE Ok(q)'
  <2>1. CASE q = p
    BY <2>1, OkOutside
  <2>2. CASE q # p
    <3>1. phase[q] \in Inside => lock' = q
      BY <2>2 DEF IInv, Ok, Excludes
    <3> QED  BY <2>2, <3>1, OkBeside
  <2> QED  BY <2>1, <2>2
<1> QED  BY <1>1, ClosuresBeside DEF IInv, closures

LEMMA SignStep ==
    ASSUME IInv, TypeOK', NEW p \in Publisher, UNCHANGED <<closures, rows>>,
           Free \/ phase[p] \in Inside, Ok(p)',
           \A q \in Publisher \ {p} : phase'[q] = phase[q] /\ draft'[q] = draft[q]
    PROVE  IInv'
<1>1. ASSUME NEW q \in Publisher PROVE Ok(q)'
  <2>1. CASE q # p
    <3>1. phase[q] \notin Inside
      BY <2>1, Alone
    <3> QED  BY <2>1, <3>1, OkBeside
  <2> QED  BY <2>1
<1> QED  BY <1>1, ClosuresBeside DEF IInv, closures

-----------------------------------------------------------------------------
(* The catalog *)

LEMMA StartRunStep == ASSUME IInv, NEW s \in Subject, StartRun(s) PROVE IInv'
<1>1. [subject |-> s, start |-> clock + 1] \in Run /\ clock + 1 \in 0..MaxRuns
  BY MaxRunsAssumption DEF StartRun, IInv, TypeOK, Run
<1>2. TypeOK'
  BY <1>1 DEF StartRun, IInv, TypeOK, closures, publishing
<1> QED  BY <1>2, CatalogStep DEF StartRun

LEMMA FinishRunStep ==
    ASSUME IInv, NEW r \in running, NEW status \in {"SUCCEEDED", "FAILED"},
           FinishRun(r, status)
    PROVE  IInv'
<1>1. RowOf(r, status) \in Row
  BY DEF IInv, TypeOK, RowOf, Row, Run
<1>2. TypeOK'
  BY <1>1 DEF FinishRun, IInv, TypeOK, closures, publishing
<1> QED  BY <1>2, CatalogStep DEF FinishRun

LEMMA LoseRunsStep ==
    ASSUME IInv, NEW R \in SUBSET running, LoseRuns(R)
    PROVE  IInv'
<1>1. TypeOK'
  BY DEF LoseRuns, IInv, TypeOK, closures, publishing
<1> QED  BY <1>1, CatalogStep DEF LoseRuns

-----------------------------------------------------------------------------
(* Calls, refusals and kills *)

LEMMA CallStep ==
    ASSUME IInv, NEW p \in Publisher, NEW ph \in {"attempts", "facts"}, Call(p, ph)
    PROVE  IInv'
<1>1. TypeOK' /\ phase'[p] = ph /\ \A q \in Publisher \ {p} : phase'[q] = phase[q]
  BY DEF Call, Enter, IInv, TypeOK, catalog, closures
<1> QED  BY <1>1, OutsideStep DEF Call, catalog

LEMMA RefuseStep == ASSUME IInv, NEW p \in Publisher, Refuse(p) PROVE IInv'
<1>1. TypeOK' /\ phase'[p] = "idle" /\ \A q \in Publisher \ {p} : phase'[q] = phase[q]
  BY DEF Refuse, Enter, IInv, TypeOK, catalog, closures
<1> QED  BY <1>1, OutsideStep DEF Refuse, catalog

LEMMA StopStep ==
    ASSUME IInv, NEW p \in Publisher, NEW R \in SUBSET running, Stop(p, R)
    PROVE  IInv'
<1>1. Return(p)
  BY DEF Stop, Return
<1>2. TypeOK
  BY DEF IInv
<1>3. TypeOK'
  BY <1>1, <1>2, ReturnTypes DEF Stop, TypeOK, Phases, closures
<1> QED  BY <1>1, <1>2, <1>3, ReturnTypes, OutsideStep DEF Stop

LEMMA ReturnStep ==
    ASSUME IInv, NEW p \in Publisher, Return(p), UNCHANGED <<catalog, closures>>
    PROVE  IInv'
<1>1. TypeOK
  BY DEF IInv
<1>2. TypeOK'
  BY <1>1, ReturnTypes DEF TypeOK, Phases, catalog, closures
<1> QED  BY <1>1, <1>2, ReturnTypes, OutsideStep DEF catalog

-----------------------------------------------------------------------------
(* The attempt chain *)

LEMMA ExportAttemptsStep == ASSUME IInv, NEW p \in Publisher, ExportAttempts(p) PROVE IInv'
<1>0. TypeOK /\ HasLast(attempts) /\ UNCHANGED <<catalog, closures>> /\ Free
  BY DEF IInv, Chains, ExportAttempts
<1> DEFINE new == Next1(attempts, p, rows)
<1>1. CASE Return(p)
  BY <1>0, <1>1, ReturnStep
<1>2. CASE ~Return(p)
  <2>1. Sign(p, new, "sign") /\ (attempts # {} => Extends(Last(attempts).rows, rows))
    BY <1>2 DEF ExportAttempts
  <2>2. Continues(attempts, new) /\ new.rows = rows
    BY <1>0, NextIsClosure DEF TypeOK
  <2>3. new \in Closure /\ "sign" \in Phases
    BY <2>2 DEF Continues, Phases
  <2> HIDE DEF new
  <2>4. /\ phase' \in [Publisher -> Phases] /\ lock' = p /\ lock' \in Maybe
        /\ draft' \in [Publisher -> Closure \cup {NoDraft}]
        /\ phase'[p] = "sign" /\ draft'[p] = new
        /\ \A q \in Publisher \ {p} : phase'[q] = phase[q] /\ draft'[q] = draft[q]
    BY <1>0, <2>1, <2>3, SignTypes
  <2>5. TypeOK'
    BY <1>0, <2>4 DEF TypeOK, Phases, catalog, closures
  <2>6. Ok(p)'
    BY <1>0, <2>1, <2>2, <2>4
       DEF Ok, Excludes, DraftsAttempts, DraftsFacts, Continues, catalog, closures
  <2> QED  BY <1>0, <2>4, <2>5, <2>6, SignStep DEF catalog
<1> QED  BY <1>1, <1>2

\* The end of the chain has all rows that were signed, so what extends it
\* extends every closure.
LEMMA LineageGrows ==
    ASSUME IInv, NEW d, Continues(attempts, d),
           attempts # {} => Extends(Last(attempts).rows, d.rows),
           attempts' = attempts \cup {d}
    PROVE  AttemptLineage' /\ HasLast(attempts)'
<1>0. attempts \in SUBSET Closure /\ HasLast(attempts) /\ Chained(attempts)
  BY DEF IInv, TypeOK, Chains, AttemptLineage
<1>1. /\ Chained(attempts') /\ HasLast(attempts')
      /\ \A c \in attempts : c.seq < d.seq
  BY <1>0, ChainGrows
<1>2. \A c \in attempts \cup {d} : c.seq \in Nat
  BY <1>0 DEF Continues, Closure
<1> DEFINE Later(a, b) ==
             /\ a \subseteq b
             /\ \A r \in a, n \in b \ a : r.start < n.start
<1>3. ASSUME NEW c \in attempts PROVE Later(c.rows, d.rows)
  <2> DEFINE e == Last(attempts)
  <2>1. e \in attempts /\ c.seq <= e.seq
    BY <1>0, LastIsLast
  <2>2. e.rows \subseteq d.rows /\ \A r \in e.rows, n \in d.rows \ e.rows : r.start < n.start
    BY DEF Extends
  <2>3. CASE c = e
    BY <2>2, <2>3
  <2>4. CASE c # e
    <3>1. c.seq < e.seq
      BY <1>0, <1>2, <2>1, <2>4 DEF Chained
    <3>2. c.rows \subseteq e.rows /\ \A r \in c.rows, n \in e.rows \ c.rows : r.start < n.start
      BY <2>1, <3>1 DEF IInv, AttemptLineage
    <3> HIDE DEF e
    <3> QED  BY <2>2, <3>2
  <2> QED  BY <2>3, <2>4
<1>4. \A a, b \in attempts : a.seq < b.seq => Later(a.rows, b.rows)
  BY DEF IInv, AttemptLineage
<1>5. ASSUME NEW a \in attempts', NEW b \in attempts', a.seq < b.seq
      PROVE  Later(a.rows, b.rows)
  <2>1. CASE a \in attempts /\ b \in attempts
    BY <1>4, <1>5, <2>1
  <2>2. CASE b = d
    <3>1. a \in attempts
      BY <1>2, <1>5, <2>2
    <3> QED  BY <1>3, <2>2, <3>1
  <2>3. CASE a = d /\ b \in attempts
    BY <1>1, <1>2, <1>5, <2>3
  <2> QED  BY <2>1, <2>2, <2>3
<1> QED  BY <1>1, <1>5 DEF AttemptLineage

LEMMA PlaceAttemptsStep == ASSUME IInv, NEW p \in Publisher, PlaceAttempts(p) PROVE IInv'
<1>0. /\ TypeOK /\ phase[p] = "sign" /\ Return(p) /\ UNCHANGED <<catalog, facts>>
      /\ phase[p] \in Inside
  BY DEF IInv, PlaceAttempts, Inside
<1>1. CASE UNCHANGED attempts
  BY <1>0, <1>1, ReturnStep DEF closures
<1>2. CASE attempts' = attempts \cup {draft[p]}
  <2>1. /\ Continues(attempts, draft[p])
        /\ attempts # {} => Extends(Last(attempts).rows, draft[p].rows)
    BY <1>0 DEF IInv, Ok, DraftsAttempts
  <2>2. AttemptLineage' /\ HasLast(attempts)'
    BY <1>2, <2>1, LineageGrows
  <2>3. TypeOK'
    BY <1>0, <1>2, <2>1, ReturnTypes DEF TypeOK, Phases, Continues, catalog
  <2>4. Admitted(rows') = Admitted(rows) /\ facts' = facts /\ attempts \subseteq attempts'
    BY <1>0, <1>2 DEF catalog
  <2>5. FactsNeverRegress' /\ FactsAreKnown' /\ HasLast(facts)'
    BY <2>4 DEF IInv, Chains, FactsNeverRegress, FactsAreKnown, Bound, Chained, HasLast
  <2>6. ASSUME NEW q \in Publisher PROVE Ok(q)'
    <3>1. CASE q = p
      BY <1>0, <3>1, ReturnTypes, OkOutside
    <3>2. CASE q # p
      <4>1. phase[q] \notin Inside /\ phase'[q] = phase[q]
        BY <1>0, <3>2, Alone, ReturnTypes
      <4> QED  BY <4>1 DEF Ok, Excludes, DraftsAttempts, DraftsFacts, Inside
    <3> QED  BY <3>1, <3>2
  <2> QED  BY <2>2, <2>3, <2>5, <2>6 DEF IInv, Chains
<1> QED  BY <1>1, <1>2 DEF PlaceAttempts

-----------------------------------------------------------------------------
(* The fact chain *)

LEMMA BuildFactsStep == ASSUME IInv, NEW p \in Publisher, BuildFacts(p) PROVE IInv'
<1>0. TypeOK /\ HasLast(facts) /\ UNCHANGED <<catalog, closures>> /\ Free
  BY DEF IInv, Chains, BuildFacts
<1> DEFINE new == Next1(facts, p, Admitted(rows))
<1>1. CASE Return(p)
  BY <1>0, <1>1, ReturnStep
<1>2. CASE ~Return(p)
  <2>1. Sign(p, new, "bind")
    BY <1>2 DEF BuildFacts
  <2>2. Continues(facts, new) /\ new.rows = Admitted(rows) /\ new.bound = 0
    BY <1>0, NextIsClosure, AdmittedRows DEF TypeOK
  <2>3. new \in Closure /\ "bind" \in Phases
    BY <2>2 DEF Continues, Phases
  <2> HIDE DEF new
  <2>4. /\ phase' \in [Publisher -> Phases] /\ lock' = p /\ lock' \in Maybe
        /\ draft' \in [Publisher -> Closure \cup {NoDraft}]
        /\ phase'[p] = "bind" /\ draft'[p] = new
        /\ \A q \in Publisher \ {p} : phase'[q] = phase[q] /\ draft'[q] = draft[q]
    BY <1>0, <2>1, <2>3, SignTypes
  <2>5. TypeOK'
    BY <1>0, <2>4 DEF TypeOK, Phases, catalog, closures
  <2>6. rows' = rows /\ facts' = facts /\ \A f \in facts : f.rows \subseteq Admitted(rows)
    BY <1>0 DEF IInv, FactsAreKnown, catalog, closures
  <2>7. Ok(p)'
    BY <2>2, <2>4, <2>6 DEF Ok, Excludes, DraftsAttempts, DraftsFacts, Continues
  <2> QED  BY <1>0, <2>4, <2>5, <2>7, SignStep DEF catalog
<1> QED  BY <1>1, <1>2

\* Whatever is bound now is bound to no older attempt closure.
LEMMA BoundIsNewest ==
    ASSUME IInv, NEW p \in Publisher, phase[p] = "bind", NEW d \in Closure,
           d.rows = draft[p].rows,
           \/ Admitted(rows) = {} /\ d.bound = 0
           \/ Admitted(rows) # {} /\ attempts # {} /\ d.bound = Last(attempts).seq
    PROVE  Bound(d) /\ \A f \in facts : f.bound <= d.bound
<1>0. \A f \in facts : Bound(f) /\ f.bound \in Nat
  BY DEF IInv, FactsAreKnown, TypeOK, Closure
<1>1. CASE Admitted(rows) = {} /\ d.bound = 0
  <2>1. draft[p].rows \subseteq Admitted(rows)
    BY DEF IInv, Ok, DraftsFacts
  <2>2. d.rows = {}
    BY <1>1, <2>1
  <2> QED  BY <1>0, <1>1, <2>2 DEF Bound
<1>2. CASE Admitted(rows) # {} /\ attempts # {} /\ d.bound = Last(attempts).seq
  <2>1. Last(attempts) \in attempts /\ \A c \in attempts : c.seq <= Last(attempts).seq
    BY <1>2, LastIsLast DEF IInv, Chains
  <2>2. Last(attempts).seq > 0 /\ Last(attempts).seq \in Nat
    BY <2>1 DEF IInv, AttemptLineage, Chained, TypeOK, Closure
  <2>3. Bound(d)
    BY <1>2, <2>1, <2>2 DEF Bound
  <2>4. \A f \in facts : f.bound <= d.bound
    BY <1>0, <1>2, <2>1, <2>2 DEF Bound
  <2> QED  BY <2>3, <2>4
<1> QED  BY <1>1, <1>2

LEMMA BindFactsStep == ASSUME IInv, NEW p \in Publisher, BindFacts(p) PROVE IInv'
<1>0. /\ TypeOK /\ phase[p] = "bind" /\ UNCHANGED <<catalog, closures>>
      /\ phase[p] \in Inside /\ "place" \in Phases
  BY DEF IInv, BindFacts, Inside, Phases
<1>1. /\ Continues(facts, draft[p]) /\ draft[p] \in Closure
      /\ draft[p].rows \subseteq Admitted(rows)
      /\ \A f \in facts : f.rows \subseteq draft[p].rows
  BY <1>0 DEF IInv, Ok, DraftsFacts, Continues
<1>2. ASSUME NEW d \in Closure, Sign(p, d, "place"),
             d.rows = draft[p].rows, d.seq = draft[p].seq, d.pred = draft[p].pred,
             \/ Admitted(rows) = {} /\ d.bound = 0
             \/ Admitted(rows) # {} /\ attempts # {} /\ d.bound = Last(attempts).seq
      PROVE  IInv'
  <2>1. /\ phase' \in [Publisher -> Phases] /\ lock' = p /\ lock' \in Maybe
        /\ draft' \in [Publisher -> Closure \cup {NoDraft}]
        /\ phase'[p] = "place" /\ draft'[p] = d
        /\ \A q \in Publisher \ {p} : phase'[q] = phase[q] /\ draft'[q] = draft[q]
    BY <1>0, <1>2, SignTypes
  <2>2. TypeOK'
    BY <1>0, <2>1 DEF TypeOK, Phases, catalog, closures
  <2>3. Bound(d) /\ \A f \in facts : f.bound <= d.bound
    BY <1>0, <1>2, BoundIsNewest
  <2>4. rows' = rows /\ facts' = facts /\ attempts' = attempts /\ Bound(d)'
    BY <1>0, <2>3 DEF catalog, closures, Bound
  <2>5. Ok(p)'
    BY <1>1, <1>2, <2>1, <2>3, <2>4 DEF Ok, Excludes, DraftsAttempts, DraftsFacts, Continues
  <2> QED  BY <1>0, <2>1, <2>2, <2>5, SignStep DEF catalog
<1>3. CASE Return(p)
  BY <1>0, <1>3, ReturnStep
<1>4. CASE Sign(p, draft[p], "place") /\ Admitted(rows) = {}
  <2>1. draft[p].bound = 0
    BY <1>0 DEF IInv, Ok, DraftsFacts
  <2> QED  BY <1>1, <1>2, <1>4, <2>1
<1>5. CASE /\ Sign(p, [draft[p] EXCEPT !.bound = Last(attempts).seq], "place")
           /\ Admitted(rows) # {} /\ attempts # {}
  <2> DEFINE d == [draft[p] EXCEPT !.bound = Last(attempts).seq]
  <2>1. Last(attempts).seq \in Nat
    BY <1>5, LastIsLast DEF IInv, Chains, TypeOK, Closure
  <2>2. /\ d \in Closure /\ d.rows = draft[p].rows /\ d.seq = draft[p].seq
        /\ d.pred = draft[p].pred /\ d.bound = Last(attempts).seq
    BY <1>1, <2>1 DEF Closure
  <2> HIDE DEF d
  <2>3. Sign(p, d, "place")
    BY <1>5 DEF d
  <2> QED  BY <1>2, <1>5, <2>2, <2>3
<1> QED  BY <1>3, <1>4, <1>5 DEF BindFacts

LEMMA PlaceFactsStep == ASSUME IInv, NEW p \in Publisher, PlaceFacts(p) PROVE IInv'
<1>0. /\ TypeOK /\ phase[p] = "place" /\ Return(p) /\ UNCHANGED <<catalog, attempts>>
      /\ phase[p] \in Inside
  BY DEF IInv, PlaceFacts, Inside
<1>1. CASE UNCHANGED facts
  BY <1>0, <1>1, ReturnStep DEF closures
<1>2. CASE facts' = facts \cup {draft[p]}
  <2> DEFINE d == draft[p]
  <2>1. /\ Continues(facts, d) /\ d.rows \subseteq Admitted(rows) /\ Bound(d)
        /\ \A f \in facts : f.rows \subseteq d.rows /\ f.bound <= d.bound
    BY <1>0 DEF IInv, Ok, DraftsFacts
  <2>2. d \in Closure
    BY <2>1 DEF Continues
  <2>3. TypeOK'
    BY <1>0, <1>2, <2>2, ReturnTypes DEF TypeOK, Phases, catalog
  <2> HIDE DEF d
  <2>4. facts \in SUBSET Closure /\ HasLast(facts) /\ Chained(facts)
    BY DEF IInv, TypeOK, Chains, FactsNeverRegress
  <2>5. /\ Chained(facts') /\ HasLast(facts') /\ \A f \in facts : f.seq < d.seq
    BY <1>2, <2>1, <2>4, ChainGrows DEF d
  <2>6. facts' = facts \cup {d} /\ attempts' = attempts /\ rows' = rows
    BY <1>0, <1>2 DEF d, catalog
  <2>7. \A f \in facts' : f.seq \in Nat /\ f.bound \in Nat
    BY <2>2, <2>4, <2>6 DEF Closure
  <2>8. \A f \in facts' : f.rows \subseteq Admitted(rows) /\ Bound(f)
    BY <2>1, <2>6 DEF IInv, FactsAreKnown
  <2>9. FactsAreKnown'
    BY <2>6, <2>8 DEF FactsAreKnown, Bound
  <2>10. ASSUME NEW f \in facts', NEW g \in facts', f.seq < g.seq
         PROVE  f.bound <= g.bound /\ f.rows \subseteq g.rows
    <3>1. CASE f \in facts /\ g \in facts
      BY <2>10, <3>1 DEF IInv, FactsNeverRegress
    <3>2. CASE f \in facts /\ g = d
      BY <2>1, <3>2
    <3>3. CASE f = d
      BY <2>5, <2>6, <2>7, <2>10, <3>3
    <3> QED  BY <2>6, <3>1, <3>2, <3>3
  <2>11. FactsNeverRegress'
    BY <2>5, <2>6, <2>8, <2>10 DEF FactsNeverRegress, Bound
  <2>12. AttemptLineage' /\ HasLast(attempts)'
    BY <2>6 DEF IInv, Chains, AttemptLineage, Chained, HasLast
  <2>13. ASSUME NEW q \in Publisher PROVE Ok(q)'
    <3>1. CASE q = p
      BY <1>0, <3>1, ReturnTypes, OkOutside
    <3>2. CASE q # p
      <4>1. phase[q] \notin Inside /\ phase'[q] = phase[q]
        BY <1>0, <3>2, Alone, ReturnTypes
      <4> QED  BY <4>1 DEF Ok, Excludes, DraftsAttempts, DraftsFacts, Inside
    <3> QED  BY <3>1, <3>2
  <2> QED  BY <2>3, <2>5, <2>9, <2>11, <2>12, <2>13 DEF IInv, Chains
<1> QED  BY <1>1, <1>2 DEF PlaceFacts

-----------------------------------------------------------------------------
(* The theorems *)

LEMMA InitHolds == Init => IInv
<1> SUFFICES ASSUME Init PROVE IInv
  OBVIOUS
<1>1. TypeOK
  BY MaxRunsAssumption DEF Init, TypeOK, Maybe
<1>2. Chains /\ AttemptLineage /\ FactsNeverRegress /\ FactsAreKnown
  BY DEF Init, Chains, HasLast, AttemptLineage, FactsNeverRegress, FactsAreKnown, Chained
<1>3. \A p \in Publisher : Ok(p)
  BY DEF Init, Ok, Excludes, DraftsAttempts, DraftsFacts, Inside
<1> QED  BY <1>1, <1>2, <1>3 DEF IInv

LEMMA NextHolds == IInv /\ [Next]_vars => IInv'
<1> SUFFICES ASSUME IInv, [Next]_vars PROVE IInv'
  OBVIOUS
<1>1. CASE \E s \in Subject : StartRun(s)
  BY <1>1, StartRunStep
<1>2. CASE \E r \in running : \E status \in {"SUCCEEDED", "FAILED"} : FinishRun(r, status)
  BY <1>2, FinishRunStep
<1>3. CASE \E R \in SUBSET running : LoseRuns(R)
  BY <1>3, LoseRunsStep
<1>4. ASSUME NEW p \in Publisher,
             \/ Call(p, "attempts") \/ Call(p, "facts")
             \/ Refuse(p) \/ Publish(p)
             \/ \E R \in SUBSET running : Stop(p, R)
      PROVE  IInv'
  <2>1. CASE Call(p, "attempts") \/ Call(p, "facts")
    BY <2>1, CallStep
  <2>2. CASE Refuse(p)
    BY <2>2, RefuseStep
  <2>3. CASE Publish(p)
    BY <2>3, ExportAttemptsStep, PlaceAttemptsStep, BuildFactsStep, BindFactsStep,
       PlaceFactsStep DEF Publish
  <2>4. CASE \E R \in SUBSET running : Stop(p, R)
    BY <2>4, StopStep
  <2> QED  BY <1>4, <2>1, <2>2, <2>3, <2>4
<1>5. CASE UNCHANGED vars
  <2>1. TypeOK'
    BY <1>5 DEF IInv, TypeOK, vars
  <2> QED  BY <1>5, <2>1, CatalogStep DEF vars, closures, publishing
<1> QED  BY <1>1, <1>2, <1>3, <1>4, <1>5 DEF Next

\* The invariant holds in every reachable state.
THEOREM ClosuresInvariant == Spec => []IInv
<1> QED  BY InitHolds, NextHolds, PTL DEF Spec

\* Every variable keeps its type; in particular whatever is placed is a closure
\* with its predecessor (processor_attempt_closure.go, portable_fact_closure.go).
THEOREM ClosureTypes == Spec => []TypeOK
<1>1. IInv => TypeOK
  BY DEF IInv
<1> QED  BY <1>1, ClosuresInvariant, PTL

\* However many publishers sign the attempts of a commit, however late rows
\* arrive and whichever answers are lost, the closures are one chain that never
\* drops or overtakes a row it has signed.
THEOREM AttemptsAreOneLine == Spec => []AttemptLineage
<1>1. IInv => AttemptLineage
  BY DEF IInv
<1> QED  BY <1>1, ClosuresInvariant, PTL

\* Fact closures never go back to an older attempt closure or lose an artifact,
\* although the catalog is read twice while rows arrive.
THEOREM FactsOnlyGrow == Spec => []FactsNeverRegress
<1>1. IInv => FactsNeverRegress
  BY DEF IInv
<1> QED  BY <1>1, ClosuresInvariant, PTL

-----------------------------------------------------------------------------
(* PlanApply: one request *)

\* Where a request may be in each call of the reconciliation, and what it has
\* to report there.
Shape(r) ==
  /\ pc[r] \in {"idle", "find", "lease", "reread"} <=> mode[r] = Nothing
  /\ pc[r] \in {"capture", "publish", "commit", "project", "process"} => mode[r] = "first"
  /\ mode[r] = "recover" => pc[r] \in {"reconcile", "children", "finish"}
  /\ mode[r] = "replay" => pc[r] \in {"reconcile", "children", "finish"}
  /\ pc[r] # "finish" /\ mode[r] # "recover" => verdict[r] = Nothing
  /\ pc[r] # "finish" /\ mode[r] = "recover" =>
       verdict[r] \in {"FAILED", "NEEDS_RECONCILIATION"}
  /\ pc[r] = "finish" => verdict[r] # Nothing
  /\ pc[r] = "finish" /\ mode[r] = "replay" => verdict[r] = "SUCCEEDED"

\* What it is about to report, or has still to do, is so of the publication.
Reports(r) ==
  /\ pc[r] = "project" => committed
  /\ pc[r] \in {"children", "process"} => committed /\ projected
  /\ verdict[r] = "SUCCEEDED" => committed /\ projected

\* A revision names one state of the job: a request that knows the present one
\* found the job open, or, in a replay, unreconciled.
Knows(r) ==
  /\ seen[r] <= job.revision
  /\ seen[r] = job.revision /\ pc[r] = "lease" => job.state \in {"QUEUED", "RUNNING"}
  /\ mode[r] = "replay" => JobTerminal(job.state)
  /\ seen[r] = job.revision /\ mode[r] = "replay" => job.state = "NEEDS_RECONCILIATION"

\* As long as no executor was overtaken, one that executes has the lease, and
\* knows the revision that its claim made.
Executes(r) ==
  ~overtaken /\ Executing(r) =>
    /\ job.leased
    /\ pc[r] # "reread" => seen[r] = job.revision
    /\ \A q \in Request : Executing(q) => q = r

\* Nobody adds rows to a publication that awaits reconciliation.
Replays(r) ==
  /\ ~overtaken /\ job.state = "NEEDS_RECONCILIATION" /\ pc[r] = "finish"
  => Missing = {}

\* Without a disturbance, an execution starts from nothing, and ends as failed
\* only if it left nothing.
Honest(r) ==
  faults = 0 =>
    /\ pc[r] \in {"reread", "capture", "publish", "commit"} => ~committed
    /\ mode[r] = "first" /\ pc[r] \in {"reconcile", "children"} => ~committed
    /\ Executing(r) /\ verdict[r] = "FAILED" => ~committed

\* Until something disturbs it, a running job has an executor, which has the
\* lease: so nobody else can claim the job a second time.
Undisturbed ==
  faults = 0 =>
    /\ ~overtaken
    /\ job.state \in {Nothing, "QUEUED"} => ~committed
    /\ job.state = "RUNNING" => \E r \in Request : Executing(r)

\* Only a running job is leased.
LeaseRuns == job.leased => job.state = "RUNNING"

\* All of it for one request, and what holds of the job itself.
Serves(r) ==
  Shape(r) /\ Reports(r) /\ Knows(r) /\ Executes(r) /\ Replays(r) /\ Honest(r)

Served ==
  /\ LeaseRuns
  /\ job.revision = 0 <=> job.state = Nothing
  /\ projected => committed
  /\ SucceededIsPublished
  /\ UndisturbedFailureIsHonest
  /\ Undisturbed

ApplyInv == ApplyTypeOK /\ Served /\ \A r \in Request : Serves(r)

-----------------------------------------------------------------------------
(* Steps of one request *)

\* What the other requests know stays as it is.
Beside(r) ==
  \A q \in Request \ {r} :
    pc'[q] = pc[q] /\ mode'[q] = mode[q] /\ seen'[q] = seen[q] /\ verdict'[q] = verdict[q]

LEMMA ControlTypes ==
    ASSUME ApplyTypeOK, NEW r \in Request,
           pc' = pc \/ \E l \in PC : Goto(r, l),
           mode' = mode \/ \E m \in {Nothing, "first", "recover", "replay"} : SetMode(r, m),
           seen' = seen \/ Look(r) \/ seen' = [seen EXCEPT ![r] = 0],
           verdict' = verdict \/ \E v \in Verdicts : Decide(r, v)
    PROVE  /\ Beside(r)
           /\ pc' \in [Request -> PC]
           /\ mode' \in [Request -> {Nothing, "first", "recover", "replay"}]
           /\ seen' \in [Request -> Nat]
           /\ verdict' \in [Request -> Verdicts]
<1> USE DEF ApplyTypeOK
<1>1. pc' \in [Request -> PC] /\ \A q \in Request \ {r} : pc'[q] = pc[q]
  BY DEF Goto
<1>2. /\ mode' \in [Request -> {Nothing, "first", "recover", "replay"}]
      /\ \A q \in Request \ {r} : mode'[q] = mode[q]
  BY DEF SetMode
<1>3. seen' \in [Request -> Nat] /\ \A q \in Request \ {r} : seen'[q] = seen[q]
  BY DEF Look
<1>4. verdict' \in [Request -> Verdicts] /\ \A q \in Request \ {r} : verdict'[q] = verdict[q]
  BY DEF Decide
<1> QED  BY <1>1, <1>2, <1>3, <1>4 DEF Beside

\* A step that leaves the job alone and disturbs nothing: the others are
\* served as before, if only an executor publishes or adds rows.
Quiet(r) ==
  /\ ApplyTypeOK' /\ Beside(r)
  /\ job' = job /\ overtaken' = overtaken /\ (faults' = 0 => faults = 0)
  /\ committed => committed'
  /\ projected => projected'
  /\ Executing(r)' => Executing(r)
  /\ committed' = committed \/ Executing(r)
  /\ Missing = {} => Missing' = {} \/ Executing(r)

LEMMA ExecutorRuns ==
    ASSUME ApplyInv, ~overtaken, NEW r \in Request, Executing(r)
    PROVE  /\ job.leased /\ job.state = "RUNNING"
           /\ \A q \in Request : Executing(q) => q = r
  BY DEF ApplyInv, Served, LeaseRuns, Serves, Executes

LEMMA QuietBeside ==
    ASSUME ApplyInv, NEW r \in Request, Quiet(r), NEW q \in Request \ {r}
    PROVE  Serves(q)'
<1>0. Serves(q)
  BY DEF ApplyInv
<1>1. pc'[q] = pc[q] /\ mode'[q] = mode[q] /\ seen'[q] = seen[q] /\ verdict'[q] = verdict[q]
  BY DEF Quiet, Beside
<1>2. Executing(q)' = Executing(q)
  BY <1>1 DEF Executing
<1>3. ~overtaken /\ Executing(r) => ~Executing(q) /\ job.state = "RUNNING"
  BY ExecutorRuns
<1>4. Shape(q)' /\ Reports(q)' /\ Knows(q)'
  BY <1>0, <1>1 DEF Quiet, Serves, Shape, Reports, Knows
<1>5. Executes(q)'
  <2> SUFFICES ASSUME ~overtaken, Executing(q)
               PROVE  /\ job.leased
                      /\ pc[q] # "reread" => seen[q] = job.revision
                      /\ \A p \in Request : Executing(p)' => p = q
    BY <1>1, <1>2 DEF Quiet, Executes
  <2>1. \A p \in Request : Executing(p)' => Executing(p)
    BY DEF Quiet, Beside, Executing
  <2> QED  BY <1>0, <2>1 DEF Serves, Executes
<1>6. Replays(q)'
  BY <1>0, <1>1, <1>3 DEF Quiet, Serves, Replays
<1>7. Honest(q)'
  <2> SUFFICES ASSUME faults' = 0
               PROVE  Honest(q)'
    BY DEF Honest
  <2>1. faults = 0 /\ ~overtaken
    BY DEF Quiet, ApplyInv, Served, Undisturbed
  <2>2. CASE committed' = committed
    BY <1>0, <1>1, <1>2, <2>1, <2>2 DEF Serves, Honest
  <2>3. CASE Executing(r)
    BY <1>0, <1>1, <1>2, <1>3, <2>1, <2>3 DEF Serves, Honest, Shape, Executing
  <2> QED  BY <2>2, <2>3 DEF Quiet
<1> QED  BY <1>4, <1>5, <1>6, <1>7 DEF Serves

LEMMA QuietHolds ==
    ASSUME ApplyInv, NEW r \in Request, Quiet(r), Serves(r)',
           projected' => committed',
           faults' = 0 /\ Executing(r) => Executing(r)'
    PROVE  ApplyInv'
<1>1. faults' = 0 => faults = 0 /\ ~overtaken
  BY DEF Quiet, ApplyInv, Served, Undisturbed
<1>2. ~overtaken /\ Executing(r) => job.state = "RUNNING"
  BY ExecutorRuns
<1>3. LeaseRuns' /\ (job'.revision = 0 <=> job'.state = Nothing) /\ SucceededIsPublished'
  BY DEF Quiet, ApplyInv, Served, LeaseRuns, SucceededIsPublished
<1>4. UndisturbedFailureIsHonest'
  BY <1>1, <1>2 DEF Quiet, ApplyInv, Served, UndisturbedFailureIsHonest
<1>5. Undisturbed'
  <2> SUFFICES ASSUME faults' = 0
               PROVE  /\ ~overtaken'
                      /\ job'.state \in {Nothing, "QUEUED"} => ~committed'
                      /\ job'.state = "RUNNING" => \E q \in Request : Executing(q)'
    BY DEF Undisturbed
  <2>1. ~overtaken' /\ (job'.state \in {Nothing, "QUEUED"} => ~committed')
    BY <1>1, <1>2 DEF Quiet, ApplyInv, Served, Undisturbed, Nothing
  <2>2. ASSUME job'.state = "RUNNING"
        PROVE  \E q \in Request : Executing(q)'
    <3>1. PICK q \in Request : Executing(q)
      BY <1>1, <2>2 DEF Quiet, ApplyInv, Served, Undisturbed
    <3>2. CASE q = r
      BY <3>1, <3>2
    <3>3. CASE q # r
      BY <3>1, <3>3 DEF Quiet, Beside, Executing
    <3> QED  BY <3>2, <3>3
  <2> QED  BY <2>1, <2>2
<1>6. Served'
  BY <1>3, <1>4, <1>5 DEF Served
<1>7. \A q \in Request : Serves(q)'
  BY QuietBeside
<1> QED  BY <1>6, <1>7 DEF ApplyInv, Quiet

-----------------------------------------------------------------------------
(* The steps that leave the job alone *)

LEMMA LeaveTypes ==
    ASSUME ApplyTypeOK, NEW r \in Request, Leave(r)
    PROVE  /\ Beside(r)
           /\ pc' \in [Request -> PC]
           /\ mode' \in [Request -> {Nothing, "first", "recover", "replay"}]
           /\ seen' \in [Request -> Nat]
           /\ verdict' \in [Request -> Verdicts]
           /\ pc'[r] = "idle" /\ mode'[r] = Nothing /\ seen'[r] = 0 /\ verdict'[r] = Nothing
           /\ ~Executing(r)'
<1>1. /\ pc'[r] = "idle" /\ mode'[r] = Nothing /\ seen'[r] = 0 /\ verdict'[r] = Nothing
      /\ ~Executing(r)'
  BY DEF Leave, Goto, SetMode, Decide, ApplyTypeOK, Executing, Nothing
<1>2. "idle" \in PC /\ Nothing \in Verdicts
  BY DEF PC, Verdicts
<1> QED  BY <1>1, <1>2, ControlTypes DEF Leave

LEMMA IdleServes ==
    ASSUME ApplyInv, NEW r \in Request, Leave(r), job'.revision \in Nat,
           job'.revision # 0 \/ job'.state = Nothing
    PROVE  Serves(r)'
  BY LeaveTypes DEF ApplyInv, Serves, Shape, Reports, Knows, Executes, Replays, Honest,
                    Nothing, Executing

LEMMA BystanderServes ==
    ASSUME NEW r \in Request, Shape(r)', ~Executing(r)'
    PROVE  Executes(r)' /\ Honest(r)'
  BY DEF Shape, Executes, Honest, Executing, Nothing

LEMMA ExecutorServes ==
    ASSUME ApplyInv, NEW r \in Request, Quiet(r), Shape(r)', Executing(r)',
           seen'[r] = job.revision \/ (pc[r] # "reread" /\ seen'[r] = seen[r])
    PROVE  Knows(r)' /\ Executes(r)' /\ Replays(r)'
<1>1. Executing(r) /\ Serves(r) /\ job' = job /\ overtaken' = overtaken
  BY DEF Quiet, ApplyInv
<1>2. pc'[r] # "lease" /\ mode'[r] # "replay"
  BY DEF Shape, Executing, Nothing
<1>3. seen'[r] <= job.revision
  BY <1>1 DEF Serves, Knows, ApplyInv, ApplyTypeOK
<1>4. Knows(r)'
  BY <1>1, <1>2, <1>3 DEF Knows
<1>5. ~overtaken => job.leased /\ job.state = "RUNNING" /\ \A q \in Request : Executing(q) => q = r
  BY <1>1, ExecutorRuns
<1>6. Replays(r)'
  BY <1>1, <1>5 DEF Replays
<1>7. ~overtaken => seen'[r] = job.revision
  BY <1>1 DEF Serves, Executes
<1>8. \A q \in Request : Executing(q)' => Executing(q)
  BY DEF Quiet, Beside, Executing
<1>9. Executes(r)'
  BY <1>1, <1>5, <1>7, <1>8 DEF Executes
<1> QED  BY <1>4, <1>6, <1>9

LEMMA BeginHolds ==
    ASSUME ApplyInv, NEW r \in Request, Begin(r)
    PROVE  ApplyInv'
<1>1. Serves(r)
  BY DEF ApplyInv
<1>2. /\ pc[r] = "idle" /\ pc'[r] = "find" /\ mode'[r] = mode[r]
      /\ seen'[r] = seen[r] /\ verdict'[r] = verdict[r]
  BY DEF Begin, Goto, ApplyInv, ApplyTypeOK
<1>3. mode[r] = Nothing /\ verdict[r] = Nothing
  BY <1>1, <1>2 DEF Serves, Shape, Nothing
<1>4. ApplyTypeOK' /\ Beside(r)
  BY ControlTypes DEF Begin, ApplyInv, ApplyTypeOK, PC, durable, disturbed
<1>5. Shape(r)' /\ ~Executing(r)' /\ ~Executing(r)
  BY <1>2, <1>3 DEF Shape, Executing, Nothing
<1>6. Quiet(r)
  BY <1>4, <1>5 DEF Begin, Quiet, Missing, durable, disturbed
<1>7. Reports(r)' /\ Knows(r)' /\ Replays(r)'
  BY <1>1, <1>2, <1>3 DEF Begin, Serves, Reports, Knows, Replays, Nothing
<1>8. Serves(r)'
  BY <1>5, <1>7, BystanderServes DEF Serves
<1> QED  BY <1>5, <1>6, <1>8, QuietHolds DEF Begin, durable, ApplyInv, Served

LEMMA ReadJobHolds ==
    ASSUME ApplyInv, NEW r \in Request, ReadJob(r)
    PROVE  ApplyInv'
<1>1. Serves(r)
  BY DEF ApplyInv
<1>2. pc[r] = "find" /\ mode[r] = Nothing /\ verdict[r] = Nothing /\ ~Executing(r)
  BY <1>1 DEF ReadJob, Serves, Shape, Nothing, Executing
<1>3. UNCHANGED <<job, abandoned, abandoner, durable, committer, disturbed>>
  BY DEF ReadJob
<1>4. job.state \in JobStates /\ job.revision \in Nat
  BY DEF ApplyInv, ApplyTypeOK
<1>5. /\ Beside(r)
      /\ pc' \in [Request -> PC]
      /\ mode' \in [Request -> {Nothing, "first", "recover", "replay"}]
      /\ seen' \in [Request -> Nat]
      /\ verdict' \in [Request -> Verdicts]
  <2>1. CASE Leave(r)
    BY <2>1, LeaveTypes DEF ApplyInv
  <2>2. CASE Look(r) /\ Goto(r, "lease") /\ UNCHANGED <<mode, verdict>>
    BY <2>2, ControlTypes DEF PC, ApplyInv
  <2>3. CASE Look(r) /\ SetMode(r, "replay") /\ Goto(r, "reconcile") /\ UNCHANGED verdict
    BY <2>3, ControlTypes DEF PC, ApplyInv
  <2> QED  BY <2>1, <2>2, <2>3 DEF ReadJob
<1>6. ApplyTypeOK'
  BY <1>3, <1>5 DEF ApplyInv, ApplyTypeOK, durable, disturbed
<1>7. ~Executing(r)' => Quiet(r)
  BY <1>2, <1>3, <1>5, <1>6 DEF Quiet, Missing, durable, disturbed
<1>8. Serves(r)' /\ ~Executing(r)'
  <2>1. CASE Leave(r)
    BY <1>3, <1>4, <2>1, LeaveTypes, IdleServes DEF ApplyInv, Served
  <2>2. CASE /\ ~JobTerminal(job.state) /\ Look(r) /\ Goto(r, "lease")
             /\ UNCHANGED <<mode, verdict>>
    <3>1. /\ pc'[r] = "lease" /\ mode'[r] = Nothing /\ verdict'[r] = Nothing
          /\ seen'[r] = job.revision
      BY <1>2, <2>2 DEF Look, Goto, ApplyInv, ApplyTypeOK
    <3>2. Shape(r)' /\ ~Executing(r)'
      BY <3>1 DEF Shape, Executing, Nothing
    <3>3. job.state \in {"QUEUED", "RUNNING"}
      BY <1>4, <2>2 DEF ReadJob, JobStates, JobTerminal
    <3>4. Reports(r)' /\ Knows(r)' /\ Replays(r)'
      BY <1>3, <1>4, <3>1, <3>3 DEF Reports, Knows, Replays, Nothing
    <3> QED  BY <3>2, <3>4, BystanderServes DEF Serves
  <2>3. CASE /\ job.state = "NEEDS_RECONCILIATION"
             /\ Look(r) /\ SetMode(r, "replay") /\ Goto(r, "reconcile")
             /\ UNCHANGED verdict
    <3>1. /\ pc'[r] = "reconcile" /\ mode'[r] = "replay" /\ verdict'[r] = Nothing
          /\ seen'[r] = job.revision
      BY <1>2, <2>3 DEF Look, Goto, SetMode, ApplyInv, ApplyTypeOK
    <3>2. Shape(r)' /\ ~Executing(r)'
      BY <3>1 DEF Shape, Executing, Nothing
    <3>3. Reports(r)' /\ Knows(r)' /\ Replays(r)'
      BY <1>3, <1>4, <2>3, <3>1 DEF Reports, Knows, Replays, Nothing, JobTerminal, Terminal
    <3> QED  BY <3>2, <3>3, BystanderServes DEF Serves
  <2> QED  BY <2>1, <2>2, <2>3 DEF ReadJob
<1> QED  BY <1>2, <1>3, <1>7, <1>8, QuietHolds DEF durable, ApplyInv, Served

LEMMA RereadJobHolds ==
    ASSUME ApplyInv, NEW r \in Request, RereadJob(r)
    PROVE  ApplyInv'
<1>1. Serves(r)
  BY DEF ApplyInv
<1>2. /\ pc[r] = "reread" /\ pc'[r] = "reconcile" /\ mode'[r] = "first"
      /\ seen'[r] = job.revision /\ verdict'[r] = verdict[r]
  BY DEF RereadJob, Goto, SetMode, Look, ApplyInv, ApplyTypeOK
<1>3. verdict[r] = Nothing
  BY <1>1, <1>2 DEF Serves, Shape, Nothing
<1>4. ApplyTypeOK' /\ Beside(r)
  BY ControlTypes DEF RereadJob, ApplyInv, ApplyTypeOK, PC, durable, disturbed
<1>5. Shape(r)' /\ Executing(r)' /\ Executing(r)
  BY <1>2, <1>3 DEF Shape, Executing, Nothing
<1>6. Quiet(r)
  BY <1>4, <1>5 DEF RereadJob, Quiet, Missing, durable, disturbed
<1>7. Knows(r)' /\ Executes(r)' /\ Replays(r)'
  BY <1>2, <1>5, <1>6, ExecutorServes
<1>8. Reports(r)' /\ Honest(r)'
  BY <1>1, <1>2, <1>3 DEF RereadJob, Serves, Reports, Honest, Nothing, durable, disturbed
<1>9. Serves(r)'
  BY <1>5, <1>7, <1>8 DEF Serves
<1> QED  BY <1>5, <1>6, <1>9, QuietHolds DEF RereadJob, durable, ApplyInv, Served

\* A failed reconciliation: a first call and the one after a failure still hold
\* the lease, a replay returns.
LEMMA FailTypes ==
    ASSUME ApplyTypeOK, NEW r \in Request, NEW v \in Verdicts, ReconcileFails(r, v)
    PROVE  /\ Beside(r)
           /\ pc' \in [Request -> PC]
           /\ mode' \in [Request -> {Nothing, "first", "recover", "replay"}]
           /\ seen' \in [Request -> Nat]
           /\ verdict' \in [Request -> Verdicts]
           /\ \/ /\ mode[r] \in {"first", "recover"} /\ mode'[r] = mode[r]
                 /\ pc'[r] = "finish" /\ seen'[r] = seen[r]
                 /\ verdict'[r] = IF mode[r] = "first" THEN v ELSE verdict[r]
              \/ mode[r] = "replay" /\ Leave(r)
<1>1. CASE mode[r] = "first" /\ Decide(r, v) /\ Goto(r, "finish") /\ UNCHANGED <<mode, seen>>
  <2>1. pc'[r] = "finish" /\ verdict'[r] = v
    BY <1>1 DEF Goto, Decide, ApplyTypeOK
  <2> QED  BY <1>1, <2>1, ControlTypes DEF PC
<1>2. CASE mode[r] = "recover" /\ Goto(r, "finish") /\ UNCHANGED <<verdict, mode, seen>>
  <2>1. pc'[r] = "finish"
    BY <1>2 DEF Goto, ApplyTypeOK
  <2> QED  BY <1>2, <2>1, ControlTypes DEF PC
<1>3. CASE mode[r] = "replay" /\ Leave(r)
  BY <1>3, LeaveTypes
<1> QED  BY <1>1, <1>2, <1>3 DEF ReconcileFails

\* It is served as it fails, when what a first call reports is so.
LEMMA FailHolds ==
    ASSUME ApplyInv, NEW r \in Request, NEW v \in {"FAILED", "NEEDS_RECONCILIATION"},
           ReconcileFails(r, v), pc[r] \in {"reconcile", "children"},
           job' = job, overtaken' = overtaken, faults' = faults,
           committed' = committed, projected => projected', projected' => committed',
           ApplyTypeOK', Missing = {} => Missing' = {}
    PROVE  ApplyInv'
<1>1. Serves(r) /\ v \in Verdicts
  BY DEF ApplyInv, Verdicts
<1>2. /\ Beside(r)
      /\ \/ /\ mode[r] \in {"first", "recover"} /\ mode'[r] = mode[r]
            /\ pc'[r] = "finish" /\ seen'[r] = seen[r]
            /\ verdict'[r] = IF mode[r] = "first" THEN v ELSE verdict[r]
         \/ mode[r] = "replay" /\ Leave(r)
  BY <1>1, FailTypes DEF ApplyInv
<1>3. CASE mode[r] = "replay" /\ Leave(r)
  <2>1. ~Executing(r)' /\ ~Executing(r)
    BY <1>3, LeaveTypes DEF ApplyInv, Executing
  <2>2. Quiet(r)
    BY <1>2, <2>1 DEF Quiet
  <2>3. Serves(r)'
    BY <1>3, IdleServes DEF ApplyInv, Served, ApplyTypeOK
  <2> QED  BY <2>1, <2>2, <2>3, QuietHolds
<1>4. CASE /\ mode[r] \in {"first", "recover"} /\ mode'[r] = mode[r]
           /\ pc'[r] = "finish" /\ seen'[r] = seen[r]
           /\ verdict'[r] = IF mode[r] = "first" THEN v ELSE verdict[r]
  <2>1. Executing(r)' /\ Executing(r)
    BY <1>4 DEF Executing
  <2>2. Quiet(r)
    BY <1>2, <2>1 DEF Quiet
  <2>3. verdict'[r] \in {"FAILED", "NEEDS_RECONCILIATION"}
    BY <1>1, <1>4 DEF Serves, Shape
  <2>4. Shape(r)'
    BY <1>4, <2>3 DEF Shape, Nothing
  <2>5. Reports(r)'
    BY <1>4, <2>3 DEF Reports
  <2>6. Honest(r)'
    BY <1>1, <1>4, <2>1 DEF Serves, Honest
  <2>7. Knows(r)' /\ Executes(r)' /\ Replays(r)'
    BY <1>4, <2>1, <2>2, <2>4, ExecutorServes
  <2>8. Serves(r)'
    BY <2>4, <2>5, <2>6, <2>7 DEF Serves
  <2> QED  BY <2>1, <2>2, <2>8, QuietHolds
<1> QED  BY <1>2, <1>3, <1>4

\* A step of an executor that stays one, at the revision it knows.
LEMMA ExecutorHolds ==
    ASSUME ApplyInv, NEW r \in Request, Executing(r), Beside(r), ApplyTypeOK',
           mode'[r] \in {"first", "recover"}, seen'[r] = seen[r], pc[r] # "reread",
           job' = job, overtaken' = overtaken, faults' = faults,
           committed => committed', projected => projected', projected' => committed',
           Shape(r)', Reports(r)', Honest(r)'
    PROVE  ApplyInv'
<1>1. Executing(r)'
  BY DEF Executing
<1>2. Quiet(r)
  BY DEF Quiet
<1>3. Serves(r)'
  BY <1>1, <1>2, ExecutorServes DEF Serves
<1> QED  BY <1>1, <1>2, <1>3, QuietHolds

LEMMA ReconcileHolds ==
    ASSUME ApplyInv, NEW r \in Request, Reconcile(r)
    PROVE  ApplyInv'
<1>1. Serves(r) /\ ApplyTypeOK /\ (projected => committed)
  BY DEF ApplyInv, Served
<1>2. /\ pc[r] = "reconcile"
      /\ job' = job /\ overtaken' = overtaken /\ faults' = faults
      /\ committed' = committed /\ (projected => projected') /\ Missing' = Missing
      /\ UNCHANGED <<abandoned, abandoner, prepared, recorded, children, committer>>
  BY DEF Reconcile, Missing, disturbed
<1>3. CASE (projected \/ committed) /\ projected' = TRUE /\ Goto(r, "children")
           /\ UNCHANGED <<mode, seen, verdict>>
  <2>1. committed /\ pc'[r] = "children"
    BY <1>1, <1>3 DEF Goto, ApplyTypeOK
  <2>2. ApplyTypeOK' /\ Beside(r)
    BY <1>1, <1>2, <1>3, ControlTypes DEF ApplyTypeOK, PC
  <2>3. Shape(r)' /\ Reports(r)'
    BY <1>1, <1>2, <1>3, <2>1 DEF Serves, Shape, Reports, Nothing
  <2>4. CASE Executing(r)
    <3>1. mode[r] \in {"first", "recover"}
      BY <1>2, <2>4 DEF Executing
    <3>2. Honest(r)'
      BY <1>1, <1>2, <1>3, <2>1, <2>4 DEF Serves, Honest, Executing
    <3> QED  BY <1>2, <1>3, <2>1, <2>2, <2>3, <2>4, <3>1, <3>2, ExecutorHolds
  <2>5. CASE ~Executing(r)
    <3>1. ~Executing(r)'
      BY <1>2, <1>3, <2>1, <2>5 DEF Executing
    <3>2. Quiet(r)
      BY <1>2, <2>2, <3>1 DEF Quiet
    <3>3. Knows(r)' /\ Replays(r)'
      BY <1>1, <1>2, <1>3, <2>1 DEF Serves, Knows, Replays
    <3>4. Serves(r)'
      BY <2>3, <3>1, <3>3, BystanderServes DEF Serves
    <3> QED  BY <1>2, <2>1, <2>5, <3>2, <3>4, QuietHolds
  <2> QED  BY <2>4, <2>5
<1>4. CASE ~projected /\ ~committed /\ UNCHANGED projected
           /\ mode[r] = "first" /\ Goto(r, "capture") /\ UNCHANGED <<mode, seen, verdict>>
  <2>1. pc'[r] = "capture" /\ Executing(r)
    BY <1>1, <1>4 DEF Goto, ApplyTypeOK, Executing
  <2>2. ApplyTypeOK' /\ Beside(r)
    BY <1>1, <1>2, <1>4, ControlTypes DEF ApplyTypeOK, PC
  <2>3. Shape(r)' /\ Reports(r)'
    BY <1>1, <1>2, <1>4, <2>1 DEF Serves, Shape, Reports, Nothing
  <2>4. Honest(r)'
    BY <1>2, <1>4 DEF Honest
  <2> QED  BY <1>2, <1>4, <2>1, <2>2, <2>3, <2>4, ExecutorHolds
<1>5. ASSUME NEW v \in {Nothing, "FAILED", "NEEDS_RECONCILIATION"},
             v = Nothing => mode[r] # "first", ReconcileFails(r, v), UNCHANGED projected
      PROVE  ApplyInv'
  <2>1. \E w \in {"FAILED", "NEEDS_RECONCILIATION"} : ReconcileFails(r, w)
    BY <1>5 DEF ReconcileFails
  <2>2. PICK w \in {"FAILED", "NEEDS_RECONCILIATION"} : ReconcileFails(r, w)
    BY <2>1
  <2>3. ApplyTypeOK'
    BY <1>1, <1>2, <1>5, <2>2, FailTypes DEF ApplyTypeOK, Verdicts
  <2> QED  BY <1>1, <1>2, <1>5, <2>2, <2>3, FailHolds
<1>6. CASE UNCHANGED projected /\ mode[r] # "first" /\ ReconcileFails(r, Nothing)
  BY <1>5, <1>6
<1>7. CASE UNCHANGED projected /\ ReconcileFails(r, "NEEDS_RECONCILIATION")
  BY <1>5, <1>7 DEF Nothing
<1>8. CASE UNCHANGED projected /\ ReconcileFails(r, "FAILED")
  BY <1>5, <1>8 DEF Nothing
<1> QED  BY <1>3, <1>4, <1>6, <1>7, <1>8 DEF Reconcile, ReconcileNotFound

LEMMA CloseChildHolds ==
    ASSUME ApplyInv, NEW r \in Request, CloseChild(r)
    PROVE  ApplyInv'
<1>1. Serves(r) /\ ApplyTypeOK /\ (projected => committed)
  BY DEF ApplyInv, Served
<1>2. /\ pc[r] = "children"
      /\ job' = job /\ overtaken' = overtaken /\ faults' = faults
      /\ committed' = committed /\ projected' = projected
      /\ UNCHANGED <<abandoned, abandoner, prepared, recorded, committer>>
  BY DEF CloseChild, disturbed
<1>3. children \subseteq children' /\ children' \subseteq Closures
  BY <1>1 DEF CloseChild, ApplyTypeOK, Closures, NextMissing
<1>4. Missing = {} => Missing' = {}
  BY <1>2, <1>3 DEF Missing
<1>5. ASSUME NEW v \in {"FAILED", "NEEDS_RECONCILIATION"}, ReconcileFails(r, v)
      PROVE  ApplyInv'
  <2>1. ApplyTypeOK'
    BY <1>1, <1>2, <1>3, <1>5, FailTypes DEF ApplyTypeOK, Verdicts
  <2> QED  BY <1>1, <1>2, <1>4, <1>5, <2>1, FailHolds
<1>6. CASE UNCHANGED <<pc, mode, seen, verdict>>
  <2>1. ApplyTypeOK' /\ Beside(r)
    BY <1>1, <1>2, <1>3, <1>6 DEF ApplyTypeOK, Beside
  <2>2. Executing(r)' <=> Executing(r)
    BY <1>6 DEF Executing
  <2>3. Quiet(r)
    BY <1>2, <1>4, <2>1, <2>2 DEF Quiet
  <2>4. Shape(r)' /\ Reports(r)' /\ Knows(r)' /\ Replays(r)' /\ Honest(r)'
    BY <1>1, <1>2, <1>4, <1>6, <2>2 DEF Serves, Shape, Reports, Knows, Replays, Honest
  <2>5. \A q \in Request : Executing(q)' => Executing(q)
    BY <1>6 DEF Executing
  <2>6. Executes(r)'
    BY <1>1, <1>2, <1>6, <2>2, <2>5 DEF Serves, Executes
  <2>7. Serves(r)'
    BY <2>4, <2>6 DEF Serves
  <2> QED  BY <1>1, <1>2, <2>2, <2>3, <2>7, QuietHolds
<1> QED  BY <1>5, <1>6 DEF CloseChild

LEMMA CompleteHolds ==
    ASSUME ApplyInv, NEW r \in Request, Complete(r)
    PROVE  ApplyInv'
<1>1. Serves(r) /\ ApplyTypeOK /\ (projected => committed)
  BY DEF ApplyInv, Served
<1>2. /\ pc[r] = "children" /\ pc'[r] = "finish" /\ verdict'[r] = "SUCCEEDED"
      /\ mode'[r] = mode[r] /\ seen'[r] = seen[r] /\ Missing = {} /\ Missing' = Missing
      /\ job' = job /\ overtaken' = overtaken /\ faults' = faults
      /\ committed' = committed /\ projected' = projected
  BY <1>1 DEF Complete, AllClosed, Goto, Decide, ApplyTypeOK, Missing, durable, disturbed
<1>3. ApplyTypeOK' /\ Beside(r)
  BY <1>1, ControlTypes DEF Complete, ApplyTypeOK, PC, Verdicts, durable, disturbed
<1>4. Shape(r)' /\ Reports(r)'
  BY <1>1, <1>2 DEF Serves, Shape, Reports, Nothing
<1>5. CASE Executing(r)
  <2>1. mode[r] \in {"first", "recover"} /\ Honest(r)'
    BY <1>1, <1>2, <1>5 DEF Serves, Honest, Executing
  <2> QED  BY <1>1, <1>2, <1>3, <1>4, <1>5, <2>1, ExecutorHolds
<1>6. CASE ~Executing(r)
  <2>1. ~Executing(r)'
    BY <1>2, <1>6 DEF Executing
  <2>2. Quiet(r)
    BY <1>2, <1>3, <2>1 DEF Quiet
  <2>3. Knows(r)' /\ Replays(r)'
    BY <1>1, <1>2 DEF Serves, Knows, Replays
  <2>4. Serves(r)'
    BY <1>4, <2>1, <2>3, BystanderServes DEF Serves
  <2> QED  BY <1>1, <1>2, <1>6, <2>2, <2>4, QuietHolds
<1> QED  BY <1>5, <1>6

\* An execution that fails is followed by a reconciliation, and reports what it
\* decided only when that finds nothing.
LEMMA ExecutionFailsHolds ==
    ASSUME ApplyInv, NEW r \in Request, NEW v \in {"FAILED", "NEEDS_RECONCILIATION"},
           ExecutionFails(r, v), seen' = seen,
           pc[r] \in {"capture", "publish", "commit"},
           job' = job, overtaken' = overtaken, faults' = faults,
           committed => committed', projected' = projected,
           v = "FAILED" => committed' = committed,
           UNCHANGED <<abandoned, abandoner, recorded, children>>,
           prepared' \in 0..2, committed' \in BOOLEAN, committer' \in Request \cup {Nothing}
    PROVE  ApplyInv'
<1>1. Serves(r) /\ ApplyTypeOK /\ (projected => committed)
  BY DEF ApplyInv, Served
<1>2. v \in Verdicts /\ pc'[r] = "reconcile" /\ mode'[r] = "recover" /\ verdict'[r] = v
  BY <1>1 DEF ExecutionFails, Goto, SetMode, Decide, ApplyTypeOK, Verdicts
<1>3. ApplyTypeOK' /\ Beside(r)
  BY <1>1, <1>2, ControlTypes DEF ExecutionFails, ApplyTypeOK, PC
<1>4. mode[r] = "first" /\ Executing(r)
  BY <1>1 DEF Serves, Shape, Executing
<1>5. Shape(r)' /\ Reports(r)'
  BY <1>2 DEF Shape, Reports, Nothing
<1>6. Honest(r)'
  BY <1>1, <1>2 DEF Serves, Honest
<1> QED  BY <1>1, <1>2, <1>3, <1>4, <1>5, <1>6, ExecutorHolds

LEMMA CaptureHolds ==
    ASSUME ApplyInv, NEW r \in Request, Capture(r)
    PROVE  ApplyInv'
<1>1. Serves(r) /\ ApplyTypeOK /\ (projected => committed)
  BY DEF ApplyInv, Served
<1>2. CASE ExecutionFails(r, "FAILED")
  BY <1>1, <1>2, ExecutionFailsHolds DEF Capture, ApplyTypeOK, durable, disturbed
<1>3. CASE Goto(r, "publish") /\ UNCHANGED <<mode, verdict>>
  <2>1. pc[r] = "capture" /\ pc'[r] = "publish"
    BY <1>1, <1>3 DEF Capture, Goto, ApplyTypeOK
  <2>2. ApplyTypeOK' /\ Beside(r)
    BY <1>1, <1>3, ControlTypes DEF Capture, ApplyTypeOK, PC, durable, disturbed
  <2>3. mode[r] = "first" /\ Executing(r)
    BY <1>1, <2>1 DEF Serves, Shape, Executing
  <2>4. Shape(r)' /\ Reports(r)' /\ Honest(r)'
    BY <1>1, <1>3, <2>1, <2>3 DEF Capture, Serves, Shape, Reports, Honest, Executing, Nothing, durable,
       disturbed
  <2> QED  BY <1>1, <1>3, <2>1, <2>2, <2>3, <2>4, ExecutorHolds DEF Capture, durable, disturbed
<1> QED  BY <1>2, <1>3 DEF Capture

LEMMA PlacePreparedHolds ==
    ASSUME ApplyInv, NEW r \in Request, PlacePrepared(r)
    PROVE  ApplyInv'
<1>1. Serves(r) /\ ApplyTypeOK /\ (projected => committed)
  BY DEF ApplyInv, Served
<1>2. /\ pc[r] = "publish" /\ committed' = committed /\ projected' = projected
      /\ UNCHANGED <<job, abandoned, abandoner, recorded, children, seen, overtaken, faults>>
  BY DEF PlacePrepared, disturbed
<1>3. prepared' \in 0..2 /\ committer' \in Request \cup {Nothing}
  BY <1>1 DEF PlacePrepared, ApplyTypeOK
<1>4. ASSUME NEW v \in {"FAILED", "NEEDS_RECONCILIATION"}, ExecutionFails(r, v)
      PROVE  ApplyInv'
  BY <1>1, <1>2, <1>3, <1>4, ExecutionFailsHolds DEF ApplyTypeOK
<1>5. CASE Goto(r, "commit") /\ UNCHANGED <<mode, verdict>>
  <2>1. pc'[r] = "commit"
    BY <1>1, <1>5 DEF Goto, ApplyTypeOK
  <2>2. ApplyTypeOK' /\ Beside(r)
    BY <1>1, <1>2, <1>3, <1>5, ControlTypes DEF ApplyTypeOK, PC
  <2>3. mode[r] = "first" /\ Executing(r)
    BY <1>1, <1>2 DEF Serves, Shape, Executing
  <2>4. Shape(r)' /\ Reports(r)' /\ Honest(r)'
    BY <1>1, <1>2, <1>5, <2>1, <2>3 DEF Serves, Shape, Reports, Honest, Executing, Nothing
  <2> QED  BY <1>1, <1>2, <1>5, <2>1, <2>2, <2>3, <2>4, ExecutorHolds
<1> QED  BY <1>4, <1>5 DEF PlacePrepared

LEMMA PlaceCommitHolds ==
    ASSUME ApplyInv, NEW r \in Request, PlaceCommit(r)
    PROVE  ApplyInv'
<1>1. Serves(r) /\ ApplyTypeOK /\ (projected => committed)
  BY DEF ApplyInv, Served
<1>2. /\ pc[r] = "commit" /\ committer' = Nothing /\ prepared' = prepared
      /\ projected' = projected
      /\ UNCHANGED <<job, abandoned, abandoner, recorded, children, seen, overtaken, faults>>
  BY DEF PlaceCommit, disturbed
<1>3. CASE committed' = TRUE /\ Goto(r, "project") /\ UNCHANGED <<mode, verdict>>
  <2>1. pc'[r] = "project"
    BY <1>1, <1>3 DEF Goto, ApplyTypeOK
  <2>2. ApplyTypeOK' /\ Beside(r)
    BY <1>1, <1>2, <1>3, ControlTypes DEF ApplyTypeOK, PC
  <2>3. mode[r] = "first" /\ verdict[r] = Nothing /\ Executing(r)
    BY <1>1, <1>2 DEF Serves, Shape, Executing
  <2>4. Shape(r)' /\ Reports(r)' /\ Honest(r)'
    BY <1>1, <1>2, <1>3, <2>1, <2>3 DEF Serves, Shape, Reports, Honest, Executing, Nothing
  <2> QED  BY <1>1, <1>2, <1>3, <2>1, <2>2, <2>3, <2>4, ExecutorHolds
<1>4. CASE committed' \in {committed, TRUE} /\ ExecutionFails(r, LostAnswer)
  <2>0. committed' = committed \/ committed' = TRUE
    BY <1>4
  <2>1. committed' \in BOOLEAN /\ (committed => committed')
    BY <1>1, <2>0 DEF ApplyTypeOK
  <2> QED  BY <1>1, <1>2, <1>4, <2>1, ExecutionFailsHolds DEF ApplyTypeOK, LostAnswer
<1>5. CASE UNCHANGED committed /\ ExecutionFails(r, "FAILED")
  BY <1>1, <1>2, <1>5, ExecutionFailsHolds DEF ApplyTypeOK
<1> QED  BY <1>3, <1>4, <1>5 DEF PlaceCommit

LEMMA ProjectHolds ==
    ASSUME ApplyInv, NEW r \in Request, Project(r)
    PROVE  ApplyInv'
<1>1. Serves(r) /\ ApplyTypeOK
  BY DEF ApplyInv
<1>2. /\ pc[r] = "project" /\ mode'[r] = mode[r] /\ seen'[r] = seen[r]
      /\ committed' = committed /\ (projected => projected') /\ projected' \in BOOLEAN
      /\ UNCHANGED <<job, abandoned, abandoner, prepared, recorded, children, committer,
                     mode, seen, overtaken, faults>>
  BY <1>1 DEF Project, ApplyTypeOK, disturbed
<1>3. mode[r] = "first" /\ verdict[r] = Nothing /\ Executing(r) /\ committed
  BY <1>1, <1>2 DEF Serves, Shape, Reports, Executing
<1>4. \/ projected' = TRUE /\ pc'[r] = "process" /\ verdict' = verdict /\ Goto(r, "process")
      \/ /\ pc'[r] = "finish" /\ verdict'[r] = "NEEDS_RECONCILIATION"
         /\ Goto(r, "finish") /\ Decide(r, "NEEDS_RECONCILIATION")
  BY <1>1 DEF Project, Goto, Decide, ApplyTypeOK, ProjectionLost
<1>5. ApplyTypeOK' /\ Beside(r)
  BY <1>1, <1>2, <1>4, ControlTypes DEF ApplyTypeOK, PC, Verdicts
<1>6. Shape(r)' /\ Reports(r)' /\ Honest(r)'
  BY <1>2, <1>3, <1>4 DEF Shape, Reports, Honest, Nothing
<1> QED  BY <1>2, <1>3, <1>5, <1>6, ExecutorHolds

LEMMA ProcessHolds ==
    ASSUME ApplyInv, NEW r \in Request, Process(r)
    PROVE  ApplyInv'
<1>1. Serves(r) /\ ApplyTypeOK
  BY DEF ApplyInv
<1>2. /\ pc[r] = "process" /\ Goto(r, "finish")
      /\ committed' = committed /\ projected' = projected
      /\ recorded' \in BOOLEAN /\ children' \subseteq Closures
      /\ UNCHANGED <<job, abandoned, abandoner, prepared, committer, mode, seen,
                     overtaken, faults>>
  BY <1>1 DEF Process, ApplyTypeOK, disturbed
<1>3. PICK v \in {"SUCCEEDED", "NEEDS_RECONCILIATION"} : Decide(r, v)
  BY DEF Process
<1>4. pc'[r] = "finish" /\ verdict'[r] = v
  BY <1>1, <1>2, <1>3 DEF Goto, Decide, ApplyTypeOK
<1>5. ApplyTypeOK' /\ Beside(r)
  BY <1>1, <1>2, <1>3, ControlTypes DEF ApplyTypeOK, PC, Verdicts
<1>6. mode[r] = "first" /\ Executing(r) /\ committed /\ projected
  BY <1>1, <1>2 DEF Serves, Shape, Reports, Executing
<1>7. Shape(r)' /\ Reports(r)' /\ Honest(r)'
  BY <1>2, <1>4, <1>6 DEF Shape, Reports, Honest, Nothing
<1> QED  BY <1>2, <1>5, <1>6, <1>7, ExecutorHolds

LEMMA FinishLostHolds ==
    ASSUME ApplyInv, NEW r \in Request, FinishLost(r)
    PROVE  ApplyInv'
<1>1. Leave(r) /\ faults' \in 0..MaxFaults /\ faults' # 0
  BY MaxFaultsAssumption DEF FinishLost, Disturb, ApplyInv, ApplyTypeOK
<1>2. UNCHANGED <<job, abandoned, abandoner, prepared, committed, projected, recorded,
                  children, committer, overtaken>>
  BY DEF FinishLost, durable
<1>3. ApplyTypeOK' /\ Beside(r) /\ ~Executing(r)'
  BY <1>1, <1>2, LeaveTypes DEF ApplyInv, ApplyTypeOK
<1>4. Quiet(r)
  BY <1>1, <1>2, <1>3 DEF Quiet, Missing
<1>5. Serves(r)'
  BY <1>1, <1>2, IdleServes DEF ApplyInv, Served, ApplyTypeOK
<1> QED  BY <1>1, <1>2, <1>4, <1>5, QuietHolds DEF ApplyInv, Served

-----------------------------------------------------------------------------
(* The steps that move the job's revision *)

\* The job moves to a later revision, which q does not know, and if q executes
\* it has been overtaken.
MovesPast(q) ==
  /\ pc'[q] = pc[q] /\ mode'[q] = mode[q] /\ seen'[q] = seen[q] /\ verdict'[q] = verdict[q]
  /\ job'.revision = job.revision + 1
  /\ committed' = committed /\ projected' = projected /\ Missing' = Missing
  /\ job.state \in Terminal => job'.state \in Terminal
  /\ ~overtaken' => ~overtaken /\ ~Executing(q)
  /\ faults' = 0 => faults = 0
  /\ job'.state = "NEEDS_RECONCILIATION" =>
       job.state = "NEEDS_RECONCILIATION" \/ job.state = "RUNNING"

LEMMA MovesPastServes ==
    ASSUME ApplyInv, NEW q \in Request, MovesPast(q)
    PROVE  Serves(q)'
<1>1. Serves(q) /\ job.revision \in Nat /\ seen[q] \in Nat
  BY DEF ApplyInv, ApplyTypeOK
<1>2. pc'[q] = pc[q] /\ mode'[q] = mode[q] /\ seen'[q] = seen[q] /\ verdict'[q] = verdict[q]
  BY DEF MovesPast
<1>3. Executing(q)' = Executing(q)
  BY <1>2 DEF Executing
<1>4. Shape(q)' /\ Reports(q)'
  BY <1>1, <1>2 DEF MovesPast, Serves, Shape, Reports
<1>5. Knows(q)'
  BY <1>1, <1>2 DEF MovesPast, Serves, Knows, JobTerminal
<1>6. Executes(q)'
  BY <1>3 DEF MovesPast, Executes
<1>7. Replays(q)'
  <2> SUFFICES ASSUME ~overtaken', job'.state = "NEEDS_RECONCILIATION", pc[q] = "finish"
               PROVE  Missing = {}
    BY <1>2 DEF Replays, MovesPast
  <2>1. mode[q] = "replay"
    BY <1>1 DEF MovesPast, Serves, Shape, Executing, ApplyInv, ApplyTypeOK
  <2>2. job.state = "NEEDS_RECONCILIATION" /\ ~overtaken
    BY <1>1, <2>1 DEF MovesPast, Serves, Knows, JobTerminal, Terminal, Settled
  <2> QED  BY <1>1, <2>2 DEF Serves, Replays
<1>8. Honest(q)'
  BY <1>1, <1>2, <1>3 DEF MovesPast, Serves, Honest
<1> QED  BY <1>4, <1>5, <1>6, <1>7, <1>8 DEF Serves

LEMMA InsertJobHolds ==
    ASSUME ApplyInv, NEW r \in Request, InsertJob(r)
    PROVE  ApplyInv'
<1>1. Serves(r) /\ ApplyTypeOK /\ Served
  BY DEF ApplyInv
<1>2. /\ pc[r] = "find" /\ job.state = Nothing
      /\ job' = [state |-> "QUEUED", revision |-> 1, attempt |-> 0, fence |-> 0, leased |-> FALSE]
      /\ UNCHANGED <<abandoned, abandoner, prepared, committed, projected, recorded, children,
                     committer, pc, mode, seen, verdict, overtaken, faults>>
  BY DEF InsertJob, NoJob, durable, disturbed
<1>3. ApplyTypeOK'
  BY <1>1, <1>2, MaxAttemptsAssumption DEF ApplyTypeOK, JobStates
<1>4. ASSUME NEW q \in Request
      PROVE  Serves(q)'
  <2>1. Serves(q) /\ seen[q] \in Nat
    BY <1>1 DEF ApplyInv, ApplyTypeOK
  <2>2. Shape(q)' /\ Reports(q)' /\ Replays(q)'
    BY <1>2, <2>1 DEF Serves, Shape, Reports, Replays
  <2>3. Executing(q)' = Executing(q)
    BY <1>2 DEF Executing
  <2>4. Honest(q)'
    BY <1>2, <2>1, <2>3 DEF Serves, Honest
  <2>5. ~overtaken => ~Executing(q)
    BY <1>2, ExecutorRuns DEF Nothing
  <2>6. Executes(q)'
    BY <1>2, <2>3, <2>5 DEF Executes
  <2>7. ~JobTerminal(job.state) /\ seen[q] <= job.revision
    BY <1>2, <2>1 DEF JobTerminal, Terminal, Settled, Nothing, Serves, Knows
  <2>8. mode[q] # "replay"
    BY <2>1, <2>7 DEF Serves, Knows
  <2>9. Knows(q)'
    <3>1. job.revision = 0
      BY <1>1, <1>2 DEF Served
    <3> QED  BY <1>2, <2>1, <2>7, <2>8, <3>1 DEF Knows
  <2> QED  BY <2>2, <2>4, <2>6, <2>9 DEF Serves
<1>5. Served'
  BY <1>1, <1>2 DEF Served, LeaseRuns, SucceededIsPublished, UndisturbedFailureIsHonest,
     Undisturbed, Nothing
<1> QED  BY <1>3, <1>4, <1>5 DEF ApplyInv

LEMMA AcquireLeaseHolds ==
    ASSUME ApplyInv, NEW r \in Request, AcquireLease(r)
    PROVE  ApplyInv'
<1>1. Serves(r) /\ ApplyTypeOK /\ Served
  BY DEF ApplyInv
<1>2. /\ pc[r] = "lease"
      /\ UNCHANGED <<abandoned, abandoner, prepared, committed, projected, recorded, children,
                     committer, overtaken, faults>>
  BY DEF AcquireLease, durable, disturbed
<1>3. ~Executing(r) /\ mode[r] = Nothing /\ verdict[r] = Nothing
  BY <1>1, <1>2 DEF Serves, Shape, Executing, Nothing
<1>4. CASE Leave(r) /\ UNCHANGED job
  <2>1. ApplyTypeOK' /\ Beside(r) /\ ~Executing(r)'
    BY <1>1, <1>2, <1>4, LeaveTypes DEF ApplyTypeOK
  <2>2. Quiet(r)
    BY <1>2, <1>4, <2>1 DEF Quiet, Missing
  <2>3. Serves(r)'
    BY <1>1, <1>4, IdleServes DEF Served, ApplyTypeOK
  <2> QED  BY <1>1, <1>2, <1>3, <2>2, <2>3, QuietHolds DEF Served
<1>5. CASE /\ Leasable(r)
           /\ job' = [state |-> "RUNNING", revision |-> job.revision + 1,
                      attempt |-> job.attempt + 1, fence |-> job.fence + 1,
                      leased |-> TRUE]
           /\ Goto(r, "reread") /\ UNCHANGED <<mode, seen, verdict>>
  <2>1. /\ job.state \in {"QUEUED", "RUNNING"} /\ ~job.leased
        /\ job.attempt \in 0..MaxAttempts /\ job.attempt < MaxAttempts
        /\ job.revision \in Nat /\ job.fence \in Nat /\ seen[r] = job.revision
    BY <1>1, <1>2, <1>5 DEF Leasable, Serves, Knows, ApplyTypeOK
  <2>2. pc'[r] = "reread"
    BY <1>1, <1>5 DEF Goto, ApplyTypeOK
  <2>3. job' \in [state: JobStates, revision: Nat, attempt: 0..MaxAttempts,
                  fence: Nat, leased: BOOLEAN]
    BY <1>5, <2>1, MaxAttemptsAssumption DEF JobStates
  <2>4. ApplyTypeOK' /\ Beside(r)
    BY <1>1, <1>2, <1>5, <2>3, ControlTypes DEF ApplyTypeOK, PC
  <2>5. ~overtaken => \A q \in Request : ~Executing(q)
    BY <2>1, ExecutorRuns
  <2>6. \A q \in Request \ {r} : MovesPast(q)
    BY <1>2, <1>5, <2>1, <2>4, <2>5 DEF MovesPast, Beside, Missing, Terminal, Settled
  <2>7. faults = 0 => ~committed /\ ~overtaken /\ job.state = "QUEUED"
    BY <1>1, <2>1, <2>5 DEF Served, Undisturbed
  <2>8. Shape(r)' /\ Reports(r)'
    BY <1>3, <1>5, <2>2 DEF Shape, Reports, Nothing
  <2>9. Knows(r)' /\ Replays(r)' /\ Honest(r)'
    BY <1>2, <1>3, <1>5, <2>1, <2>2, <2>7 DEF Knows, Replays, Honest, Nothing
  <2>10. \A q \in Request : ~overtaken /\ Executing(q)' => q = r
    BY <2>4, <2>5 DEF Beside, Executing
  <2>11. Executes(r)'
    BY <1>2, <1>5, <2>2, <2>10 DEF Executes
  <2>12. Serves(r)'
    BY <2>8, <2>9, <2>11 DEF Serves
  <2>13. Executing(r)'
    BY <2>2 DEF Executing
  <2>14. Served'
    BY <1>1, <1>2, <1>5, <2>1, <2>7, <2>13 DEF Served, LeaseRuns, SucceededIsPublished,
       UndisturbedFailureIsHonest, Undisturbed, Nothing
  <2> QED  BY <2>4, <2>6, <2>12, <2>14, MovesPastServes DEF ApplyInv
<1> QED  BY <1>4, <1>5 DEF AcquireLease

LEMMA FinishHolds ==
    ASSUME ApplyInv, NEW r \in Request, Finish(r)
    PROVE  ApplyInv'
<1>1. Serves(r) /\ ApplyTypeOK /\ Served
  BY DEF ApplyInv
<1>2. /\ pc[r] = "finish" /\ Leave(r)
      /\ UNCHANGED <<abandoned, abandoner, prepared, committed, projected, recorded, children,
                     committer, overtaken, faults>>
  BY DEF Finish, durable, disturbed
<1>3. /\ Beside(r) /\ ~Executing(r)'
      /\ job'= job => ApplyTypeOK'
  BY <1>1, <1>2, LeaveTypes DEF ApplyTypeOK
<1>4. Executing(r) \/ mode[r] = "replay"
  BY <1>1, <1>2 DEF Serves, Shape, Executing, ApplyTypeOK, Nothing
<1>5. verdict[r] \in {"SUCCEEDED", "FAILED", "NEEDS_RECONCILIATION"}
  BY <1>1, <1>2 DEF Serves, Shape, ApplyTypeOK, Verdicts
<1>6. mode[r] = "replay" => JobTerminal(job.state)
  BY <1>1 DEF Serves, Knows
<1>7. CASE job.revision = seen[r] /\ ValidTransition(job.state, verdict[r])
  <2>1. job' = [state |-> verdict[r], revision |-> job.revision + 1, attempt |-> job.attempt,
                fence |-> job.fence, leased |-> FALSE]
    BY <1>7 DEF Finish, Updated
  <2>2. job.revision \in Nat /\ job' \in [state: JobStates, revision: Nat,
          attempt: 0..MaxAttempts, fence: Nat, leased: BOOLEAN]
    BY <1>1, <1>5, <2>1 DEF ApplyTypeOK, JobStates, Terminal, Settled
  <2>3. ApplyTypeOK'
    BY <1>1, <1>2, <2>2, LeaveTypes DEF ApplyTypeOK
  <2>4. job.state \in Terminal \/ job.state = "RUNNING"
    BY <1>5, <1>7 DEF ValidTransition, Terminal, Settled
  <2>5. ~overtaken => \A q \in Request \ {r} : ~Executing(q)
    <3> SUFFICES ASSUME ~overtaken, NEW q \in Request \ {r}, Executing(q)
                 PROVE  FALSE
      OBVIOUS
    <3>1. job.leased /\ job.state = "RUNNING" /\ ~Executing(r)
      BY ExecutorRuns
    <3> QED  BY <1>4, <1>6, <3>1 DEF JobTerminal, Terminal, Settled
  <2>6. job'.state \in Terminal /\ job'.state # Nothing
    BY <1>5, <2>1 DEF Terminal, Settled, Nothing
  <2>7. job'.state = "NEEDS_RECONCILIATION" =>
          job.state = "NEEDS_RECONCILIATION" \/ job.state = "RUNNING"
    BY <1>7, <2>1 DEF ValidTransition
  <2>8. \A q \in Request \ {r} : MovesPast(q)
    BY <1>2, <1>3, <2>1, <2>5, <2>6, <2>7 DEF MovesPast, Beside, Missing
  <2>9. Serves(r)'
    BY <1>2, <2>1, <2>2, IdleServes
  <2>10. verdict[r] = "SUCCEEDED" => committed /\ projected
    BY <1>1 DEF Serves, Reports
  <2>11. faults = 0 /\ verdict[r] = "FAILED" => ~committed
    BY <1>1, <1>2, <1>4 DEF Serves, Shape, Honest
  <2>12. Served'
    BY <1>1, <1>2, <1>5, <2>1, <2>2, <2>10, <2>11 DEF Served, LeaseRuns, SucceededIsPublished,
       UndisturbedFailureIsHonest, Undisturbed, Nothing
  <2> QED  BY <2>3, <2>8, <2>9, <2>12, MovesPastServes DEF ApplyInv
<1>8. CASE ~(job.revision = seen[r] /\ ValidTransition(job.state, verdict[r]))
  <2>1. job' = job
    BY <1>8 DEF Finish
  <2>2. Quiet(r)
    BY <1>2, <1>3, <2>1 DEF Quiet, Missing
  <2>3. Serves(r)'
    BY <1>1, <1>2, <2>1, IdleServes DEF Served, ApplyTypeOK
  <2>4. ~(faults = 0 /\ Executing(r))
    <3> SUFFICES ASSUME faults = 0, Executing(r)
                 PROVE  FALSE
      OBVIOUS
    <3>1. ~overtaken
      BY <1>1 DEF Served, Undisturbed
    <3>2. job.state = "RUNNING"
      BY <3>1, ExecutorRuns
    <3>3. seen[r] = job.revision
      BY <1>1, <1>2, <3>1 DEF Serves, Executes
    <3> QED  BY <1>8, <3>2, <3>3 DEF ValidTransition
  <2> QED  BY <1>1, <1>2, <2>2, <2>3, <2>4, QuietHolds DEF Served
<1> QED  BY <1>7, <1>8

LEMMA CancelJobHolds ==
    ASSUME ApplyInv, CancelJob
    PROVE  ApplyInv'
<1>1. ApplyTypeOK /\ Served
  BY DEF ApplyInv
<1>2. /\ UNCHANGED <<abandoned, abandoner, prepared, committed, projected, recorded, children,
                     committer, pc, mode, seen, verdict>>
      /\ faults' \in 0..MaxFaults /\ faults' # 0
      /\ job.state # Nothing /\ ~JobTerminal(job.state)
      /\ overtaken' = (overtaken \/ \E r \in Request : Executing(r))
  BY <1>1, MaxFaultsAssumption DEF CancelJob, Disturb, durable, ApplyTypeOK
<1>3. job.state \in {"QUEUED", "RUNNING"}
  BY <1>1, <1>2 DEF ApplyTypeOK, JobStates, JobTerminal
<1>4. PICK s \in {"CANCELLED", "RUNNING"} :
        /\ job' = [state |-> s, revision |-> job.revision + 1, attempt |-> job.attempt,
                   fence |-> job.fence, leased |-> FALSE]
        /\ s = "RUNNING" => job.state = "RUNNING"
  BY <1>3 DEF CancelJob, Updated
<1>5. job' \in [state: JobStates, revision: Nat, attempt: 0..MaxAttempts,
                fence: Nat, leased: BOOLEAN]
  BY <1>1, <1>4 DEF ApplyTypeOK, JobStates, Terminal, Settled
<1>6. overtaken' \in BOOLEAN
  BY <1>1, <1>2 DEF ApplyTypeOK
<1>7. ApplyTypeOK'
  BY <1>1, <1>2, <1>5, <1>6 DEF ApplyTypeOK
<1>8. \A q \in Request : MovesPast(q)
  BY <1>2, <1>4, <1>3 DEF MovesPast, Missing, JobTerminal
<1>9. Served'
  BY <1>1, <1>2, <1>4 DEF Served, LeaseRuns, SucceededIsPublished, UndisturbedFailureIsHonest,
     Undisturbed, Nothing, ApplyTypeOK
<1> QED  BY <1>7, <1>8, <1>9, MovesPastServes DEF ApplyInv

-----------------------------------------------------------------------------
(* The other disturbances *)

LEMMA LeaseRunsOutHolds ==
    ASSUME ApplyInv, LeaseRunsOut
    PROVE  ApplyInv'
<1>1. ApplyTypeOK /\ Served /\ job.leased /\ job.state = "RUNNING"
  BY DEF ApplyInv, Served, LeaseRuns, LeaseRunsOut
<1>2. /\ UNCHANGED <<abandoned, abandoner, prepared, committed, projected, recorded, children,
                     committer, pc, mode, seen, verdict>>
      /\ job'.state = job.state /\ job'.revision = job.revision /\ job'.leased = FALSE
      /\ job' \in [state: JobStates, revision: Nat, attempt: 0..MaxAttempts,
                    fence: Nat, leased: BOOLEAN]
  BY <1>1 DEF LeaseRunsOut, ApplyTypeOK, durable
<1>3. \A q \in Request : Executing(q)' = Executing(q)
  BY <1>2 DEF Executing
<1>4. /\ overtaken' \in BOOLEAN /\ faults' \in 0..MaxFaults
      /\ ~overtaken' => ~overtaken /\ \A q \in Request : ~Executing(q)
      /\ faults' = 0 => faults = 0 /\ \A q \in Request : ~Executing(q)
  <2>1. CASE \E r \in Request : Executing(r)
    <3>1. overtaken' = TRUE /\ faults' = faults + 1 /\ faults < MaxFaults
      BY <2>1 DEF LeaseRunsOut, Disturb
    <3>2. faults' \in 0..MaxFaults /\ faults' # 0
      BY <1>1, <3>1, MaxFaultsAssumption DEF ApplyTypeOK
    <3> QED  BY <3>1, <3>2
  <2>2. CASE ~\E r \in Request : Executing(r)
    BY <1>1, <2>2 DEF LeaseRunsOut, ApplyTypeOK, disturbed
  <2> QED  BY <2>1, <2>2
<1>5. faults' # 0
  BY <1>1, <1>4 DEF Served, Undisturbed
<1>6. ApplyTypeOK'
  BY <1>1, <1>2, <1>4 DEF ApplyTypeOK
<1>7. ASSUME NEW q \in Request
      PROVE  Serves(q)'
  <2>1. Serves(q)
    BY DEF ApplyInv
  <2>2. Shape(q)' /\ Reports(q)' /\ Knows(q)' /\ Replays(q)'
    BY <1>2, <1>1, <2>1 DEF Serves, Shape, Reports, Knows, Replays
  <2>3. Executes(q)' /\ Honest(q)'
    BY <1>3, <1>4, <1>5 DEF Executes, Honest
  <2> QED  BY <2>2, <2>3 DEF Serves
<1>8. Served'
  BY <1>1, <1>2, <1>5 DEF Served, LeaseRuns, SucceededIsPublished, UndisturbedFailureIsHonest,
     Undisturbed
<1> QED  BY <1>6, <1>7, <1>8 DEF ApplyInv

LEMMA KillHolds ==
    ASSUME ApplyInv, Kill
    PROVE  ApplyInv'
<1>1. ApplyTypeOK /\ Served
  BY DEF ApplyInv
<1>2. /\ UNCHANGED <<job, abandoned, prepared, committed, projected, recorded, children,
                     overtaken>>
      /\ faults' \in 0..MaxFaults /\ faults' # 0
  BY <1>1, MaxFaultsAssumption DEF Kill, Disturb, durable, ApplyTypeOK
<1>3. ApplyTypeOK'
  BY <1>1, <1>2 DEF Kill, ApplyTypeOK, PC, Verdicts
<1>4. ASSUME NEW q \in Request
      PROVE  Serves(q)'
  <2>1. /\ pc'[q] = "idle" /\ mode'[q] = Nothing /\ seen'[q] = 0 /\ verdict'[q] = Nothing
        /\ ~Executing(q)'
    BY DEF Kill, Executing, Nothing
  <2> QED  BY <1>1, <1>2, <2>1 DEF Serves, Shape, Reports, Knows, Executes, Replays, Honest,
              Nothing, Served, ApplyTypeOK
<1>5. Served'
  BY <1>1, <1>2 DEF Served, LeaseRuns, SucceededIsPublished, UndisturbedFailureIsHonest,
     Undisturbed
<1> QED  BY <1>3, <1>4, <1>5 DEF ApplyInv

\* Abandoning a plan, and a stuttering step, touch nothing that a request knows.
LEMMA AsideHolds ==
    ASSUME ApplyInv, abandoned' \in BOOLEAN, abandoner' \in BOOLEAN,
           UNCHANGED <<job, durable, committer, pc, mode, seen, verdict, disturbed>>
    PROVE  ApplyInv'
<1>1. ApplyTypeOK'
  BY DEF ApplyInv, ApplyTypeOK, durable, disturbed
<1>2. Served'
  BY DEF ApplyInv, Served, LeaseRuns, SucceededIsPublished, UndisturbedFailureIsHonest,
     Undisturbed, Executing, durable, disturbed
<1>3. ASSUME NEW q \in Request
      PROVE  Serves(q)'
  <2>1. Serves(q)
    BY DEF ApplyInv
  <2>2. \A p \in Request : Executing(p)' = Executing(p)
    BY DEF Executing
  <2>3. Executes(q)' /\ Honest(q)'
    BY <2>1, <2>2 DEF Serves, Executes, Honest, durable, disturbed
  <2> QED  BY <2>1, <2>3 DEF Serves, Shape, Reports, Knows, Replays, Missing, durable, disturbed
<1> QED  BY <1>1, <1>2, <1>3 DEF ApplyInv

-----------------------------------------------------------------------------
(* Invariants *)

LEMMA ApplyInitHolds ==
    ASSUME ApplyInit
    PROVE  ApplyInv
<1>1. ApplyTypeOK
  <2>1. job \in [state: JobStates, revision: Nat, attempt: 0..MaxAttempts,
                 fence: Nat, leased: BOOLEAN]
    BY MaxAttemptsAssumption DEF ApplyInit, NoJob, JobStates
  <2>2. "idle" \in PC /\ Nothing \in Verdicts /\ 0 \in 0..MaxFaults
    BY MaxFaultsAssumption DEF PC, Verdicts
  <2>3. /\ pc \in [Request -> PC]
        /\ mode \in [Request -> {Nothing, "first", "recover", "replay"}]
        /\ seen \in [Request -> Nat]
        /\ verdict \in [Request -> Verdicts]
    BY <2>2 DEF ApplyInit
  <2>4. /\ abandoned \in BOOLEAN /\ abandoner \in BOOLEAN /\ committed \in BOOLEAN
        /\ projected \in BOOLEAN /\ recorded \in BOOLEAN /\ overtaken \in BOOLEAN
    BY DEF ApplyInit
  <2>5. /\ prepared \in 0..2 /\ children \in SUBSET Closures /\ faults \in 0..MaxFaults
        /\ committer \in Request \cup {Nothing}
    BY <2>2 DEF ApplyInit
  <2> QED  BY <2>1, <2>3, <2>4, <2>5 DEF ApplyTypeOK
<1>2. Served
  BY DEF ApplyInit, NoJob, Served, LeaseRuns, SucceededIsPublished, UndisturbedFailureIsHonest,
     Undisturbed, Nothing
<1>3. ASSUME NEW q \in Request
      PROVE  Serves(q)
  BY DEF ApplyInit, NoJob, Serves, Shape, Reports, Knows, Executes, Replays, Honest, Executing,
     Nothing
<1> QED  BY <1>1, <1>2, <1>3 DEF ApplyInv

LEMMA ApplyNextHolds ==
    ASSUME ApplyInv, [ApplyNext]_applyVars
    PROVE  ApplyInv'
<1>1. ASSUME NEW r \in Request, Step(r)
      PROVE  ApplyInv'
  BY <1>1, BeginHolds, InsertJobHolds, ReadJobHolds, AcquireLeaseHolds, RereadJobHolds,
     ReconcileHolds, CloseChildHolds, CompleteHolds, CaptureHolds, PlacePreparedHolds,
     PlaceCommitHolds, ProjectHolds, ProcessHolds, FinishHolds
     DEF Step
<1>2. CASE CheckAbandon \/ MarkAbandoned \/ UNCHANGED applyVars
  BY <1>2, AsideHolds DEF CheckAbandon, MarkAbandoned, applyVars, durable, disturbed, ApplyInv,
     ApplyTypeOK
<1> QED  BY <1>1, <1>2, FinishLostHolds, LeaseRunsOutHolds, CancelJobHolds, KillHolds
            DEF ApplyNext

\* Every reachable state satisfies the inductive invariant.
THEOREM ApplyInvariant == ApplySpec => []ApplyInv
<1> QED  BY ApplyInitHolds, ApplyNextHolds, PTL DEF ApplySpec

\* The job and what its requests hold keep their types, and the job's attempts
\* stay within MaxAttempts.
THEOREM ApplyTypes == ApplySpec => []ApplyTypeOK
<1>1. ApplyInv => ApplyTypeOK
  BY DEF ApplyInv
<1> QED  BY <1>1, ApplyInvariant, PTL

\* As long as no executor was overtaken, at most one request executes the plan,
\* and it holds the job's lease: claims exclude one another (claimPlanApplyJob).
THEOREM ExecutorsExclude ==
  ApplySpec => [](~overtaken => \A q, r \in Request :
                    Executing(q) /\ Executing(r) => q = r /\ job.leased)
<1>1. ApplyInv => (~overtaken => \A q, r \in Request :
                     Executing(q) /\ Executing(r) => q = r /\ job.leased)
  BY DEF ApplyInv, Serves, Executes
<1> QED  BY <1>1, ApplyInvariant, PTL

\* A plan reported as applied is published and projected, whatever was killed,
\* cancelled, overrun or lost (finishPlanApplyJob).
THEOREM SuccessIsPublished == ApplySpec => []SucceededIsPublished
<1>1. ApplyInv => SucceededIsPublished
  BY DEF ApplyInv, Served
<1> QED  BY <1>1, ApplyInvariant, PTL

\* A job that nothing disturbed and that is recorded as failed left nothing
\* durable behind (executePlanBody).
THEOREM FailureIsHonest == ApplySpec => []UndisturbedFailureIsHonest
<1>1. ApplyInv => UndisturbedFailureIsHonest
  BY DEF ApplyInv, Served
<1> QED  BY <1>1, ApplyInvariant, PTL

\* What one step may do to a recorded outcome.
OutcomeStep ==
  /\ job.state \in Settled => job'.state = job.state
  /\ job.state = "NEEDS_RECONCILIATION" /\ job'.state # job.state /\ ~overtaken =>
       job'.state = "SUCCEEDED" /\ committed /\ projected /\ Missing = {}

LEMMA OutcomeHolds ==
    ASSUME ApplyInv, [ApplyNext]_applyVars
    PROVE  OutcomeStep
<1>1. ApplyTypeOK /\ Served
  BY DEF ApplyInv
<1>2. CASE job'.state = job.state
  BY <1>2 DEF OutcomeStep
<1>3. ASSUME NEW r \in Request, AcquireLease(r), job' # job
      PROVE  OutcomeStep
  <2>1. seen[r] = job.revision /\ pc[r] = "lease"
    BY <1>3 DEF AcquireLease, Leasable
  <2>2. job.state \in {"QUEUED", "RUNNING"}
    BY <2>1 DEF ApplyInv, Serves, Knows
  <2> QED  BY <2>2 DEF OutcomeStep, Settled
<1>4. ASSUME NEW r \in Request, Finish(r), job'.state # job.state
      PROVE  OutcomeStep
  <2>1. /\ pc[r] = "finish" /\ seen[r] = job.revision
        /\ ValidTransition(job.state, verdict[r]) /\ job'.state = verdict[r]
    BY <1>4 DEF Finish, Updated
  <2>2. Serves(r)
    BY DEF ApplyInv
  <2>3. job.state \notin Settled
    BY <1>4, <2>1 DEF ValidTransition, Settled
  <2>4. ASSUME job.state = "NEEDS_RECONCILIATION", ~overtaken
        PROVE  job'.state = "SUCCEEDED" /\ committed /\ projected /\ Missing = {}
    <3>1. ~Executing(r)
      BY <2>4, ExecutorRuns
    <3>2. verdict[r] = "SUCCEEDED"
      BY <1>1, <2>1, <2>2, <3>1 DEF Serves, Shape, Executing, ApplyTypeOK, Nothing
    <3> QED  BY <2>1, <2>2, <2>4, <3>2 DEF Serves, Reports, Replays
  <2> QED  BY <2>3, <2>4 DEF OutcomeStep
<1>5. ASSUME NEW r \in Request, InsertJob(r)
      PROVE  OutcomeStep
  BY <1>5 DEF InsertJob, OutcomeStep, Settled, Nothing
<1>6. CASE CancelJob
  BY <1>6 DEF CancelJob, OutcomeStep, JobTerminal, Terminal
<1>7. CASE LeaseRunsOut
  <2>1. job'.state = job.state
    BY <1>1, <1>7 DEF LeaseRunsOut, ApplyTypeOK
  <2> QED  BY <1>2, <2>1
<1> QED  BY <1>2, <1>3, <1>4, <1>5, <1>6, <1>7 DEF ApplyNext, Step, Begin, ReadJob,
            RereadJob, Reconcile, CloseChild, Complete, Capture, PlacePrepared, PlaceCommit,
            Project, Process, FinishLost, CheckAbandon, MarkAbandoned, Kill, applyVars

\* Recorded outcomes are never revised; an unknown one is only promoted to the
\* success that is durable by then, children included (finishPlanApplyJob).
THEOREM OutcomesAreKept == ApplySpec => OutcomeIsFinal
<1>1. ApplyInv /\ [ApplyNext]_applyVars => [OutcomeStep]_applyVars
  BY OutcomeHolds
<1>2. ApplySpec => [][OutcomeStep]_applyVars
  BY <1>1, ApplyInvariant, PTL DEF ApplySpec
<1> QED  BY <1>2, PTL DEF OutcomeIsFinal, OutcomeStep
=============================================================================

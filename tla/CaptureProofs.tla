---------------------------- MODULE CaptureProofs ----------------------------
(***************************************************************************)
(* The capture of a directory, for any tree, any number of requests, plans, *)
(* scans and changes, and any protection modes.                             *)
(*                                                                         *)
(* The argument: metadata is numbered by the change that made it, so a name *)
(* that has the metadata of an earlier reading has been left alone since,   *)
(* or was written unseen (Lists, Reads).  What was read in two halves that  *)
(* agree was there in any case; a torn reading has the digest of no content *)
(* the repository could be given (Held).  A request's generation has the    *)
(* request's basis, and what it claims is placed before it adopts           *)
(* (Applier).                                                               *)
(***************************************************************************)
EXTENDS Capture, TLAPS

(* The invariant *)

Item == [name : Names \cup {"none"}, thing : Thing, meta : Meta, data : Contents \cup {Torn}]
RequestState ==
  [pc : Labels, plan : Nat, approved : SUBSET Names, root : Meta, meta : Meta,
   todo : SUBSET Names, item : Item, entries : Listing, whole : BOOLEAN,
   seen : SUBSET (Contents \cup {Torn}), gen : Nat]
PlanRow == [basis : DirectoryBasis, approved : SUBSET Names, open : BOOLEAN]
ScanState == {"RUNNING", "FAILED", "COMPLETE", "INCOMPLETE"}
SubjectMap == UNION {[S -> [name : Names, gen : Nat]] : S \in SUBSET Names}
ScanRow ==
  [plan : Nat, state : ScanState, basis : DirectoryBasis, subject : SubjectMap,
   adopted : BOOLEAN, committed : BOOLEAN, projected : BOOLEAN]

SourceTypes ==
  /\ root \in Meta /\ dir \in Meta /\ change \in Meta
  /\ tree \in [Names -> [thing : Things, meta : Meta]]

RowTypes ==
  /\ plans \in Seq(PlanRow) /\ scans \in Seq(ScanRow)
  /\ \A g \in Scan : scans[g].plan \in Plan

RequestTypes ==
  /\ at \in [Request -> RequestState]
  /\ \A r \in Request : at[r].plan \in {0} \cup Plan /\ at[r].gen \in {0} \cup Scan

Types ==
  /\ SourceTypes /\ RowTypes /\ RequestTypes
  /\ stored \subseteq Contents /\ faults \in 0..MaxFaults

Locating == {"root", "list"}
Reading == {"file", "link", "head", "tail", "check"}
Walking == {"walk"} \cup Reading
Filed == {"place", "finish", "publish", "project"}

\* Numbers are of changes that have been.
Dated ==
  /\ root <= change /\ dir <= change
  /\ \A n \in Names : tree[n].meta <= change

\* The histories have what is there now.
Recorded ==
  /\ \A n \in Present : [name |-> n, thing |-> tree[n].thing, meta |-> tree[n].meta] \in been
  /\ [meta |-> dir, names |-> Present] \in listed

\* A complete entry was there, if what was read is one content, and if no
\* write escaped the comparison of metadata.
Held(n, e) ==
  e.state = "COMPLETE" => (e.thing.data # Torn \/ Seen(n, e) => Was(n, e))

\* What a request knows of a moment is of one that has been.
Dates(r) ==
  at[r].root <= root /\ at[r].meta <= change /\ at[r].item.meta <= change

\* Of a directory that has not changed since, the scan lists what there is.
Lists(r) ==
  /\ at[r].pc \in Locating => DOMAIN at[r].entries = {}
  /\ at[r].pc \in Reading => at[r].item.name \in at[r].todo
  /\ at[r].pc \in Walking /\ VerifyRoot(r) /\ dir = at[r].meta
       => at[r].todo \cup DOMAIN at[r].entries = Present
  /\ at[r].whole => at[r].pc \notin Locating \cup Walking /\ Listed(Basis(r))

\* Of a name that has not changed since, it has read what is there; what it has
\* read was there anyway, unless it is made of two readings.
Reads(r) ==
  LET it == at[r].item IN
  /\ at[r].pc \in Reading =>
       /\ it.name \in Names
       /\ [name |-> it.name, thing |-> it.thing, meta |-> it.meta] \in been
       /\ SameSnapshot(r) /\ Seen(it.name, it) => it.thing = Here(r).thing
  /\ at[r].pc \in {"file", "head", "tail"} => it.thing.kind = "file"
  /\ at[r].pc = "link" => it.thing.kind = "link"
  /\ at[r].pc = "check" => it.thing.kind \in {"file", "link"}
  /\ at[r].pc \in {"tail", "check"} /\ SameSnapshot(r) =>
       /\ Seen(it.name, it) => it.data = it.thing.data
       /\ it.data # Torn =>
            [name |-> it.name, thing |-> [kind |-> it.thing.kind, data |-> it.data],
             meta |-> it.meta] \in been

Holds(r) == \A n \in DOMAIN at[r].entries : Held(n, at[r].entries[n])

Scanner(r) == Dates(r) /\ Lists(r) /\ Reads(r) /\ Holds(r)

\* The application: a scan has its request's basis, and what is not to be
\* placed any more is stored.
Applier(r) ==
  LET me == at[r] IN
  /\ me.pc \in {"begin"} \cup Filed => me.plan # 0
  /\ me.pc \in Filed => me.gen \in Scan /\ scans[me.gen].basis = Basis(r)
  /\ me.seen \subseteq stored
  /\ me.pc = "place" =>
       \A n \in Scanned(r) :
         Claim(me.entries, n) # "none" => n \in me.todo \/ Claim(me.entries, n) \in stored

\* What was allocated is of a scan there is; one published scan is the newest.
Allocated ==
  /\ \A g \in Scan : \A n \in DOMAIN scans[g].subject : scans[g].subject[n].gen \in Scan
  /\ Published # {} => \E g \in Published : \A h \in Published : h <= g

CaptureInv ==
  /\ Types /\ Dated /\ Recorded /\ Allocated
  /\ ContentWasThere /\ ClaimsAreStored /\ SubjectsArePublished
  /\ \A r \in Request : Scanner(r) /\ Applier(r)

-----------------------------------------------------------------------------
(* Types *)

LEMMA Constants ==
    /\ MaxPlans \in Nat /\ MaxScans \in Nat /\ MaxChanges \in Nat /\ MaxFaults \in Nat
    /\ "none" \notin Contents /\ "unreadable" \notin Contents /\ Torn \notin Contents
    /\ Torn # "none" /\ Torn # "unreadable"
    /\ \A n \in Names : Start[n] \subseteq Things /\ Becomes[n] \subseteq Things
    /\ Resolutions \subseteq SUBSET Names
  BY TreeAssumption, PolicyAssumption, BoundsAssumption DEF Torn

LEMMA ThingsTypes ==
    /\ Things \subseteq Thing /\ Absent \in Things /\ Absent \in Thing
    /\ \A t \in Things : t.kind \in {"file", "link"} \/ t = Absent
    /\ \A t \in Things : t.data # Torn
    /\ \A t \in Things : t.kind = "file" /\ t # Unreadable => t.data \in Contents
    /\ \A t \in Things : t.kind = "link" => t.data \in Contents
    /\ \A k \in {"file", "link"} : \A d \in Contents \cup {"none", Torn} :
         [kind |-> k, data |-> d] \in Thing
    /\ \A t \in Thing : t = [kind |-> t.kind, data |-> t.data]
    /\ Absent.kind = "none"
  BY Constants DEF Things, Thing, Absent, Unreadable

LEMMA ListingTypes ==
    /\ \A f \in Listing :
         /\ DOMAIN f \subseteq Names
         /\ \A n \in DOMAIN f :
              f[n] \in [state : {"COMPLETE", "FAILED", "UNSTABLE"}, thing : Thing,
                        meta : Meta, stable : BOOLEAN]
    /\ Nothing \in Listing /\ DOMAIN Nothing = {}
<1>1. Nothing \in [{} -> [state : {"COMPLETE", "FAILED", "UNSTABLE"}, thing : Thing,
                          meta : Meta, stable : BOOLEAN]] /\ DOMAIN Nothing = {}
  BY DEF Nothing
<1>2. Nothing \in Listing
  BY <1>1 DEF Listing
<1> QED  BY <1>1, <1>2 DEF Listing

LEMMA RestTypes ==
    /\ Rest \in RequestState /\ Rest.pc = "idle" /\ Rest.plan = 0 /\ Rest.gen = 0
    /\ Rest.root = 0 /\ Rest.meta = 0 /\ Rest.entries = Nothing /\ Rest.whole = FALSE
    /\ Rest.seen = {} /\ Rest.item \in Item /\ Rest.item.meta = 0
<1>1. 0 \in Meta
  BY Constants DEF Meta
<1>2. Rest.item \in Item /\ Rest.item.meta = 0
  BY <1>1, ThingsTypes DEF Item, Rest
<1>3. Rest \in RequestState
  BY <1>1, <1>2, ListingTypes DEF RequestState, Rest, Labels
<1> QED  BY <1>2, <1>3 DEF Rest

-----------------------------------------------------------------------------
(* Steps of one request *)

\* The request's next state is x, and the others' are as they were.
Goes(r, x) ==
  /\ at' \in [Request -> RequestState] /\ at'[r] = x
  /\ \A q \in Request \ {r} : at'[q] = at[q]

LEMMA RequestGoes ==
    ASSUME Types, NEW r \in Request, NEW x \in RequestState, Now(r, x)
    PROVE  Goes(r, x)
  BY DEF Types, RequestTypes, Now, Goes

\* What a step of another request, which leaves the directory alone, keeps.
LEMMA ScannerBeside ==
    ASSUME NEW q \in Request, Scanner(q), at'[q] = at[q], UNCHANGED source
    PROVE  Scanner(q)'
  BY DEF Scanner, Dates, Lists, Reads, Holds, Held, Seen, Was, VerifyRoot, SameSnapshot, Here,
     Present, Listed, Basis, source

LEMMA ApplierBeside ==
    ASSUME NEW q \in Request, Applier(q), at'[q] = at[q], stored \subseteq stored',
           Scan \subseteq Scan', \A g \in Scan : scans'[g].basis = scans[g].basis
    PROVE  Applier(q)'
  BY DEF Applier, Basis, Scanned

LEMMA SourceSame ==
    ASSUME Dated, Recorded, UNCHANGED source
    PROVE  Dated' /\ Recorded'
  BY DEF Dated, Recorded, Present, source

LEMMA WasSame ==
    ASSUME ContentWasThere, UNCHANGED <<been, listed, unseen, scans>>,
           \A k \in Plan' : plans'[k].open =>
              k \in Plan /\ plans[k].open /\ plans'[k].basis = plans[k].basis
    PROVE  ContentWasThere'
  BY DEF ContentWasThere, Listed, Seen, Was, Scan

LEMMA ScansSame ==
    ASSUME Allocated, SubjectsArePublished, ClaimsAreStored,
           UNCHANGED catalog, stored \subseteq stored'
    PROVE  Allocated' /\ SubjectsArePublished' /\ ClaimsAreStored'
<1>1. scans' = scans /\ protection' = protection
  BY DEF catalog
<1>2. Allocated'
  BY <1>1 DEF Allocated, Scan, Published
<1>3. SubjectsArePublished'
  <2> SUFFICES ASSUME NEW g \in Scan', NEW n \in DOMAIN scans'[g].subject
               PROVE  /\ scans'[g].subject[n].name = n
                      /\ scans'[g].subject[n].gen # g =>
                           /\ scans'[scans'[g].subject[n].gen].projected
                           /\ scans'[scans'[g].subject[n].gen].basis.entries[n].thing.kind
                                = scans'[g].basis.entries[n].thing.kind
    BY DEF SubjectsArePublished
  <2>1. g \in Scan /\ n \in DOMAIN scans[g].subject
    BY <1>1 DEF Scan
  <2>2. /\ scans[g].subject[n].name = n
        /\ scans[g].subject[n].gen # g =>
             /\ scans[scans[g].subject[n].gen].projected
             /\ scans[scans[g].subject[n].gen].basis.entries[n].thing.kind
                  = scans[g].basis.entries[n].thing.kind
    BY <2>1 DEF SubjectsArePublished
  <2> QED  BY <1>1, <2>2
<1>4. ClaimsAreStored'
  BY <1>1 DEF ClaimsAreStored, Scan, Claim
<1> QED  BY <1>2, <1>3, <1>4

-----------------------------------------------------------------------------
(* The scan *)

LEMMA ScanStep ==
    ASSUME CaptureInv, NEW r \in Request, NEW x \in RequestState, Goes(r, x), Scanning,
           x.plan \in {0} \cup Plan, x.gen \in {0} \cup Scan, Scanner(r)', Applier(r)'
    PROVE  CaptureInv'
<1>1. UNCHANGED <<source, stored, plans, catalog, faults>> /\ UNCHANGED scans
  BY DEF Scanning, catalog
<1>2. Types'
  BY <1>1 DEF CaptureInv, Types, SourceTypes, RowTypes, RequestTypes, source, Goes, Scan, Plan
<1>3. Dated' /\ Recorded'
  BY <1>1, SourceSame DEF CaptureInv
<1>4. Allocated' /\ SubjectsArePublished' /\ ClaimsAreStored'
  BY <1>1, ScansSame DEF CaptureInv
<1>5. ContentWasThere'
  BY <1>1, WasSame DEF CaptureInv, source, Plan
<1>6. ASSUME NEW q \in Request \ {r}
      PROVE  Scanner(q)' /\ Applier(q)'
  BY <1>1, ScannerBeside, ApplierBeside DEF CaptureInv, Goes, Scan
<1> QED  BY <1>2, <1>3, <1>4, <1>5, <1>6 DEF CaptureInv

LEMMA CaptureHolds ==
    ASSUME CaptureInv, NEW r \in Request, NEW k \in {0} \cup Plan, NEW resolutions \in SUBSET Names,
           Capture(r, k, resolutions)
    PROVE  CaptureInv'
<1>1. Types /\ Dated /\ Plan \subseteq Nat
  BY DEF CaptureInv, Plan
<1> DEFINE x == [Rest EXCEPT !.pc = "root", !.plan = k, !.approved = resolutions, !.root = root]
<1>2. Now(r, x) /\ Scanning
  BY DEF Capture, Scanning
<1>3. /\ x \in RequestState /\ x.pc = "root" /\ x.root = root /\ x.meta = 0 /\ x.item.meta = 0
      /\ x.entries = Nothing /\ x.whole = FALSE /\ x.seen = {} /\ x.plan = k /\ x.gen = 0
  BY <1>1, RestTypes DEF RequestState, Labels, Types, SourceTypes
<1>4. Goes(r, x) /\ at'[r] = x
  BY <1>1, <1>2, <1>3, RequestGoes DEF Goes
<1> HIDE DEF x
<1>5. /\ 0 <= change /\ root' = root /\ change' = change /\ root <= root
  BY <1>1, <1>2, Constants DEF Scanning, source, Types, SourceTypes, Meta
<1>6. Scanner(r)'
  BY <1>3, <1>4, <1>5, ListingTypes
     DEF Scanner, Dates, Lists, Reads, Holds, Locating, Walking, Reading
<1>7. Applier(r)'
  BY <1>3, <1>4 DEF Applier, Filed
<1> QED  BY <1>1, <1>2, <1>3, <1>4, <1>6, <1>7, ScanStep

LEMMA InspectIngestHolds ==
    ASSUME CaptureInv, NEW r \in Request, NEW resolutions \in Resolutions,
           InspectIngest(r, resolutions)
    PROVE  CaptureInv'
  BY CaptureHolds, Constants DEF InspectIngest

LEMMA ApplyIngestPlanHolds ==
    ASSUME CaptureInv, NEW r \in Request, NEW k \in Plan, ApplyIngestPlan(r, k)
    PROVE  CaptureInv'
<1>1. plans \in Seq(PlanRow)
  BY DEF CaptureInv, Types, RowTypes
<1>2. plans[k] \in PlanRow
  BY <1>1 DEF Plan
<1>3. plans[k].approved \in SUBSET Names
  BY <1>2 DEF PlanRow
<1> QED  BY <1>3, CaptureHolds DEF ApplyIngestPlan

LEMMA LstatRootHolds ==
    ASSUME CaptureInv, NEW r \in Request, LstatRoot(r)
    PROVE  CaptureInv'
<1>1. /\ Types /\ Dated /\ Scanner(r) /\ Applier(r) /\ at[r] \in RequestState /\ at[r].pc = "root"
      /\ at[r].plan \in {0} \cup Plan /\ at[r].gen \in {0} \cup Scan
  BY DEF CaptureInv, Types, RequestTypes, LstatRoot, At
<1> DEFINE x == IF VerifyRoot(r) THEN [at[r] EXCEPT !.pc = "list", !.meta = dir]
                                ELSE [at[r] EXCEPT !.pc = "scanned"]
<1>2. Now(r, x) /\ Scanning
  BY DEF LstatRoot
<1>3. /\ x \in RequestState /\ x.pc \in {"list", "scanned"} /\ x.root = at[r].root
      /\ x.meta \in {at[r].meta, dir} /\ x.item = at[r].item
      /\ x.entries = at[r].entries /\ x.whole = at[r].whole /\ x.seen = at[r].seen
      /\ x.plan = at[r].plan /\ x.gen = at[r].gen
  BY <1>1 DEF RequestState, Labels, Types, SourceTypes
<1>4. Goes(r, x) /\ at'[r] = x
  BY <1>1, <1>2, <1>3, RequestGoes DEF Goes
<1> HIDE DEF x
<1>5. root' = root /\ change' = change /\ stored' = stored /\ dir <= change
  BY <1>1, <1>2 DEF Scanning, source, Dated
<1>6. Scanner(r)'
  <2>1. Dates(r)'
    BY <1>1, <1>3, <1>4, <1>5 DEF Scanner, Dates
  <2>2. DOMAIN x.entries = {} /\ ~x.whole
    BY <1>1, <1>3 DEF Scanner, Lists, Locating
  <2> QED  BY <1>3, <1>4, <2>1, <2>2
           DEF Scanner, Lists, Reads, Holds, Locating, Walking, Reading
<1>7. Applier(r)'
  BY <1>1, <1>3, <1>4, <1>5 DEF Applier, Filed
<1> QED  BY <1>1, <1>2, <1>3, <1>4, <1>6, <1>7, ScanStep

LEMMA ReadDirHolds ==
    ASSUME CaptureInv, NEW r \in Request, ReadDir(r)
    PROVE  CaptureInv'
<1>1. /\ Types /\ Dated /\ Scanner(r) /\ Applier(r) /\ at[r] \in RequestState /\ at[r].pc = "list"
      /\ at[r].plan \in {0} \cup Plan /\ at[r].gen \in {0} \cup Scan
  BY DEF CaptureInv, Types, RequestTypes, ReadDir, At
<1> DEFINE x == IF VerifyRoot(r) /\ dir = at[r].meta
                  THEN [at[r] EXCEPT !.pc = "walk", !.todo = Present]
                  ELSE [at[r] EXCEPT !.pc = "scanned"]
<1>2. Now(r, x) /\ Scanning
  BY DEF ReadDir
<1>3. /\ x \in RequestState /\ x.pc \in {"walk", "scanned"} /\ x.root = at[r].root
      /\ x.meta = at[r].meta /\ x.item = at[r].item /\ (x.pc = "walk" => x.todo = Present)
      /\ x.entries = at[r].entries /\ x.whole = at[r].whole /\ x.seen = at[r].seen
      /\ x.plan = at[r].plan /\ x.gen = at[r].gen
  BY <1>1 DEF RequestState, Labels, Present
<1>4. Goes(r, x) /\ at'[r] = x
  BY <1>1, <1>2, <1>3, RequestGoes DEF Goes
<1> HIDE DEF x
<1>5. root' = root /\ change' = change /\ stored' = stored /\ tree' = tree
  BY <1>2 DEF Scanning, source
<1>6. Scanner(r)'
  <2>1. Dates(r)'
    BY <1>1, <1>3, <1>4, <1>5 DEF Scanner, Dates
  <2>2. DOMAIN x.entries = {} /\ ~x.whole
    BY <1>1, <1>3 DEF Scanner, Lists, Locating
  <2>3. Present' = Present
    BY <1>5 DEF Present
  <2> QED  BY <1>3, <1>4, <2>1, <2>2, <2>3
           DEF Scanner, Lists, Reads, Holds, Locating, Walking, Reading
<1>7. Applier(r)'
  BY <1>1, <1>3, <1>4, <1>5 DEF Applier, Filed
<1> QED  BY <1>1, <1>2, <1>3, <1>4, <1>6, <1>7, ScanStep

\* An entry is emitted that is as it was, if it is complete.
LEMMA EmitHolds ==
    ASSUME CaptureInv, NEW r \in Request, at[r].pc \in Walking,
           NEW it \in Item, it.name \in at[r].todo,
           NEW state \in {"COMPLETE", "FAILED", "UNSTABLE"}, NEW thing \in Thing,
           NEW stable \in BOOLEAN, Emit(r, it, state, thing, stable), Scanning,
           state = "COMPLETE" /\ (thing.data # Torn \/ Seen(it.name, it))
             => [name |-> it.name, thing |-> thing, meta |-> it.meta] \in been
    PROVE  CaptureInv'
<1>1. /\ Types /\ Dated /\ Scanner(r) /\ Applier(r) /\ at[r] \in RequestState
      /\ at[r].plan \in {0} \cup Plan /\ at[r].gen \in {0} \cup Scan /\ at[r].todo \subseteq Names
  BY DEF CaptureInv, Types, RequestTypes, RequestState
<1> DEFINE D == DOMAIN at[r].entries \cup {it.name}
           e == [state |-> state, thing |-> thing, meta |-> it.meta, stable |-> stable]
           F == [n \in D |-> IF n = it.name THEN e ELSE at[r].entries[n]]
           x == [at[r] EXCEPT !.pc = "walk", !.item = Rest.item, !.todo = @ \ {it.name},
                              !.entries = F]
<1>2. Now(r, x)
  BY DEF Emit
<1>3. F \in Listing /\ DOMAIN F = D /\ F[it.name] = e
      /\ \A n \in DOMAIN at[r].entries \ {it.name} : F[n] = at[r].entries[n]
  <2>1. /\ DOMAIN at[r].entries \subseteq Names
        /\ \A n \in DOMAIN at[r].entries :
             at[r].entries[n] \in [state : {"COMPLETE", "FAILED", "UNSTABLE"}, thing : Thing,
                                   meta : Meta, stable : BOOLEAN]
    BY <1>1, ListingTypes DEF RequestState
  <2>2. e \in [state : {"COMPLETE", "FAILED", "UNSTABLE"}, thing : Thing,
               meta : Meta, stable : BOOLEAN]
    BY DEF Item
  <2> HIDE DEF e
  <2>3. D \in SUBSET Names
    BY <1>1, <2>1
  <2>4. F \in [D -> [state : {"COMPLETE", "FAILED", "UNSTABLE"}, thing : Thing,
                     meta : Meta, stable : BOOLEAN]]
    BY <2>1, <2>2
  <2> QED  BY <2>3, <2>4 DEF Listing
<1>4. e.state = state /\ e.thing = thing /\ e.meta = it.meta
  OBVIOUS
<1> HIDE DEF F, e
<1>5. /\ x \in RequestState /\ x.pc = "walk" /\ x.root = at[r].root /\ x.meta = at[r].meta
      /\ x.item = Rest.item /\ x.item.meta = 0 /\ x.todo = at[r].todo \ {it.name}
      /\ x.entries = F /\ x.whole = at[r].whole /\ x.seen = at[r].seen
      /\ x.plan = at[r].plan /\ x.gen = at[r].gen
  BY <1>1, <1>3, RestTypes DEF RequestState, Labels
<1>6. Goes(r, x) /\ at'[r] = x
  BY <1>1, <1>2, <1>5, RequestGoes DEF Goes
<1> HIDE DEF x
<1>7. /\ root' = root /\ dir' = dir /\ tree' = tree /\ change' = change /\ been' = been
      /\ unseen' = unseen /\ stored' = stored /\ 0 <= change
  BY <1>1, Constants DEF Scanning, source, Types, SourceTypes, Meta
<1>8. Dates(r)'
  BY <1>1, <1>5, <1>6, <1>7 DEF Scanner, Dates
<1>9. Lists(r)'
  <2>1. ~x.whole
    BY <1>1, <1>5 DEF Scanner, Lists
  <2>2. VerifyRoot(r) /\ dir = at[r].meta => x.todo \cup DOMAIN x.entries = Present
    BY <1>1, <1>3, <1>5 DEF Scanner, Lists
  <2> QED  BY <1>5, <1>6, <1>7, <2>1, <2>2 DEF Lists, Locating, Reading, VerifyRoot, Present
<1>10. Reads(r)'
  BY <1>5, <1>6 DEF Reads, Reading
<1>11. Holds(r)'
  <2> SUFFICES ASSUME NEW n \in D
               PROVE  F[n].state = "COMPLETE" /\
                      (\/ F[n].thing.data # Torn
                       \/ [name |-> n, meta |-> F[n].meta] \notin unseen')
                      => [name |-> n, thing |-> F[n].thing, meta |-> F[n].meta] \in been'
    BY <1>3, <1>5, <1>6 DEF Holds, Held, Seen, Was
  <2>1. CASE n = it.name
    BY <1>3, <1>4, <1>7, <2>1 DEF Seen
  <2>2. CASE n # it.name
    BY <1>1, <1>3, <1>7, <2>2 DEF Scanner, Holds, Held, Seen, Was
  <2> QED  BY <2>1, <2>2
<1>12. Applier(r)'
  BY <1>1, <1>5, <1>6, <1>7 DEF Applier, Filed
<1> QED  BY <1>1, <1>5, <1>6, <1>8, <1>9, <1>10, <1>11, <1>12, ScanStep DEF Scanner

\* What a request at work on an item has.
LEMMA AtItem ==
    ASSUME CaptureInv, NEW r \in Request, at[r].pc \in Reading
    PROVE  /\ at[r] \in RequestState /\ at[r].item \in Item /\ at[r].item.name \in Names
           /\ at[r].item.name \in at[r].todo /\ at[r].item.thing \in Thing
           /\ at[r].item.data \in Contents \cup {Torn}
           /\ Here(r) \in [thing : Things, meta : Meta]
           /\ Here(r).thing \in Things /\ Here(r).thing \in Thing
           /\ Here(r).thing # Absent =>
                [name |-> at[r].item.name, thing |-> Here(r).thing, meta |-> Here(r).meta] \in been
<1>1. at[r] \in RequestState /\ Scanner(r) /\ Recorded
  BY DEF CaptureInv, Types, RequestTypes
<1>2. at[r].item \in Item /\ at[r].item.name \in Names /\ at[r].item.name \in at[r].todo
  BY <1>1 DEF RequestState, Scanner, Reads, Lists
<1>3. Here(r) \in [thing : Things, meta : Meta]
  BY <1>2 DEF CaptureInv, Types, SourceTypes, Here
<1>4. Here(r).thing # Absent => at[r].item.name \in Present
  BY <1>2 DEF Here, Present
<1> QED  BY <1>1, <1>2, <1>3, <1>4, ThingsTypes DEF Item, Recorded, Here

LEMMA LstatHolds ==
    ASSUME CaptureInv, NEW r \in Request, Lstat(r)
    PROVE  CaptureInv'
<1>1. /\ Types /\ Dated /\ Scanner(r) /\ Applier(r) /\ at[r] \in RequestState /\ at[r].pc = "walk"
      /\ at[r].plan \in {0} \cup Plan /\ at[r].gen \in {0} \cup Scan /\ at[r].todo # {} /\ Scanning
  BY DEF CaptureInv, Types, RequestTypes, Lstat, At
<1> DEFINE n == First(at[r].todo)
           item == [name |-> n, thing |-> tree[n].thing, meta |-> tree[n].meta, data |-> Torn]
<1>2. n \in at[r].todo /\ n \in Names
  BY <1>1 DEF First, RequestState
<1>3. tree[n] \in [thing : Things, meta : Meta] /\ tree[n].thing \in Things
  BY <1>1, <1>2 DEF Types, SourceTypes
<1> HIDE DEF n
<1>4. /\ item \in Item /\ item.name = n /\ item.thing = tree[n].thing /\ item.meta = tree[n].meta
  BY <1>2, <1>3, ThingsTypes DEF Item
<1>5. CASE ~(VerifyRoot(r) /\ tree[n].thing # Absent)
  <2>1. Emit(r, item, "FAILED", Absent, FALSE)
    BY <1>5 DEF Lstat, n
  <2> HIDE DEF item
  <2> QED  BY <1>1, <1>2, <1>4, <2>1, EmitHolds, ThingsTypes DEF Walking
<1>6. CASE VerifyRoot(r) /\ tree[n].thing # Absent
  <2> DEFINE x == [at[r] EXCEPT !.pc = item.thing.kind, !.item = item]
  <2>1. Now(r, x)
    BY <1>6 DEF Lstat, n
  <2>2. item.thing.kind \in {"file", "link"}
    BY <1>3, <1>4, <1>6, ThingsTypes
  <2> HIDE DEF item
  <2>3. /\ x \in RequestState /\ x.pc = item.thing.kind /\ x.root = at[r].root
        /\ x.meta = at[r].meta /\ x.item = item /\ x.todo = at[r].todo
        /\ x.entries = at[r].entries /\ x.whole = at[r].whole /\ x.seen = at[r].seen
        /\ x.plan = at[r].plan /\ x.gen = at[r].gen
    BY <1>1, <1>4, <2>2 DEF RequestState, Labels
  <2>4. Goes(r, x) /\ at'[r] = x
    BY <1>1, <2>1, <2>3, RequestGoes DEF Goes
  <2> HIDE DEF x
  <2>5. /\ root' = root /\ dir' = dir /\ tree' = tree /\ change' = change /\ been' = been
        /\ unseen' = unseen /\ stored' = stored
    BY <1>1 DEF Scanning, source
  <2>6. [name |-> n, thing |-> tree[n].thing, meta |-> tree[n].meta] \in been
        /\ tree[n].meta <= change
    BY <1>2, <1>6 DEF CaptureInv, Recorded, Dated, Present
  <2>7. Dates(r)'
    BY <1>1, <1>4, <2>3, <2>4, <2>5, <2>6 DEF Scanner, Dates
  <2>8. Lists(r)'
    BY <1>1, <1>2, <1>4, <2>2, <2>3, <2>4, <2>5
       DEF Scanner, Lists, Locating, Walking, Reading, VerifyRoot, Present
  <2>9. Reads(r)'
    BY <1>2, <1>4, <2>2, <2>3, <2>4, <2>5, <2>6 DEF Reads, Reading, Here
  <2>10. Holds(r)'
    BY <1>1, <2>3, <2>4, <2>5 DEF Scanner, Holds, Held, Was, Seen
  <2>11. Applier(r)'
    BY <1>1, <2>2, <2>3, <2>4, <2>5 DEF Applier, Filed
  <2> QED  BY <1>1, <2>3, <2>4, <2>7, <2>8, <2>9, <2>10, <2>11, ScanStep DEF Scanner
<1> QED  BY <1>5, <1>6

\* A step that reads: what it has read is what was there.
LEMMA ReadStep ==
    ASSUME CaptureInv, NEW r \in Request, at[r].pc \in Reading, NEW x \in RequestState,
           Now(r, x), Scanning, x.pc \in {"head", "tail", "check"},
           x.root = at[r].root, x.meta = at[r].meta, x.todo = at[r].todo,
           x.entries = at[r].entries, x.whole = at[r].whole, x.seen = at[r].seen,
           x.plan = at[r].plan, x.gen = at[r].gen, x.item.name = at[r].item.name,
           x.item.thing = at[r].item.thing, x.item.meta = at[r].item.meta,
           x.pc \in {"head", "tail"} => at[r].item.thing.kind = "file",
           at[r].item.thing.kind \in {"file", "link"},
           x.pc \in {"tail", "check"} /\ SameSnapshot(r) =>
             /\ Seen(at[r].item.name, at[r].item) => x.item.data = at[r].item.thing.data
             /\ x.item.data # Torn =>
                  [name |-> at[r].item.name, meta |-> at[r].item.meta,
                   thing |-> [kind |-> at[r].item.thing.kind, data |-> x.item.data]] \in been
    PROVE  CaptureInv'
<1>1. /\ Types /\ Scanner(r) /\ Applier(r)
      /\ at[r].plan \in {0} \cup Plan /\ at[r].gen \in {0} \cup Scan
  BY DEF CaptureInv, Types, RequestTypes
<1>2. Goes(r, x) /\ at'[r] = x
  BY <1>1, RequestGoes DEF Goes
<1>3. /\ root' = root /\ dir' = dir /\ tree' = tree /\ change' = change /\ been' = been
      /\ unseen' = unseen /\ stored' = stored
  BY DEF Scanning, source
<1>4. Dates(r)'
  BY <1>1, <1>2, <1>3 DEF Scanner, Dates
<1>5. Lists(r)'
  BY <1>1, <1>2, <1>3 DEF Scanner, Lists, Locating, Walking, Reading, VerifyRoot, Present
<1>6. Reads(r)'
  <2>1. x.pc \notin {"file", "link"}
    OBVIOUS
  <2>2. SameSnapshot(r)' = SameSnapshot(r)
    BY <1>2, <1>3 DEF SameSnapshot, VerifyRoot, Here
  <2>3. /\ at[r].item.name \in Names
        /\ [name |-> at[r].item.name, thing |-> at[r].item.thing, meta |-> at[r].item.meta] \in been
        /\ SameSnapshot(r) /\ Seen(at[r].item.name, at[r].item) => at[r].item.thing = Here(r).thing
    BY <1>1 DEF Scanner, Reads
  <2>4. Here(r)' = Here(r)
    BY <1>2, <1>3 DEF Here
  <2> QED  BY <1>2, <1>3, <2>1, <2>2, <2>3, <2>4 DEF Reads, Seen
<1>7. Holds(r)'
  BY <1>1, <1>2, <1>3 DEF Scanner, Holds, Held, Was, Seen
<1>8. Applier(r)'
  BY <1>1, <1>2, <1>3 DEF Applier, Filed
<1> QED  BY <1>1, <1>2, <1>4, <1>5, <1>6, <1>7, <1>8, ScanStep DEF Scanner

LEMMA UnstableHolds ==
    ASSUME CaptureInv, NEW r \in Request, at[r].pc \in Reading, Unstable(r), Scanning
    PROVE  CaptureInv'
  BY AtItem, EmitHolds, ThingsTypes DEF Unstable, Walking

LEMMA OpenRegularHolds ==
    ASSUME CaptureInv, NEW r \in Request, OpenRegular(r)
    PROVE  CaptureInv'
<1>1. at[r].pc = "file" /\ at[r].pc \in Reading /\ Scanning /\ Scanner(r) /\ at[r] \in RequestState
      /\ Types
  BY DEF CaptureInv, Types, RequestTypes, OpenRegular, At, Reading
<1>2. CASE Unstable(r)
  BY <1>1, <1>2, UnstableHolds
<1>3. CASE OpenFailure(r)
  <2>1. [kind |-> "file", data |-> "none"] \in Thing
    BY DEF Thing
  <2> QED  BY <1>1, <1>3, <2>1, AtItem, EmitHolds DEF OpenFailure, Walking
<1>4. CASE Goto(r, "head")
  <2> DEFINE x == [at[r] EXCEPT !.pc = "head"]
  <2>1. Now(r, x)
    BY <1>4 DEF Goto, Now
  <2>2. /\ x \in RequestState /\ x.pc = "head" /\ x.root = at[r].root
        /\ x.meta = at[r].meta /\ x.item = at[r].item /\ x.todo = at[r].todo
        /\ x.entries = at[r].entries /\ x.whole = at[r].whole /\ x.seen = at[r].seen
        /\ x.plan = at[r].plan /\ x.gen = at[r].gen
    BY <1>1 DEF RequestState, Labels
  <2> HIDE DEF x
  <2>3. at[r].item.thing.kind = "file"
    BY <1>1 DEF Scanner, Reads
  <2> QED  BY <1>1, <2>1, <2>2, <2>3, ReadStep
<1> QED  BY <1>2, <1>3, <1>4 DEF OpenRegular

LEMMA ReadHeadHolds ==
    ASSUME CaptureInv, NEW r \in Request, NEW d \in Contents, ReadHead(r, d)
    PROVE  CaptureInv'
<1>1. /\ at[r].pc = "head" /\ at[r].pc \in Reading /\ Scanning /\ Scanner(r) /\ d \in Yields(r)
  BY DEF CaptureInv, ReadHead, At, Reading
<1> DEFINE x == [at[r] EXCEPT !.pc = "tail", !.item.data = d]
<1>2. Now(r, x)
  BY DEF ReadHead
<1>3.  /\ x \in RequestState /\ x.pc = "tail" /\ x.root = at[r].root
      /\ x.meta = at[r].meta /\ x.todo = at[r].todo
      /\ x.entries = at[r].entries /\ x.whole = at[r].whole /\ x.seen = at[r].seen
      /\ x.plan = at[r].plan /\ x.gen = at[r].gen
      /\ x.item.name = at[r].item.name /\ x.item.thing = at[r].item.thing
      /\ x.item.meta = at[r].item.meta /\ x.item.data = d
  BY <1>1, AtItem DEF RequestState, Labels, Item
<1> HIDE DEF x
<1>4. /\ at[r].item.thing.kind = "file"
      /\ [name |-> at[r].item.name, thing |-> at[r].item.thing, meta |-> at[r].item.meta] \in been
      /\ SameSnapshot(r) /\ Seen(at[r].item.name, at[r].item) => at[r].item.thing = Here(r).thing
  BY <1>1 DEF Scanner, Reads
<1>5. d = at[r].item.thing.data
      \/ (Here(r).thing.kind = "file" /\ d = Here(r).thing.data)
  BY <1>1 DEF Yields
<1>6. SameSnapshot(r) /\ Seen(at[r].item.name, at[r].item) => d = at[r].item.thing.data
  BY <1>4, <1>5
<1>7. ASSUME SameSnapshot(r)
      PROVE  [name |-> at[r].item.name, meta |-> at[r].item.meta,
              thing |-> [kind |-> at[r].item.thing.kind, data |-> d]] \in been
  <2>1. CASE d = at[r].item.thing.data
    <3>1. [kind |-> at[r].item.thing.kind, data |-> d] = at[r].item.thing
      BY <1>1, <2>1, AtItem, ThingsTypes
    <3> QED  BY <1>4, <3>1
  <2>2. CASE Here(r).thing.kind = "file" /\ d = Here(r).thing.data
    <3>1. [kind |-> at[r].item.thing.kind, data |-> d] = Here(r).thing
      BY <1>1, <1>4, <2>2, AtItem, ThingsTypes
    <3>2. Here(r).thing # Absent /\ Here(r).meta = at[r].item.meta
      BY <1>7, <2>2, ThingsTypes DEF SameSnapshot
    <3> QED  BY <1>1, <3>1, <3>2, AtItem
  <2> QED  BY <1>5, <2>1, <2>2
<1> QED  BY <1>1, <1>2, <1>3, <1>4, <1>6, <1>7, ReadStep

LEMMA ReadTailHolds ==
    ASSUME CaptureInv, NEW r \in Request, NEW d \in Contents, ReadTail(r, d)
    PROVE  CaptureInv'
<1>1. /\ at[r].pc = "tail" /\ at[r].pc \in Reading /\ Scanning /\ Scanner(r) /\ d \in Yields(r)
  BY DEF CaptureInv, ReadTail, At, Reading
<1> DEFINE both == IF at[r].item.data = d THEN d ELSE Torn
           x == [at[r] EXCEPT !.pc = "check", !.item.data = both]
<1>2. Now(r, x)
  BY DEF ReadTail
<1>3. both \in Contents \cup {Torn}
  OBVIOUS
<1> HIDE DEF both
<1>4.  /\ x \in RequestState /\ x.pc = "check" /\ x.root = at[r].root
      /\ x.meta = at[r].meta /\ x.todo = at[r].todo
      /\ x.entries = at[r].entries /\ x.whole = at[r].whole /\ x.seen = at[r].seen
      /\ x.plan = at[r].plan /\ x.gen = at[r].gen
      /\ x.item.name = at[r].item.name /\ x.item.thing = at[r].item.thing
      /\ x.item.meta = at[r].item.meta /\ x.item.data = both
  BY <1>1, <1>3, AtItem DEF RequestState, Labels, Item
<1> HIDE DEF x
<1>5. /\ at[r].item.thing.kind = "file"
      /\ SameSnapshot(r) /\ Seen(at[r].item.name, at[r].item) => at[r].item.thing = Here(r).thing
      /\ SameSnapshot(r) =>
           /\ Seen(at[r].item.name, at[r].item) => at[r].item.data = at[r].item.thing.data
           /\ at[r].item.data # Torn =>
                [name |-> at[r].item.name, meta |-> at[r].item.meta,
                 thing |-> [kind |-> at[r].item.thing.kind, data |-> at[r].item.data]] \in been
  BY <1>1 DEF Scanner, Reads
<1>6. d = at[r].item.thing.data
      \/ (Here(r).thing.kind = "file" /\ d = Here(r).thing.data)
  BY <1>1 DEF Yields
<1>7. SameSnapshot(r) /\ Seen(at[r].item.name, at[r].item) => both = at[r].item.thing.data
  BY <1>5, <1>6 DEF both
<1>8. SameSnapshot(r) /\ both # Torn =>
        [name |-> at[r].item.name, meta |-> at[r].item.meta,
         thing |-> [kind |-> at[r].item.thing.kind, data |-> both]] \in been
  BY <1>5 DEF both
<1> QED  BY <1>1, <1>2, <1>4, <1>5, <1>7, <1>8, ReadStep

LEMMA ReadlinkHolds ==
    ASSUME CaptureInv, NEW r \in Request, Readlink(r)
    PROVE  CaptureInv'
<1>1. /\ at[r].pc = "link" /\ at[r].pc \in Reading /\ Scanning /\ Scanner(r)
  BY DEF CaptureInv, Readlink, At, Reading
<1> DEFINE d == IF VerifyRoot(r) /\ Here(r).thing.kind = "link" THEN Here(r).thing.data ELSE Torn
           x == [at[r] EXCEPT !.pc = "check", !.item.data = d]
<1>2. Now(r, x)
  BY DEF Readlink
<1>3. d \in Contents \cup {Torn}
  BY <1>1, AtItem, ThingsTypes
<1> HIDE DEF d
<1>4.  /\ x \in RequestState /\ x.pc = "check" /\ x.root = at[r].root
      /\ x.meta = at[r].meta /\ x.todo = at[r].todo
      /\ x.entries = at[r].entries /\ x.whole = at[r].whole /\ x.seen = at[r].seen
      /\ x.plan = at[r].plan /\ x.gen = at[r].gen
      /\ x.item.name = at[r].item.name /\ x.item.thing = at[r].item.thing
      /\ x.item.meta = at[r].item.meta /\ x.item.data = d
  BY <1>1, <1>3, AtItem DEF RequestState, Labels, Item
<1> HIDE DEF x
<1>5. /\ at[r].item.thing.kind = "link"
      /\ SameSnapshot(r) /\ Seen(at[r].item.name, at[r].item) => at[r].item.thing = Here(r).thing
  BY <1>1 DEF Scanner, Reads
<1>6. SameSnapshot(r) /\ Seen(at[r].item.name, at[r].item) => d = at[r].item.thing.data
  BY <1>5 DEF d, SameSnapshot
<1>7. ASSUME SameSnapshot(r), d # Torn
      PROVE  [name |-> at[r].item.name, meta |-> at[r].item.meta,
              thing |-> [kind |-> at[r].item.thing.kind, data |-> d]] \in been
  <2>1. Here(r).thing.kind = "link" /\ d = Here(r).thing.data
    BY <1>7 DEF d
  <2>2. [kind |-> at[r].item.thing.kind, data |-> d] = Here(r).thing
    BY <1>1, <1>5, <2>1, AtItem, ThingsTypes
  <2>3. Here(r).thing # Absent /\ Here(r).meta = at[r].item.meta
    BY <1>7, <2>1, ThingsTypes DEF SameSnapshot
  <2> QED  BY <1>1, <2>2, <2>3, AtItem
<1> QED  BY <1>1, <1>2, <1>4, <1>5, <1>6, <1>7, ReadStep

LEMMA PostStatHolds ==
    ASSUME CaptureInv, NEW r \in Request, PostStat(r)
    PROVE  CaptureInv'
<1>1. /\ at[r].pc = "check" /\ at[r].pc \in Reading /\ Scanning /\ Scanner(r)
  BY DEF CaptureInv, PostStat, At, Reading
<1>2. CASE ~SameSnapshot(r)
  BY <1>1, <1>2, UnstableHolds DEF PostStat
<1>3. CASE SameSnapshot(r)
  <2> DEFINE thing == [kind |-> at[r].item.thing.kind, data |-> at[r].item.data]
  <2>1. Emit(r, at[r].item, "COMPLETE", thing, TRUE)
    BY <1>3 DEF PostStat
  <2>2. /\ at[r].item.thing.kind \in {"file", "link"}
        /\ [name |-> at[r].item.name, thing |-> at[r].item.thing, meta |-> at[r].item.meta] \in been
        /\ Seen(at[r].item.name, at[r].item) => at[r].item.data = at[r].item.thing.data
        /\ at[r].item.data # Torn =>
             [name |-> at[r].item.name, thing |-> thing, meta |-> at[r].item.meta] \in been
    BY <1>1, <1>3 DEF Scanner, Reads
  <2>3. thing \in Thing /\ thing.data = at[r].item.data
    BY <1>1, <2>2, AtItem, ThingsTypes
  <2>4. Seen(at[r].item.name, at[r].item) => thing = at[r].item.thing
    BY <1>1, <2>2, AtItem, ThingsTypes
  <2> HIDE DEF thing
  <2> QED  BY <1>1, <2>1, <2>2, <2>3, <2>4, AtItem, EmitHolds DEF Walking
<1> QED  BY <1>2, <1>3

LEMMA LstatRootAgainHolds ==
    ASSUME CaptureInv, NEW r \in Request, LstatRootAgain(r)
    PROVE  CaptureInv'
<1>1. /\ Types /\ Dated /\ Recorded /\ Scanner(r) /\ Applier(r) /\ at[r] \in RequestState
      /\ at[r].pc = "walk" /\ at[r].plan \in {0} \cup Plan /\ at[r].gen \in {0} \cup Scan
      /\ at[r].todo = {} /\ Scanning
  BY DEF CaptureInv, Types, RequestTypes, LstatRootAgain, At
<1> DEFINE w == VerifyRoot(r) /\ dir = at[r].meta
           x == [at[r] EXCEPT !.pc = "scanned", !.whole = w]
<1>2. Now(r, x)
  BY DEF LstatRootAgain
<1>3. w \in BOOLEAN
  OBVIOUS
<1>4. w => [meta |-> at[r].meta, names |-> DOMAIN at[r].entries] \in listed
  <2>1. w => DOMAIN at[r].entries = Present
    BY <1>1 DEF Scanner, Lists, Walking
  <2> QED  BY <1>1, <2>1 DEF Recorded
<1> HIDE DEF w
<1>5. /\ x \in RequestState /\ x.pc = "scanned" /\ x.root = at[r].root
      /\ x.meta = at[r].meta /\ x.todo = at[r].todo /\ x.item = at[r].item
      /\ x.entries = at[r].entries /\ x.whole = w /\ x.seen = at[r].seen
      /\ x.plan = at[r].plan /\ x.gen = at[r].gen
  BY <1>1, <1>3 DEF RequestState, Labels
<1>6. Goes(r, x) /\ at'[r] = x
  BY <1>1, <1>2, <1>5, RequestGoes DEF Goes
<1> HIDE DEF x
<1>7. /\ root' = root /\ change' = change /\ been' = been /\ listed' = listed
      /\ unseen' = unseen /\ stored' = stored
  BY <1>1 DEF Scanning, source
<1>8. Dates(r)' /\ Reads(r)' /\ Holds(r)'
  BY <1>1, <1>5, <1>6, <1>7 DEF Scanner, Dates, Reads, Reading, Holds, Held, Was, Seen
<1>9. Lists(r)'
  BY <1>4, <1>5, <1>6, <1>7 DEF Lists, Locating, Walking, Reading, Listed, Basis
<1>10. Applier(r)'
  BY <1>1, <1>5, <1>6, <1>7 DEF Applier, Filed
<1> QED  BY <1>1, <1>5, <1>6, <1>8, <1>9, <1>10, ScanStep DEF Scanner

-----------------------------------------------------------------------------
(* Plans, and scans *)

LEMMA RestHolds ==
    ASSUME Dated, SourceTypes, NEW r \in Request, at'[r] = Rest, UNCHANGED source
    PROVE  Scanner(r)' /\ Applier(r)'
<1>1. 0 <= root /\ 0 <= change
  BY Constants DEF SourceTypes, Meta
<1>2. Scanner(r)'
  BY <1>1, RestTypes, ListingTypes
     DEF Scanner, Dates, Lists, Reads, Holds, Locating, Walking, Reading, source
<1>3. Applier(r)'
  BY RestTypes DEF Applier, Filed
<1> QED  BY <1>2, <1>3

LEMMA SequenceExcept ==
    ASSUME NEW S, NEW s \in Seq(S), NEW i \in 1..Len(s), NEW v \in S
    PROVE  /\ [s EXCEPT ![i] = v] \in Seq(S) /\ Len([s EXCEPT ![i] = v]) = Len(s)
           /\ \A j \in 1..Len(s) : [s EXCEPT ![i] = v][j] = IF j = i THEN v ELSE s[j]
<1> DEFINE t == [s EXCEPT ![i] = v]
<1>1. /\ s \in [1..Len(s) -> S] /\ DOMAIN s = 1..Len(s) /\ Len(s) \in Nat
  OBVIOUS
<1>2. /\ t \in [1..Len(s) -> S] /\ DOMAIN t = 1..Len(s)
      /\ \A j \in 1..Len(s) : t[j] = IF j = i THEN v ELSE s[j]
  BY <1>1
<1> HIDE DEF t
<1>3. t \in Seq(S) /\ Len(t) = Len(s)
  BY <1>1, <1>2
<1> QED  BY <1>2, <1>3 DEF t

\* One plan changes.
LEMMA PlanChanges ==
    ASSUME plans \in Seq(PlanRow), NEW k \in Plan, NEW row \in PlanRow,
           plans' = [plans EXCEPT ![k] = row]
    PROVE  /\ plans' \in Seq(PlanRow) /\ Plan' = Plan
           /\ \A j \in Plan : plans'[j] = IF j = k THEN row ELSE plans[j]
  BY SequenceExcept DEF Plan

\* A plan is closed.
LEMMA Closes ==
    ASSUME plans \in Seq(PlanRow), NEW k, plans' = [plans EXCEPT ![k].open = FALSE]
    PROVE  /\ plans' \in Seq(PlanRow) /\ Plan' = Plan
           /\ \A j \in Plan : plans'[j].basis = plans[j].basis /\ (plans'[j].open => plans[j].open)
<1>1. CASE k \notin DOMAIN plans
  <2>1. plans' = plans
    BY <1>1
  <2> QED  BY <2>1 DEF Plan
<1>2. CASE k \in DOMAIN plans
  <2> DEFINE row == [plans[k] EXCEPT !.open = FALSE]
  <2>1. k \in 1..Len(plans) /\ plans[k] \in PlanRow
    BY <1>2
  <2>2. row \in PlanRow /\ row.basis = plans[k].basis /\ row.open = FALSE
    BY <2>1 DEF PlanRow
  <2>3. plans' = [plans EXCEPT ![k] = row]
    OBVIOUS
  <2>4. row \in PlanRow
    BY <2>2
  <2> HIDE DEF row
  <2>5. k \in Plan
    BY <2>1 DEF Plan
  <2>6. /\ plans' \in Seq(PlanRow) /\ Plan' = Plan
        /\ \A j \in Plan : plans'[j] = IF j = k THEN row ELSE plans[j]
    BY <2>3, <2>4, <2>5, PlanChanges
  <2> QED  BY <2>2, <2>6
<1> QED  BY <1>1, <1>2

\* One row of scan_generations changes.
LEMMA RowChanges ==
    ASSUME scans \in Seq(ScanRow), NEW g \in Scan, NEW row \in ScanRow,
           scans' = [scans EXCEPT ![g] = row]
    PROVE  /\ scans' \in Seq(ScanRow) /\ Scan' = Scan
           /\ \A h \in Scan : scans'[h] = IF h = g THEN row ELSE scans[h]
  BY SequenceExcept DEF Scan

\* The properties survive a step that adopts nothing.
LEMMA NothingAdopted ==
    ASSUME CaptureInv, UNCHANGED <<been, listed, unseen, protection>>,
           stored \subseteq stored', Scan' = Scan,
           \A h \in Scan :
             /\ scans'[h].basis = scans[h].basis /\ scans'[h].subject = scans[h].subject
             /\ scans'[h].adopted = scans[h].adopted
             /\ scans[h].projected => scans'[h].projected,
           Published' = Published \/ \E g \in Scan : Published' = Published \cup {g},
           \A k \in Plan' : plans'[k].open =>
              k \in Plan /\ plans[k].open /\ plans'[k].basis = plans[k].basis
    PROVE  Allocated' /\ ContentWasThere' /\ ClaimsAreStored' /\ SubjectsArePublished'
<1>1. Allocated /\ ContentWasThere /\ ClaimsAreStored /\ SubjectsArePublished
  BY DEF CaptureInv
<1>2. \A h \in Scan : h \in Nat
  BY DEF Scan
<1>3. Published \subseteq Scan
  BY DEF Published
<1>4. \A g \in Scan : \A n \in DOMAIN scans[g].subject : scans[g].subject[n].gen \in Scan
  BY <1>1 DEF Allocated
<1>5. (Published # {})' => \E g \in Published' : \A h \in Published' : h <= g
  <2>1. CASE Published' = Published
    BY <1>1, <2>1 DEF Allocated
  <2>2. CASE \E g \in Scan : Published' = Published \cup {g}
    <3>1. PICK g \in Scan : Published' = Published \cup {g}
      BY <2>2
    <3>2. CASE Published = {}
      BY <1>2, <3>1, <3>2
    <3>3. CASE Published # {}
      <4>1. PICK m \in Published : \A h \in Published : h <= m
        BY <1>1, <3>3 DEF Allocated
      <4> QED  BY <1>2, <1>3, <3>1, <4>1
    <3> QED  BY <3>2, <3>3
  <2> QED  BY <2>1, <2>2
<1>6. Allocated'
  BY <1>4, <1>5 DEF Allocated
<1>7. ContentWasThere'
  <2>1. \A k \in Plan' : plans'[k].open =>
          /\ Listed(plans[k].basis)
          /\ \A n \in DOMAIN plans'[k].basis.entries :
               LET e == plans'[k].basis.entries[n] IN
               e.state = "COMPLETE" /\ Seen(n, e) => Was(n, e)
    BY <1>1 DEF ContentWasThere
  <2>2. \A g \in Scan' : scans'[g].adopted =>
          \A n \in DOMAIN scans'[g].basis.entries :
            LET e == scans'[g].basis.entries[n] IN
            Claim(scans'[g].basis.entries, n) # "none" => Was(n, e)
    BY <1>1 DEF ContentWasThere
  <2> QED  BY <2>1, <2>2 DEF ContentWasThere, Listed, Seen, Was, Claim
<1>8. ClaimsAreStored'
  BY <1>1 DEF ClaimsAreStored, Claim
<1>9. SubjectsArePublished'
  <2> SUFFICES ASSUME NEW g \in Scan', NEW n \in DOMAIN scans'[g].subject
               PROVE  /\ scans'[g].subject[n].name = n
                      /\ scans'[g].subject[n].gen # g =>
                           /\ scans'[scans'[g].subject[n].gen].projected
                           /\ scans'[scans'[g].subject[n].gen].basis.entries[n].thing.kind
                                = scans'[g].basis.entries[n].thing.kind
    BY DEF SubjectsArePublished
  <2>1. g \in Scan /\ scans'[g].subject = scans[g].subject /\ scans'[g].basis = scans[g].basis
    OBVIOUS
  <2>2. scans[g].subject[n].gen \in Scan
    BY <1>4, <2>1
  <2>3. /\ scans[g].subject[n].name = n
        /\ scans[g].subject[n].gen # g =>
             /\ scans[scans[g].subject[n].gen].projected
             /\ scans[scans[g].subject[n].gen].basis.entries[n].thing.kind
                  = scans[g].basis.entries[n].thing.kind
    BY <1>1, <2>1 DEF SubjectsArePublished
  <2> QED  BY <2>1, <2>2, <2>3
<1> QED  BY <1>6, <1>7, <1>8, <1>9

\* A step of a request at work on a plan.
LEMMA ApplyStep ==
    ASSUME CaptureInv, NEW r \in Request, NEW x \in RequestState, Goes(r, x),
           UNCHANGED source, RowTypes', faults' \in 0..MaxFaults,
           Plan \subseteq Plan', Scan \subseteq Scan',
           \A g \in Scan : scans'[g].basis = scans[g].basis,
           stored \subseteq stored', stored' \subseteq Contents,
           x.plan \in {0} \cup Plan', x.gen \in {0} \cup Scan', Scanner(r)', Applier(r)',
           Allocated', ContentWasThere', ClaimsAreStored', SubjectsArePublished'
    PROVE  CaptureInv'
<1>1. Types /\ Dated /\ Recorded
  BY DEF CaptureInv
<1>2. Types'
  BY <1>1 DEF Types, SourceTypes, RequestTypes, source, Goes
<1>3. Dated' /\ Recorded'
  BY <1>1, SourceSame
<1>4. ASSUME NEW q \in Request \ {r}
      PROVE  Scanner(q)' /\ Applier(q)'
  BY <1>4, ScannerBeside, ApplierBeside DEF CaptureInv, Goes
<1> QED  BY <1>2, <1>3, <1>4 DEF CaptureInv

LEMMA RecordPlanHolds ==
    ASSUME CaptureInv, NEW r \in Request, RecordPlan(r)
    PROVE  CaptureInv'
<1>1. /\ Types /\ Dated /\ Scanner(r) /\ at[r] \in RequestState /\ Now(r, Rest)
      /\ UNCHANGED <<source, stored, catalog, faults>>
  BY DEF CaptureInv, Types, RequestTypes, RecordPlan
<1>2. Goes(r, Rest) /\ at'[r] = Rest
  BY <1>1, RestTypes, RequestGoes DEF Goes
<1>3. Scanner(r)' /\ Applier(r)'
  BY <1>1, <1>2, RestHolds DEF Types
<1>4. Allocated' /\ SubjectsArePublished' /\ ClaimsAreStored'
  BY <1>1, ScansSame DEF CaptureInv
<1>5. /\ UNCHANGED <<been, listed, unseen, scans>> /\ Scan' = Scan
  BY <1>1 DEF source, catalog, Scan
<1>6. CASE plans' = plans
  <2>1. Plan' = Plan /\ RowTypes'
    BY <1>1, <1>5, <1>6 DEF Plan, Types, RowTypes
  <2>2. ContentWasThere'
    BY <1>5, <1>6, <2>1, WasSame DEF CaptureInv
  <2> QED  BY <1>1, <1>2, <1>3, <1>4, <1>5, <2>1, <2>2, RestTypes, ApplyStep DEF Types
<1>7. CASE plans' = Append(plans, [basis |-> Basis(r), approved |-> at[r].approved,
                                   open |-> Qualified(r)])
  <2> DEFINE row == [basis |-> Basis(r), approved |-> at[r].approved, open |-> Qualified(r)]
  <2>1. Basis(r) \in DirectoryBasis /\ Qualified(r) \in BOOLEAN
    BY <1>1 DEF Basis, DirectoryBasis, RequestState, Qualified
  <2>2. row \in PlanRow /\ row.basis = Basis(r) /\ row.open = Qualified(r)
    BY <1>1, <2>1 DEF PlanRow, RequestState
  <2> HIDE DEF row
  <2>3. plans \in Seq(PlanRow) /\ plans' = Append(plans, row)
    BY <1>1, <1>7 DEF row, Types, RowTypes
  <2>4. /\ plans' \in Seq(PlanRow) /\ Len(plans') = Len(plans) + 1 /\ Len(plans) \in Nat
        /\ plans'[Len(plans) + 1] = row
        /\ \A k \in 1..Len(plans) : plans'[k] = plans[k]
    BY <2>2, <2>3
  <2>5. Plan' = Plan \cup {Len(plans) + 1} /\ \A k \in Plan : plans'[k] = plans[k]
    BY <2>4 DEF Plan
  <2>6. RowTypes'
    BY <1>1, <1>5, <2>4, <2>5 DEF Types, RowTypes
  <2>7. row.open =>
          /\ Listed(Basis(r))
          /\ \A n \in DOMAIN at[r].entries :
               at[r].entries[n].state = "COMPLETE" /\ Seen(n, at[r].entries[n])
                 => Was(n, at[r].entries[n])
    BY <1>1, <2>2 DEF Qualified, Scanner, Lists, Holds, Held
  <2>8. row.basis.entries = at[r].entries
    BY <2>2 DEF Basis
  <2>9. ContentWasThere'
    <3>1. ASSUME NEW k \in Plan', plans'[k].open
          PROVE  /\ Listed(plans'[k].basis)
                 /\ \A n \in DOMAIN plans'[k].basis.entries :
                      LET e == plans'[k].basis.entries[n] IN
                      e.state = "COMPLETE" /\ Seen(n, e) => Was(n, e)
      <4>1. CASE k \in Plan
        BY <2>5, <3>1, <4>1 DEF CaptureInv, ContentWasThere
      <4>2. CASE k = Len(plans) + 1
        BY <2>2, <2>4, <2>7, <2>8, <3>1, <4>2
      <4> QED  BY <2>5, <4>1, <4>2
    <3> QED  BY <1>5, <3>1 DEF CaptureInv, ContentWasThere, Listed, Seen, Was
  <2> QED  BY <1>1, <1>2, <1>3, <1>4, <1>5, <2>5, <2>6, <2>9, RestTypes, ApplyStep DEF Types
<1> QED  BY <1>6, <1>7 DEF RecordPlan

\* The plans are as they were, or one is closed.
PlansKeep ==
  /\ plans' \in Seq(PlanRow) /\ Plan' = Plan
  /\ \A k \in Plan : plans'[k].basis = plans[k].basis /\ (plans'[k].open => plans[k].open)

\* The scans are as they were, but for what has become of one.
ScansKeep ==
  /\ scans' \in Seq(ScanRow) /\ Scan' = Scan
  /\ \A h \in Scan :
       /\ scans'[h].plan = scans[h].plan /\ scans'[h].basis = scans[h].basis
       /\ scans'[h].subject = scans[h].subject /\ scans'[h].adopted = scans[h].adopted
       /\ scans[h].projected => scans'[h].projected
  /\ Published' = Published \/ \E g \in Scan : Published' = Published \cup {g}

LEMMA SameKeeps ==
    ASSUME RowTypes
    PROVE  /\ plans' = plans => PlansKeep
           /\ scans' = scans => ScansKeep
<1>1. plans' = plans => PlansKeep
  BY DEF PlansKeep, RowTypes, Plan
<1>2. scans' = scans => ScansKeep
  BY DEF ScansKeep, RowTypes, Scan, Published
<1> QED  BY <1>1, <1>2

LEMMA RowKeeps ==
    ASSUME scans \in Seq(ScanRow), NEW g \in Scan, NEW row \in ScanRow,
           scans' = [scans EXCEPT ![g] = row],
           row.plan = scans[g].plan, row.basis = scans[g].basis,
           row.subject = scans[g].subject, row.adopted = scans[g].adopted,
           scans[g].projected => row.projected
    PROVE  ScansKeep
<1>1. /\ scans' \in Seq(ScanRow) /\ Scan' = Scan
      /\ \A h \in Scan : scans'[h] = IF h = g THEN row ELSE scans[h]
  BY RowChanges
<1>2. Published' = Published \/ Published' = Published \cup {g}
  <2>1. Published' = {h \in Scan : scans'[h].projected}
    BY <1>1 DEF Published
  <2>2. CASE row.projected
    <3>1. Published' = Published \cup {g}
      BY <1>1, <2>1, <2>2 DEF Published
    <3> QED  BY <3>1
  <2>3. CASE ~row.projected
    <3>1. Published' = Published
      BY <1>1, <2>1, <2>3 DEF Published
    <3> QED  BY <3>1
  <2> QED  BY <2>2, <2>3
<1> QED  BY <1>1, <1>2 DEF ScansKeep

LEMMA StatusKeeps ==
    ASSUME scans \in Seq(ScanRow), NEW g \in Scan,
           \/ \E s \in ScanState : scans' = [scans EXCEPT ![g].state = s]
           \/ scans' = [scans EXCEPT ![g].committed = TRUE]
           \/ scans' = [scans EXCEPT ![g].projected = TRUE]
    PROVE  ScansKeep
<1>1. scans[g] \in ScanRow
  BY DEF Scan
<1>2. ASSUME NEW s \in ScanState, scans' = [scans EXCEPT ![g].state = s]
      PROVE  ScansKeep
  <2> DEFINE row == [scans[g] EXCEPT !.state = s]
  <2>1. scans' = [scans EXCEPT ![g] = row]
    BY <1>2
  <2>2. /\ row \in ScanRow /\ row.plan = scans[g].plan /\ row.basis = scans[g].basis
        /\ row.subject = scans[g].subject /\ row.adopted = scans[g].adopted
        /\ row.projected = scans[g].projected
    BY <1>1 DEF ScanRow
  <2> HIDE DEF row
  <2> QED  BY <2>1, <2>2, RowKeeps
<1>3. CASE scans' = [scans EXCEPT ![g].committed = TRUE]
  <2> DEFINE row == [scans[g] EXCEPT !.committed = TRUE]
  <2>1. scans' = [scans EXCEPT ![g] = row]
    BY <1>3
  <2>2. /\ row \in ScanRow /\ row.plan = scans[g].plan /\ row.basis = scans[g].basis
        /\ row.subject = scans[g].subject /\ row.adopted = scans[g].adopted
        /\ row.projected = scans[g].projected
    BY <1>1 DEF ScanRow
  <2> HIDE DEF row
  <2> QED  BY <2>1, <2>2, RowKeeps
<1>4. CASE scans' = [scans EXCEPT ![g].projected = TRUE]
  <2> DEFINE row == [scans[g] EXCEPT !.projected = TRUE]
  <2>1. scans' = [scans EXCEPT ![g] = row]
    BY <1>4
  <2>2. /\ row \in ScanRow /\ row.plan = scans[g].plan /\ row.basis = scans[g].basis
        /\ row.subject = scans[g].subject /\ row.adopted = scans[g].adopted
        /\ row.projected
    BY <1>1 DEF ScanRow
  <2> HIDE DEF row
  <2> QED  BY <2>1, <2>2, RowKeeps
<1> QED  BY <1>2, <1>3, <1>4

LEMMA KeepStep ==
    ASSUME CaptureInv, NEW r \in Request, NEW x \in RequestState, Goes(r, x),
           UNCHANGED <<source, protection>>, PlansKeep, ScansKeep, faults' \in 0..MaxFaults,
           stored \subseteq stored', stored' \subseteq Contents,
           x.plan \in {0} \cup Plan, x.gen \in {0} \cup Scan, Scanner(r)', Applier(r)'
    PROVE  CaptureInv'
<1>1. RowTypes'
  BY DEF CaptureInv, Types, RowTypes, PlansKeep, ScansKeep
<1>2. UNCHANGED <<been, listed, unseen, protection>>
  BY DEF source
<1>3. Allocated' /\ ContentWasThere' /\ ClaimsAreStored' /\ SubjectsArePublished'
  BY <1>2, NothingAdopted DEF PlansKeep, ScansKeep
<1> QED  BY <1>1, <1>3, ApplyStep DEF PlansKeep, ScansKeep

LEMMA ReturnStep ==
    ASSUME CaptureInv, NEW r \in Request, Return(r),
           UNCHANGED <<source, stored, protection>>, ScansKeep, faults' \in 0..MaxFaults
    PROVE  CaptureInv'
<1>1. Types /\ Dated /\ plans \in Seq(PlanRow)
  BY DEF CaptureInv, Types, RowTypes
<1>2. Goes(r, Rest) /\ at'[r] = Rest
  BY <1>1, RestTypes, RequestGoes DEF Goes, Return
<1>3. Scanner(r)' /\ Applier(r)'
  BY <1>1, <1>2, RestHolds DEF Types
<1>4. PlansKeep
  BY <1>1, Closes DEF Return, PlansKeep
<1> QED  BY <1>1, <1>2, <1>3, <1>4, RestTypes, KeepStep DEF Types

LEMMA GoStep ==
    ASSUME CaptureInv, NEW r \in Request, NEW to \in {"begin", "publish", "project"}, Goto(r, to),
           at[r].pc \in {"scanned", "finish", "publish"}, at[r].plan # 0,
           to # "begin" => at[r].pc \in Filed,
           UNCHANGED <<source, stored, protection, plans, faults>>, ScansKeep
    PROVE  CaptureInv'
<1>1. /\ Types /\ Scanner(r) /\ Applier(r) /\ at[r] \in RequestState /\ RowTypes
      /\ at[r].plan \in {0} \cup Plan /\ at[r].gen \in {0} \cup Scan
  BY DEF CaptureInv, Types, RequestTypes
<1> DEFINE x == [at[r] EXCEPT !.pc = to]
<1>2. Now(r, x)
  BY DEF Goto, Now
<1>3. /\ x \in RequestState /\ x.pc = to /\ x.root = at[r].root
      /\ x.meta = at[r].meta /\ x.todo = at[r].todo /\ x.item = at[r].item
      /\ x.entries = at[r].entries /\ x.whole = at[r].whole /\ x.seen = at[r].seen
      /\ x.plan = at[r].plan /\ x.gen = at[r].gen
  BY <1>1 DEF RequestState, Labels
<1>4. Goes(r, x) /\ at'[r] = x
  BY <1>1, <1>2, <1>3, RequestGoes DEF Goes
<1> HIDE DEF x
<1>5. /\ root' = root /\ change' = change /\ been' = been /\ listed' = listed
      /\ unseen' = unseen /\ stored' = stored
  BY DEF source
<1>6. Scanner(r)'
  BY <1>1, <1>3, <1>4, <1>5 DEF Scanner, Dates, Lists, Reads, Reading, Locating, Walking, Holds,
     Held, Was, Seen, Listed, Basis
<1>7. Applier(r)'
  BY <1>1, <1>3, <1>4, <1>5 DEF Applier, Filed, Basis, ScansKeep
<1>8. PlansKeep
  BY <1>1, SameKeeps
<1> QED  BY <1>1, <1>3, <1>4, <1>6, <1>7, <1>8, KeepStep DEF Types

LEMMA CompareHolds ==
    ASSUME CaptureInv, NEW r \in Request, Compare(r)
    PROVE  CaptureInv'
<1>1. /\ at[r].pc = "scanned" /\ at[r].plan # 0 /\ RowTypes /\ faults \in 0..MaxFaults
      /\ UNCHANGED <<source, stored, protection, faults>> /\ scans' = scans
  BY DEF CaptureInv, Types, Compare, At, catalog
<1>2. ScansKeep
  BY <1>1, SameKeeps
<1>3. CASE Goto(r, "begin") /\ UNCHANGED plans
  BY <1>1, <1>2, <1>3, GoStep
<1>4. CASE Return(r)
  BY <1>1, <1>2, <1>4, ReturnStep
<1> QED  BY <1>3, <1>4 DEF Compare

LEMMA FailScanHolds ==
    ASSUME CaptureInv, NEW r \in Request, at[r].pc \in Filed, FailScan(r),
           UNCHANGED <<source, stored>>, faults' \in 0..MaxFaults
    PROVE  CaptureInv'
<1>1. at[r].gen \in Scan /\ scans \in Seq(ScanRow)
  BY DEF CaptureInv, Applier, Types, RowTypes
<1>2. ScansKeep
  BY <1>1, StatusKeeps DEF FailScan, ScanState
<1> QED  BY <1>2, ReturnStep DEF FailScan

LEMMA FinishScanHolds ==
    ASSUME CaptureInv, NEW r \in Request, FinishScan(r)
    PROVE  CaptureInv'
<1>1. at[r].pc = "finish" /\ at[r].pc \in Filed
  BY DEF FinishScan, At, Filed
<1>2. at[r].gen \in Scan /\ at[r].plan # 0 /\ scans \in Seq(ScanRow)
  BY <1>1 DEF CaptureInv, Applier, Types, RowTypes
<1>3. ScansKeep
  BY <1>2, StatusKeeps DEF FinishScan, ScanState
<1> QED  BY <1>1, <1>2, <1>3, GoStep DEF FinishScan

LEMMA PublishHolds ==
    ASSUME CaptureInv, NEW r \in Request, Publish(r)
    PROVE  CaptureInv'
<1>1. at[r].pc = "publish" /\ at[r].pc \in Filed
  BY DEF Publish, At, Filed
<1>2. at[r].gen \in Scan /\ at[r].plan # 0 /\ scans \in Seq(ScanRow)
  BY <1>1 DEF CaptureInv, Applier, Types, RowTypes
<1>3. ScansKeep
  BY <1>2, StatusKeeps DEF Publish, Committed
<1> QED  BY <1>1, <1>2, <1>3, GoStep DEF Publish, Committed

LEMMA ProjectHolds ==
    ASSUME CaptureInv, NEW r \in Request, Project(r)
    PROVE  CaptureInv'
<1>1. at[r].pc \in Filed
  BY DEF Project, At, Filed
<1>2. at[r].gen \in Scan /\ scans \in Seq(ScanRow) /\ faults \in 0..MaxFaults
  BY <1>1 DEF CaptureInv, Applier, Types, RowTypes
<1>3. ScansKeep
  BY <1>2, StatusKeeps DEF Project
<1> QED  BY <1>2, <1>3, ReturnStep DEF Project

LEMMA FaultTypes ==
    ASSUME faults \in 0..MaxFaults, Fault
    PROVE  faults' \in 0..MaxFaults
  BY Constants DEF Fault

LEMMA StepFailsHolds ==
    ASSUME CaptureInv, NEW r \in Request, StepFails(r)
    PROVE  CaptureInv'
<1>1. /\ faults' \in 0..MaxFaults /\ RowTypes /\ scans' = scans /\ protection' = protection
  BY FaultTypes DEF CaptureInv, Types, StepFails, catalog
<1>2. ScansKeep
  BY <1>1, SameKeeps
<1> QED  BY <1>1, <1>2, ReturnStep DEF StepFails

LEMMA ScanFailsHolds ==
    ASSUME CaptureInv, NEW r \in Request, ScanFails(r)
    PROVE  CaptureInv'
<1>1. faults' \in 0..MaxFaults /\ at[r].pc \in Filed
  BY FaultTypes DEF CaptureInv, Types, ScanFails, At, Filed
<1> QED  BY <1>1, FailScanHolds DEF ScanFails

LEMMA CommitAnswerLostHolds ==
    ASSUME CaptureInv, NEW r \in Request, CommitAnswerLost(r)
    PROVE  CaptureInv'
<1>1. faults' \in 0..MaxFaults /\ at[r].pc \in Filed
  BY FaultTypes DEF CaptureInv, Types, CommitAnswerLost, At, Filed
<1>2. at[r].gen \in Scan /\ scans \in Seq(ScanRow)
  BY <1>1 DEF CaptureInv, Applier, Types, RowTypes
<1>3. ScansKeep
  BY <1>2, StatusKeeps DEF CommitAnswerLost, Committed
<1> QED  BY <1>1, <1>3, ReturnStep DEF CommitAnswerLost, Committed

-----------------------------------------------------------------------------
(* Steps that leave every request as it is, or put all of them to rest *)

\* A committed publication is projected.
LEMMA ReconcileHolds ==
    ASSUME CaptureInv, NEW g \in Scan, Reconcile(g)
    PROVE  CaptureInv'
<1>1. /\ Types /\ RowTypes /\ scans \in Seq(ScanRow)
      /\ UNCHANGED <<source, stored, plans, protection, at, faults>>
  BY DEF CaptureInv, Types, RowTypes, Reconcile
<1>2. ScansKeep /\ PlansKeep
  BY <1>1, StatusKeeps, SameKeeps DEF Reconcile
<1>3. Types'
  BY <1>1, <1>2 DEF Types, SourceTypes, RequestTypes, RowTypes, source, ScansKeep, PlansKeep
<1>4. Dated' /\ Recorded'
  BY <1>1, SourceSame DEF CaptureInv
<1>5. UNCHANGED <<been, listed, unseen, protection>> /\ stored' = stored
  BY <1>1 DEF source
<1>6. Allocated' /\ ContentWasThere' /\ ClaimsAreStored' /\ SubjectsArePublished'
  BY <1>2, <1>5, NothingAdopted DEF PlansKeep, ScansKeep
<1>7. ASSUME NEW q \in Request
      PROVE  Scanner(q)' /\ Applier(q)'
  BY <1>1, <1>2, <1>7, ScannerBeside, ApplierBeside DEF CaptureInv, ScansKeep
<1> QED  BY <1>3, <1>4, <1>6, <1>7 DEF CaptureInv

LEMMA KillHolds ==
    ASSUME CaptureInv, Kill
    PROVE  CaptureInv'
<1>1. /\ Types /\ RowTypes /\ Dated /\ SourceTypes
      /\ UNCHANGED <<source, stored, plans, scans, protection>>
      /\ at' = [r \in Request |-> Rest] /\ faults' \in 0..MaxFaults
  BY FaultTypes DEF CaptureInv, Types, Kill, catalog
<1>2. ScansKeep /\ PlansKeep
  BY <1>1, SameKeeps
<1>3. Types'
  BY <1>1, <1>2, RestTypes
     DEF Types, SourceTypes, RequestTypes, RowTypes, source, ScansKeep, PlansKeep
<1>4. Dated' /\ Recorded'
  BY <1>1, SourceSame DEF CaptureInv
<1>5. UNCHANGED <<been, listed, unseen, protection>> /\ stored' = stored
  BY <1>1 DEF source
<1>6. Allocated' /\ ContentWasThere' /\ ClaimsAreStored' /\ SubjectsArePublished'
  BY <1>2, <1>5, NothingAdopted DEF PlansKeep, ScansKeep
<1>7. ASSUME NEW q \in Request
      PROVE  Scanner(q)' /\ Applier(q)'
  BY <1>1, <1>7, RestHolds
<1> QED  BY <1>3, <1>4, <1>6, <1>7 DEF CaptureInv

\* What a change of the directory does: what has a metadata of before is as it
\* was, or was written unseen; a name appears or goes with the directory's.
Moves ==
  /\ change' = change + 1 /\ root' \in {root, root + 1} /\ dir' \in {dir, change + 1}
  /\ been \subseteq been' /\ listed \subseteq listed' /\ unseen \subseteq unseen'
  /\ root' = root /\ dir' = dir => Present' = Present
  /\ root' = root => \A n \in Names :
       \/ tree'[n].meta = change + 1
       \/ /\ tree'[n].meta = tree[n].meta
          /\ \/ tree'[n].thing = tree[n].thing
             \/ [name |-> n, meta |-> tree[n].meta] \in unseen'

LEMMA ChangedTypes ==
    ASSUME CaptureInv, NEW t \in [Names -> [thing : Things, meta : Meta']], Changed(t),
           root' \in {root, root + 1}, dir' \in {dir, change + 1},
           \A n \in Names : t[n].meta <= change + 1
    PROVE  Types' /\ Dated' /\ Recorded'
<1>1. /\ Types /\ SourceTypes /\ RowTypes /\ RequestTypes /\ Dated
      /\ change' = change + 1 /\ change < MaxChanges /\ tree' = t
      /\ UNCHANGED <<stored, plans, scans, protection, at, faults>>
      /\ change \in Nat /\ root \in Nat /\ dir \in Nat
  BY Constants DEF CaptureInv, Types, SourceTypes, Changed, catalog, Meta
<1>2. change' \in Meta /\ root' \in Meta /\ dir' \in Meta
  BY <1>1, Constants DEF Meta, Dated
<1>3. SourceTypes'
  BY <1>1, <1>2 DEF SourceTypes, Meta
<1>4. Types'
  BY <1>1, <1>3 DEF Types, RowTypes, RequestTypes, Scan, Plan
<1>5. Dated'
  BY <1>1 DEF Dated
<1>6. Present' = {n \in Names : t[n].thing # Absent}
  BY <1>1 DEF Present
<1>7. Recorded'
  BY <1>1, <1>6 DEF Changed, Recorded
<1> QED  BY <1>4, <1>5, <1>7

\* A request's knowledge survives a change, which it sees or which is unseen.
LEMMA ScannerMoves ==
    ASSUME Dated, SourceTypes, NEW q \in Request, at[q] \in RequestState, Scanner(q),
           at' = at, Moves
    PROVE  Scanner(q)'
<1>1. /\ change \in Nat /\ root \in Nat /\ dir \in Nat
      /\ at[q].root \in Nat /\ at[q].meta \in Nat /\ at[q].item.meta \in Nat
  BY Constants DEF SourceTypes, RequestState, Item, Meta
<1>2. at[q].root <= root /\ at[q].meta <= change /\ at[q].item.meta <= change
  BY DEF Scanner, Dates
<1>3. at'[q] = at[q]
  OBVIOUS
<1>4. Dates(q)'
  BY <1>1, <1>2, <1>3 DEF Dates, Moves
<1>5. VerifyRoot(q)' => VerifyRoot(q) /\ root' = root
  BY <1>1, <1>2, <1>3 DEF VerifyRoot, Moves
<1>6. Lists(q)'
  <2>1. VerifyRoot(q)' /\ dir' = at[q].meta =>
          VerifyRoot(q) /\ dir = at[q].meta /\ Present' = Present
    BY <1>1, <1>2, <1>5 DEF Moves
  <2> QED  BY <1>3, <2>1 DEF Scanner, Lists, Listed, Basis, Moves
<1>7. Reads(q)'
  <2> DEFINE it == at[q].item
  <2>1. it.name \in Names /\ SameSnapshot(q)' =>
          /\ SameSnapshot(q)
          /\ \/ Here(q)' = Here(q) \/ Here(q)'.thing = Here(q).thing
             \/ [name |-> it.name, meta |-> it.meta] \in unseen'
    <3> SUFFICES ASSUME it.name \in Names, VerifyRoot(q)', tree'[it.name].meta = it.meta
                 PROVE  /\ VerifyRoot(q) /\ tree[it.name].meta = it.meta
                        /\ \/ tree'[it.name].thing = tree[it.name].thing
                           \/ [name |-> it.name, meta |-> it.meta] \in unseen'
      BY <1>3 DEF SameSnapshot, Here
    <3>1. root' = root /\ VerifyRoot(q)
      BY <1>5
    <3>2. tree'[it.name].meta # change + 1
      BY <1>1, <1>2
    <3> QED  BY <3>1, <3>2 DEF Moves
  <2>2. [name |-> it.name, meta |-> it.meta] \in unseen =>
          [name |-> it.name, meta |-> it.meta] \in unseen'
    BY DEF Moves
  <2>3. /\ at[q].pc \in Reading =>
            /\ it.name \in Names
            /\ [name |-> it.name, thing |-> it.thing, meta |-> it.meta] \in been'
        /\ at[q].pc \in {"file", "head", "tail"} => it.thing.kind = "file"
        /\ at[q].pc = "link" => it.thing.kind = "link"
        /\ at[q].pc = "check" => it.thing.kind \in {"file", "link"}
    BY DEF Scanner, Reads, Moves
  <2>4. at[q].pc \in Reading /\ SameSnapshot(q)'
          /\ [name |-> it.name, meta |-> it.meta] \notin unseen' => it.thing = Here(q)'.thing
    BY <2>1, <2>2, <2>3 DEF Scanner, Reads, Seen
  <2>5. at[q].pc \in {"tail", "check"} /\ SameSnapshot(q)' =>
          /\ [name |-> it.name, meta |-> it.meta] \notin unseen' => it.data = it.thing.data
          /\ it.data # Torn =>
               [name |-> it.name, thing |-> [kind |-> it.thing.kind, data |-> it.data],
                meta |-> it.meta] \in been'
    BY <2>1, <2>2, <2>3 DEF Scanner, Reads, Reading, Seen, Moves
  <2> HIDE DEF it
  <2>6. at'[q].item = it /\ at'[q].pc = at[q].pc
    BY DEF it
  <2> QED  BY <2>3, <2>4, <2>5, <2>6 DEF Reads, Seen
<1>8. Holds(q)'
  BY <1>3 DEF Scanner, Holds, Held, Was, Seen, Moves
<1> QED  BY <1>4, <1>6, <1>7, <1>8 DEF Scanner

LEMMA MovesHolds ==
    ASSUME CaptureInv, Moves, Types', Dated', Recorded',
           UNCHANGED <<stored, plans, catalog, at, faults>>
    PROVE  CaptureInv'
<1>1. /\ Dated /\ SourceTypes /\ plans' = plans /\ scans' = scans /\ at' = at
      /\ Plan' = Plan /\ Scan' = Scan
  BY DEF CaptureInv, Types, catalog, Plan, Scan
<1>2. Allocated' /\ SubjectsArePublished' /\ ClaimsAreStored'
  BY ScansSame DEF CaptureInv
<1>3. ContentWasThere'
  BY <1>1 DEF CaptureInv, ContentWasThere, Listed, Seen, Was, Moves
<1>4. ASSUME NEW q \in Request
      PROVE  Scanner(q)' /\ Applier(q)'
  <2>1. at[q] \in RequestState /\ Scanner(q) /\ Applier(q)
    BY DEF CaptureInv, Types, RequestTypes
  <2> QED  BY <1>1, <2>1, ScannerMoves, ApplierBeside
<1> QED  BY <1>2, <1>3, <1>4 DEF CaptureInv

LEMMA ChangeTypes ==
    ASSUME CaptureInv, NEW t, Changed(t)
    PROVE  /\ change + 1 \in Meta /\ 0 <= change + 1 /\ Meta' = Meta
           /\ tree \in [Names -> [thing : Things, meta : Meta]]
           /\ \A n \in Names : tree[n].meta <= change + 1
           /\ tree' = t /\ change' = change + 1
           /\ been \subseteq been' /\ listed \subseteq listed'
           /\ UNCHANGED <<stored, plans, catalog, at, faults>>
<1>1. change \in Nat /\ \A n \in Names : tree[n].meta \in Nat /\ tree[n].meta <= change
  BY Constants DEF CaptureInv, Types, SourceTypes, Dated, Meta
<1> QED  BY <1>1, Constants DEF CaptureInv, Types, SourceTypes, Changed, Meta

LEMMA UserWritesHolds ==
    ASSUME CaptureInv, NEW n \in Names, NEW t \in Things, UserWrites(n, t)
    PROVE  CaptureInv'
<1> DEFINE new == [tree EXCEPT ![n] = [thing |-> t, meta |-> change + 1]]
<1>1. /\ Changed(new) /\ UNCHANGED <<root, dir, unseen>>
      /\ tree[n].thing.kind = "file" /\ t.kind = "file"
  BY DEF UserWrites
<1>2. tree \in [Names -> [thing : Things, meta : Meta]] /\ change + 1 \in Meta
  BY <1>1, ChangeTypes
<1>3. /\ new \in [Names -> [thing : Things, meta : Meta]]
      /\ new[n] = [thing |-> t, meta |-> change + 1]
      /\ \A m \in Names \ {n} : new[m] = tree[m]
  BY <1>2
<1> HIDE DEF new
<1>4. /\ tree' = new /\ change' = change + 1 /\ \A m \in Names : new[m].meta <= change + 1
      /\ UNCHANGED <<stored, plans, catalog, at, faults>> /\ Meta' = Meta
      /\ been \subseteq been' /\ listed \subseteq listed'
  <2>1. change + 1 <= change + 1
    BY DEF CaptureInv, Types, SourceTypes, Meta
  <2> QED  BY <1>1, <1>3, <2>1, ChangeTypes
<1>5. Types' /\ Dated' /\ Recorded'
  BY <1>1, <1>3, <1>4, ChangedTypes
<1>6. Present' = Present
  BY <1>1, <1>3, <1>4, ThingsTypes DEF Present
<1>7. Moves
  BY <1>1, <1>3, <1>4, <1>6 DEF Moves
<1> QED  BY <1>4, <1>5, <1>7, MovesHolds

LEMMA UserWritesUnseenHolds ==
    ASSUME CaptureInv, NEW n \in Names, NEW t \in Things, UserWritesUnseen(n, t)
    PROVE  CaptureInv'
<1> DEFINE new == [tree EXCEPT ![n].thing = t]
<1>1. /\ Changed(new) /\ UNCHANGED <<root, dir>>
      /\ tree[n].thing.kind = "file" /\ t.kind = "file"
      /\ unseen' = unseen \cup {[name |-> n, meta |-> tree[n].meta]}
  BY DEF UserWritesUnseen
<1>2. tree \in [Names -> [thing : Things, meta : Meta]] /\ change + 1 \in Meta
  BY <1>1, ChangeTypes
<1>3. /\ new \in [Names -> [thing : Things, meta : Meta]]
      /\ new[n].thing = t /\ new[n].meta = tree[n].meta
      /\ \A m \in Names \ {n} : new[m] = tree[m]
  BY <1>2
<1> HIDE DEF new
<1>4. /\ tree' = new /\ change' = change + 1 /\ \A m \in Names : new[m].meta <= change + 1
      /\ UNCHANGED <<stored, plans, catalog, at, faults>> /\ Meta' = Meta
      /\ been \subseteq been' /\ listed \subseteq listed'
  BY <1>1, <1>3, ChangeTypes
<1>5. Types' /\ Dated' /\ Recorded'
  BY <1>1, <1>3, <1>4, ChangedTypes
<1>6. Present' = Present
  BY <1>1, <1>3, <1>4, ThingsTypes DEF Present
<1>7. Moves
  BY <1>1, <1>3, <1>4, <1>6 DEF Moves
<1> QED  BY <1>4, <1>5, <1>7, MovesHolds

LEMMA UserRenamesHolds ==
    ASSUME CaptureInv, NEW n \in Names, NEW t \in Things, UserRenames(n, t)
    PROVE  CaptureInv'
<1> DEFINE new == [tree EXCEPT ![n] = [thing |-> t, meta |-> change + 1]]
<1>1. Changed(new) /\ UNCHANGED <<root, unseen>> /\ dir' = change + 1
  BY DEF UserRenames
<1>2. tree \in [Names -> [thing : Things, meta : Meta]] /\ change + 1 \in Meta
  BY <1>1, ChangeTypes
<1>3. /\ new \in [Names -> [thing : Things, meta : Meta]]
      /\ new[n] = [thing |-> t, meta |-> change + 1]
      /\ \A m \in Names \ {n} : new[m] = tree[m]
  BY <1>2
<1> HIDE DEF new
<1>4. /\ tree' = new /\ change' = change + 1 /\ \A m \in Names : new[m].meta <= change + 1
      /\ UNCHANGED <<stored, plans, catalog, at, faults>> /\ Meta' = Meta
      /\ been \subseteq been' /\ listed \subseteq listed'
  <2>1. change + 1 <= change + 1
    BY DEF CaptureInv, Types, SourceTypes, Meta
  <2> QED  BY <1>1, <1>3, <2>1, ChangeTypes
<1>5. Types' /\ Dated' /\ Recorded'
  BY <1>1, <1>3, <1>4, ChangedTypes
<1>6. dir' # dir
  BY <1>1, Constants DEF CaptureInv, Types, SourceTypes, Dated, Meta
<1>7. Moves
  BY <1>1, <1>3, <1>4, <1>6 DEF Moves
<1> QED  BY <1>4, <1>5, <1>7, MovesHolds

LEMMA RootReplacedHolds ==
    ASSUME CaptureInv, RootReplaced
    PROVE  CaptureInv'
<1> DEFINE new == [n \in Names |-> [thing |-> Absent, meta |-> change + 1]]
<1>1. Changed(new) /\ UNCHANGED unseen /\ dir' = change + 1 /\ root' = root + 1
  BY DEF RootReplaced
<1>2. change + 1 \in Meta
  BY <1>1, ChangeTypes
<1>3. /\ new \in [Names -> [thing : Things, meta : Meta]]
      /\ \A m \in Names : new[m].meta = change + 1
  BY <1>2, ThingsTypes
<1> HIDE DEF new
<1>4. /\ tree' = new /\ change' = change + 1 /\ \A m \in Names : new[m].meta <= change + 1
      /\ UNCHANGED <<stored, plans, catalog, at, faults>> /\ Meta' = Meta
      /\ been \subseteq been' /\ listed \subseteq listed'
  <2>1. change + 1 <= change + 1
    BY DEF CaptureInv, Types, SourceTypes, Meta
  <2> QED  BY <1>1, <1>3, <2>1, ChangeTypes
<1>5. Types' /\ Dated' /\ Recorded'
  BY <1>1, <1>3, <1>4, ChangedTypes
<1>6. root' # root
  BY <1>1, Constants DEF CaptureInv, Types, SourceTypes, Meta
<1>7. Moves
  BY <1>1, <1>4, <1>6 DEF Moves
<1> QED  BY <1>4, <1>5, <1>7, MovesHolds

-----------------------------------------------------------------------------
(* Placing, and adopting *)

LEMMA FirstIn ==
    ASSUME NEW S, S # {}
    PROVE  First(S) \in S
  BY DEF First

LEMMA PlaceFileHolds ==
    ASSUME CaptureInv, NEW r \in Request, PlaceFile(r)
    PROVE  CaptureInv'
<1>1. /\ Types /\ RowTypes /\ Scanner(r) /\ Applier(r) /\ at[r] \in RequestState
      /\ at[r].plan \in {0} \cup Plan /\ at[r].gen \in {0} \cup Scan
      /\ at[r].pc = "place" /\ at[r].todo # {} /\ UNCHANGED <<source, faults>>
      /\ stored \subseteq Contents /\ faults \in 0..MaxFaults
  BY DEF CaptureInv, Types, RequestTypes, PlaceFile, At
<1> DEFINE n == First(at[r].todo)
           content == at[r].entries[n].thing.data
           placed == \/ content \in at[r].seen
                     \/ Reopens(r, n) /\ Places(n, content)
<1>2. CASE ~placed
  <2>1. FailScan(r) /\ UNCHANGED <<source, stored>> /\ at[r].pc \in Filed
    BY <1>1, <1>2 DEF PlaceFile, Filed
  <2> QED  BY <1>1, <2>1, FailScanHolds
<1>3. CASE placed
  <2> DEFINE x == [at[r] EXCEPT !.todo = @ \ {n}, !.seen = @ \cup {content}]
  <2>1. Now(r, x) /\ stored' = stored \cup {content} /\ UNCHANGED <<plans, catalog>>
    BY <1>1, <1>3 DEF PlaceFile
  <2>2. n \in Names /\ n \in at[r].todo
    BY <1>1, FirstIn DEF RequestState
  <2>3. content \in Contents
    <3>1. CASE content \in at[r].seen
      BY <1>1, <3>1 DEF Applier
    <3>2. CASE Reopens(r, n) /\ Places(n, content)
      <4>1. tree[n].thing \in Things
        BY <1>1, <2>2 DEF Types, SourceTypes
      <4>2. tree[n].thing.data \in Contents
        BY <3>2, <4>1, ThingsTypes DEF Reopens
      <4> QED  BY <1>1, <3>2, <4>2 DEF Places
    <3> QED  BY <1>3, <3>1, <3>2
  <2>4. Claim(at[r].entries, n) \in {content, "none"}
    BY DEF Claim
  <2> HIDE DEF n, content, placed
  <2>5. /\ x \in RequestState /\ x.pc = "place" /\ x.root = at[r].root
        /\ x.meta = at[r].meta /\ x.todo = at[r].todo \ {n} /\ x.item = at[r].item
        /\ x.entries = at[r].entries /\ x.whole = at[r].whole
        /\ x.seen = at[r].seen \cup {content}
        /\ x.plan = at[r].plan /\ x.gen = at[r].gen
    BY <1>1, <2>3 DEF RequestState
  <2>6. Goes(r, x) /\ at'[r] = x
    BY <1>1, <2>1, <2>5, RequestGoes DEF Goes
  <2> HIDE DEF x
  <2>7. /\ root' = root /\ change' = change /\ been' = been /\ listed' = listed
        /\ unseen' = unseen /\ plans' = plans /\ scans' = scans /\ protection' = protection
    BY <1>1, <2>1 DEF source, catalog
  <2>8. Scanner(r)'
    BY <1>1, <2>5, <2>6, <2>7 DEF Scanner, Dates, Lists, Reads, Reading, Locating, Walking, Holds,
       Held, Was, Seen, Listed, Basis
  <2>9. Applier(r)'
    <3>1. /\ at[r].plan # 0 /\ at[r].gen \in Scan /\ scans[at[r].gen].basis = Basis(r)
          /\ at[r].seen \subseteq stored
          /\ \A m \in DOMAIN at[r].entries :
               Claim(at[r].entries, m) # "none" =>
                 m \in at[r].todo \/ Claim(at[r].entries, m) \in stored
      BY <1>1 DEF Applier, Filed, Scanned
    <3>2. \A m \in DOMAIN x.entries :
            Claim(x.entries, m) # "none" => m \in x.todo \/ Claim(x.entries, m) \in stored'
      BY <2>1, <2>4, <2>5, <3>1
    <3>3. Scan' = Scan
      BY <2>7 DEF Scan
    <3>4. Basis(r)' = Basis(r)
      BY <2>5, <2>6 DEF Basis
    <3> QED  BY <2>1, <2>5, <2>6, <2>7, <3>1, <3>2, <3>3, <3>4 DEF Applier, Filed, Scanned, Claim
  <2>10. PlansKeep /\ ScansKeep
    BY <1>1, <2>7, SameKeeps
  <2> QED  BY <1>1, <2>1, <2>3, <2>5, <2>6, <2>7, <2>8, <2>9, <2>10, KeepStep
<1> QED  BY <1>2, <1>3

\* A generation begun adopts nothing.
LEMMA BeginCatalogHolds ==
    ASSUME CaptureInv, NEW r \in Request, BeginCatalog(r)
    PROVE  CaptureInv'
<1>1. /\ Types /\ RowTypes /\ Scanner(r) /\ Applier(r) /\ at[r] \in RequestState
      /\ at[r].plan \in Plan /\ at[r].gen \in {0} \cup Scan /\ at[r].pc = "begin"
      /\ UNCHANGED <<source, stored, plans, protection, faults>>
      /\ stored \subseteq Contents /\ faults \in 0..MaxFaults
      /\ scans \in Seq(ScanRow) /\ plans \in Seq(PlanRow) /\ Len(scans) \in Nat
      /\ Plan \subseteq Nat
  <2>1. at[r].pc = "begin" /\ at[r].plan # 0 /\ at[r].plan \in {0} \cup Plan
    BY DEF CaptureInv, Types, RequestTypes, Applier, BeginCatalog, At
  <2> QED  BY <2>1 DEF CaptureInv, Types, RowTypes, RequestTypes, BeginCatalog, Plan
<1> DEFINE g == Len(scans) + 1
           todo == {n \in Files(r) : Mode(n) \in Exact}
           x == [at[r] EXCEPT !.pc = "place", !.gen = g, !.todo = todo]
           row == [plan |-> at[r].plan, state |-> "RUNNING", basis |-> Basis(r),
                   subject |-> Nothing, adopted |-> FALSE, committed |-> FALSE,
                   projected |-> FALSE]
<1>2. Now(r, x) /\ scans' = Append(scans, row)
  BY DEF BeginCatalog
<1>3. todo \in SUBSET Names
  BY <1>1, ListingTypes DEF Files, Complete, Scanned, RequestState
<1>4. \A n \in Scanned(r) : Claim(at[r].entries, n) # "none" => n \in todo
  BY DEF Claim, Files, Complete, Scanned
<1>5. /\ row \in ScanRow /\ row.basis = Basis(r) /\ DOMAIN row.subject = {}
      /\ ~row.adopted /\ ~row.projected /\ row.plan = at[r].plan
  <2>1. Basis(r) \in DirectoryBasis
    BY <1>1 DEF Basis, DirectoryBasis, RequestState
  <2>2. Nothing \in [{} -> [name : Names, gen : Nat]]
    BY DEF Nothing
  <2>3. Nothing \in SubjectMap
    BY <2>2 DEF SubjectMap
  <2> QED  BY <1>1, <2>1, <2>3, ListingTypes DEF ScanRow, ScanState
<1>0. g \in Nat
  BY <1>1
<1> HIDE DEF row, todo, g
<1>6. /\ x \in RequestState /\ x.pc = "place" /\ x.root = at[r].root
      /\ x.meta = at[r].meta /\ x.todo = todo /\ x.item = at[r].item
      /\ x.entries = at[r].entries /\ x.whole = at[r].whole /\ x.seen = at[r].seen
      /\ x.plan = at[r].plan /\ x.gen = g
  BY <1>0, <1>1, <1>3 DEF RequestState, Labels
<1>7. Goes(r, x) /\ at'[r] = x
  BY <1>1, <1>2, <1>6, RequestGoes DEF Goes
<1> HIDE DEF x
<1>8. /\ scans' \in Seq(ScanRow) /\ Len(scans') = Len(scans) + 1 /\ scans'[g] = row
      /\ \A h \in 1..Len(scans) : scans'[h] = scans[h]
  BY <1>1, <1>2, <1>5 DEF g
<1>9. /\ Scan' = Scan \cup {g} /\ g \notin Scan /\ \A h \in Scan : scans'[h] = scans[h] /\ h # g
  BY <1>1, <1>8 DEF Scan, g
<1>10. /\ root' = root /\ change' = change /\ been' = been /\ listed' = listed
       /\ unseen' = unseen /\ Plan' = Plan
  BY <1>1 DEF source, Plan
<1>11. RowTypes'
  BY <1>1, <1>5, <1>8, <1>9, <1>10 DEF RowTypes
<1>12. Scanner(r)'
  BY <1>1, <1>6, <1>7, <1>10 DEF Scanner, Dates, Lists, Reads, Reading, Locating, Walking, Holds,
     Held, Was, Seen, Listed, Basis
<1>13. Applier(r)'
  <2>1. Basis(r)' = Basis(r)
    BY <1>6, <1>7 DEF Basis
  <2>2. \A n \in DOMAIN x.entries : Claim(x.entries, n) # "none" => n \in x.todo
    BY <1>4, <1>6 DEF Scanned
  <2>3. x.plan # 0 /\ x.seen \subseteq stored'
    BY <1>1, <1>6 DEF Applier
  <2> QED  BY <1>5, <1>6, <1>7, <1>8, <1>9, <2>1, <2>2, <2>3 DEF Applier, Filed, Scanned, Claim
<1>14. Published' = Published
  BY <1>5, <1>8, <1>9 DEF Published
<1>15. Allocated'
  <2>1. \A h \in Scan' : \A n \in DOMAIN scans'[h].subject : scans'[h].subject[n].gen \in Scan'
    BY <1>5, <1>8, <1>9 DEF CaptureInv, Allocated
  <2> QED  BY <1>14, <2>1 DEF CaptureInv, Allocated
<1>16. ContentWasThere'
  <2>1. \A k \in Plan' : plans'[k].open =>
          /\ Listed(plans'[k].basis)
          /\ \A n \in DOMAIN plans'[k].basis.entries :
               LET e == plans'[k].basis.entries[n] IN
               e.state = "COMPLETE" /\ Seen(n, e) => Was(n, e)
    BY <1>1, <1>10 DEF CaptureInv, ContentWasThere
  <2>2. \A h \in Scan' : scans'[h].adopted =>
          \A n \in DOMAIN scans'[h].basis.entries :
            LET e == scans'[h].basis.entries[n] IN
            Claim(scans'[h].basis.entries, n) # "none" => Was(n, e)
    BY <1>5, <1>8, <1>9 DEF CaptureInv, ContentWasThere
  <2> QED  BY <1>10, <2>1, <2>2 DEF ContentWasThere, Listed, Seen, Was, Claim
<1>17. ClaimsAreStored'
  <2>1. \A h \in Scan' : scans'[h].adopted =>
          \A n \in DOMAIN scans'[h].basis.entries :
            Claim(scans'[h].basis.entries, n) \in stored' \cup {"none"}
    BY <1>1, <1>5, <1>8, <1>9 DEF CaptureInv, ClaimsAreStored
  <2> QED  BY <1>1, <2>1 DEF CaptureInv, ClaimsAreStored, Claim
<1>18. SubjectsArePublished'
  <2> SUFFICES ASSUME NEW h \in Scan', NEW n \in DOMAIN scans'[h].subject
               PROVE  /\ scans'[h].subject[n].name = n
                      /\ scans'[h].subject[n].gen # h =>
                           /\ scans'[scans'[h].subject[n].gen].projected
                           /\ scans'[scans'[h].subject[n].gen].basis.entries[n].thing.kind
                                = scans'[h].basis.entries[n].thing.kind
    BY DEF SubjectsArePublished
  <2>0. SubjectsArePublished
    BY DEF CaptureInv
  <2>1. h \in Scan /\ scans'[h] = scans[h] /\ n \in DOMAIN scans[h].subject
    BY <1>5, <1>8, <1>9
  <2>2. scans[h].subject[n].gen \in Scan
    BY <2>1 DEF CaptureInv, Allocated
  <2>3. /\ scans[h].subject[n].name = n
        /\ scans[h].subject[n].gen # h =>
             /\ scans[scans[h].subject[n].gen].projected
             /\ scans[scans[h].subject[n].gen].basis.entries[n].thing.kind
                  = scans[h].basis.entries[n].thing.kind
    BY <2>0, <2>1 DEF SubjectsArePublished
  <2> QED  BY <1>9, <2>1, <2>2, <2>3
<1> QED  BY <1>1, <1>6, <1>7, <1>9, <1>10, <1>11, <1>12, <1>13, <1>15, <1>16, <1>17, <1>18,
         ApplyStep

\* The newest published scan is one.
LEMMA NewestPublished ==
    ASSUME Allocated, Published # {}
    PROVE  Max(Published) \in Published
<1>1. \A h \in Published : h \in Nat
  BY DEF Published, Scan
<1>2. PICK m \in Published : \A h \in Published : h <= m
  BY DEF Allocated
<1>3. \A h \in Published : m >= h
  BY <1>1, <1>2
<1> QED  BY <1>2, <1>3 DEF Max

\* A subject is of the name and the kind, and of its own scan or a published one.
LEMMA SubjectIs ==
    ASSUME CaptureInv, NEW n \in Names, NEW kind, NEW g \in Scan
    PROVE  /\ Subject(n, kind, g) \in [name : Names, gen : Nat]
           /\ Subject(n, kind, g).name = n /\ Subject(n, kind, g).gen \in Scan
           /\ Subject(n, kind, g).gen # g =>
                /\ scans[Subject(n, kind, g).gen].projected
                /\ scans[Subject(n, kind, g).gen].basis.entries[n].thing.kind = kind
<1>1. Allocated /\ SubjectsArePublished /\ scans \in Seq(ScanRow) /\ Scan \subseteq Nat
  BY DEF CaptureInv, Types, RowTypes, Scan
<1> DEFINE m == Max(Published)
           found == /\ Published # {} /\ n \in DOMAIN scans[m].subject
                    /\ scans[m].basis.entries[n].thing.kind = kind
<1>2. CASE ~found
  <2>1. Subject(n, kind, g) = [name |-> n, gen |-> g]
    BY <1>2 DEF Subject
  <2> QED  BY <1>1, <2>1
<1>3. CASE found
  <2> DEFINE s == scans[m].subject[n]
  <2>1. Subject(n, kind, g) = s
    BY <1>3 DEF Subject
  <2>2. m \in Scan /\ scans[m].projected /\ n \in DOMAIN scans[m].subject
    BY <1>1, <1>3, NewestPublished DEF Published
  <2>3. scans[m] \in ScanRow
    BY <1>1, <2>2 DEF Scan
  <2>4. scans[m].subject \in SubjectMap
    BY <2>3 DEF ScanRow
  <2>5. s \in [name : Names, gen : Nat]
    BY <2>2, <2>4 DEF SubjectMap
  <2>6. s.gen \in Scan
    BY <1>1, <2>2 DEF Allocated
  <2>7. /\ s.name = n
        /\ s.gen # m => /\ scans[s.gen].projected
                        /\ scans[s.gen].basis.entries[n].thing.kind
                             = scans[m].basis.entries[n].thing.kind
    BY <1>1, <2>2 DEF SubjectsArePublished
  <2> HIDE DEF s, m
  <2> QED  BY <1>3, <2>1, <2>2, <2>5, <2>6, <2>7 DEF found
<1> QED  BY <1>2, <1>3

\* What is claimed for an entry that has been placed is stored, and was there.
LEMMA ClaimedIsStored ==
    ASSUME CaptureInv, NEW r \in Request, At(r, "place"), at[r].todo = {}, NEW n \in Scanned(r)
    PROVE  /\ Claim(at[r].entries, n) \in stored \cup {"none"}
           /\ Claim(at[r].entries, n) # "none" => Was(n, at[r].entries[n])
<1>1. Scanner(r) /\ Applier(r) /\ stored \subseteq Contents /\ at[r].pc = "place"
  BY DEF CaptureInv, Types, At
<1>2. Claim(at[r].entries, n) \in stored \cup {"none"}
  BY <1>1 DEF Applier
<1>3. ASSUME Claim(at[r].entries, n) # "none"
      PROVE  Was(n, at[r].entries[n])
  <2>1. /\ at[r].entries[n].state = "COMPLETE"
        /\ at[r].entries[n].thing.data = Claim(at[r].entries, n)
    BY <1>3 DEF Claim
  <2>2. at[r].entries[n].thing.data # Torn
    BY <1>1, <1>2, <1>3, <2>1, Constants
  <2> QED  BY <1>1, <2>1, <2>2 DEF Scanner, Holds, Held, Scanned
<1> QED  BY <1>2, <1>3

LEMMA AdoptHolds ==
    ASSUME CaptureInv, NEW r \in Request, Adopt(r)
    PROVE  CaptureInv'
<1>1. /\ Types /\ RowTypes /\ Scanner(r) /\ Applier(r) /\ at[r] \in RequestState
      /\ at[r].plan \in {0} \cup Plan /\ At(r, "place") /\ at[r].pc = "place"
      /\ at[r].todo = {} /\ UNCHANGED <<source, stored, plans, faults>>
      /\ stored \subseteq Contents /\ faults \in 0..MaxFaults
      /\ scans \in Seq(ScanRow) /\ Allocated /\ ContentWasThere /\ ClaimsAreStored
      /\ SubjectsArePublished
  BY DEF CaptureInv, Types, RequestTypes, RowTypes, Adopt, At
<1> DEFINE g == at[r].gen
           E == at[r].entries
           S == Subjects(r)
           row == [scans[g] EXCEPT !.adopted = TRUE, !.subject = S]
           x == [at[r] EXCEPT !.pc = "finish"]
<1>2. g \in Scan /\ scans[g].basis = Basis(r) /\ at[r].plan # 0 /\ scans[g] \in ScanRow
  BY <1>1 DEF Applier, Filed, Scan
<1>3. scans[g].basis.entries = E /\ DOMAIN E \subseteq Names
  BY <1>1, <1>2, ListingTypes DEF Basis, RequestState
<1>4. DOMAIN S = DOMAIN E /\ \A n \in DOMAIN E : S[n] = Subject(n, E[n].thing.kind, g)
  BY DEF Subjects, Scanned
<1>5. Now(r, x)
  BY DEF Adopt, Goto, Now
<1>6. scans' = [scans EXCEPT ![g] = row]
  BY <1>1, <1>2 DEF Adopt, InsertRoot
<1>7. /\ DOMAIN protection' = DOMAIN protection \cup {S[n] : n \in DOMAIN E}
      /\ \A s \in DOMAIN protection' :
           protection'[s] = IF s \in {S[n] : n \in DOMAIN E} THEN Claim(E, s.name)
                                                             ELSE protection[s]
  BY DEF Adopt, UpsertProtection, Scanned
<1>8. \A n \in DOMAIN E :
        /\ Claim(E, n) \in stored \cup {"none"}
        /\ Claim(E, n) # "none" => Was(n, E[n])
  BY <1>1, ClaimedIsStored DEF Scanned
<1> HIDE DEF S
<1>9. \A n \in DOMAIN E :
        /\ S[n] \in [name : Names, gen : Nat] /\ S[n].name = n /\ S[n].gen \in Scan
        /\ S[n].gen # g => /\ scans[S[n].gen].projected
                           /\ scans[S[n].gen].basis.entries[n].thing.kind = E[n].thing.kind
  BY <1>2, <1>3, <1>4, SubjectIs
<1>10. S \in SubjectMap
  <2>1. S = [n \in DOMAIN E |-> Subject(n, E[n].thing.kind, g)]
    BY DEF S, Subjects, Scanned
  <2>2. S \in [DOMAIN E -> [name : Names, gen : Nat]]
    BY <1>4, <1>9, <2>1
  <2> QED  BY <1>3, <2>2 DEF SubjectMap
<1>11. /\ row \in ScanRow /\ row.basis = scans[g].basis /\ row.subject = S /\ row.adopted
       /\ row.projected = scans[g].projected /\ row.plan = scans[g].plan
  BY <1>2, <1>10 DEF ScanRow
<1> HIDE DEF row
<1>12. /\ scans' \in Seq(ScanRow) /\ Scan' = Scan
       /\ \A h \in Scan : scans'[h] = IF h = g THEN row ELSE scans[h]
  BY <1>1, <1>2, <1>6, <1>11, RowChanges
<1>13. \A h \in Scan :
         /\ scans'[h].basis = scans[h].basis /\ scans'[h].projected = scans[h].projected
         /\ scans'[h].plan = scans[h].plan
         /\ h # g => scans'[h].subject = scans[h].subject /\ scans'[h].adopted = scans[h].adopted
         /\ h = g => scans'[h].subject = S
  BY <1>11, <1>12
<1>14. /\ x \in RequestState /\ x.pc = "finish" /\ x.root = at[r].root
       /\ x.meta = at[r].meta /\ x.todo = at[r].todo /\ x.item = at[r].item
       /\ x.entries = at[r].entries /\ x.whole = at[r].whole /\ x.seen = at[r].seen
       /\ x.plan = at[r].plan /\ x.gen = g
  BY <1>1 DEF RequestState, Labels
<1>15. Goes(r, x) /\ at'[r] = x
  BY <1>1, <1>5, <1>14, RequestGoes DEF Goes
<1> HIDE DEF x
<1>16. /\ root' = root /\ change' = change /\ been' = been /\ listed' = listed
       /\ unseen' = unseen /\ plans' = plans /\ Plan' = Plan /\ stored' = stored
  BY <1>1 DEF source, Plan
<1>17. RowTypes'
  BY <1>1, <1>12, <1>13, <1>16 DEF RowTypes
<1>18. Scanner(r)'
  BY <1>1, <1>14, <1>15, <1>16 DEF Scanner, Dates, Lists, Reads, Reading, Locating, Walking, Holds,
     Held, Was, Seen, Listed, Basis
<1>19. Applier(r)'
  <2>1. Basis(r)' = Basis(r)
    BY <1>14, <1>15 DEF Basis
  <2>2. x.plan # 0 /\ x.seen \subseteq stored'
    BY <1>1, <1>2, <1>14, <1>16 DEF Applier
  <2> QED  BY <1>2, <1>12, <1>13, <1>14, <1>15, <2>1, <2>2 DEF Applier, Filed
<1>20. Allocated'
  <2>1. Published' = Published
    BY <1>12, <1>13 DEF Published
  <2>2. \A h \in Scan' : \A n \in DOMAIN scans'[h].subject : scans'[h].subject[n].gen \in Scan'
    BY <1>1, <1>4, <1>9, <1>12, <1>13 DEF Allocated
  <2> QED  BY <1>1, <2>1, <2>2 DEF Allocated
<1> HIDE DEF E, g
<1>21. ContentWasThere'
  <2>1. \A k \in Plan' : plans'[k].open =>
          /\ Listed(plans'[k].basis)
          /\ \A n \in DOMAIN plans'[k].basis.entries :
               LET e == plans'[k].basis.entries[n] IN
               e.state = "COMPLETE" /\ Seen(n, e) => Was(n, e)
    BY <1>1, <1>16 DEF ContentWasThere
  <2>2. ASSUME NEW h \in Scan, scans'[h].adopted
        PROVE  \A n \in DOMAIN scans'[h].basis.entries :
                 LET e == scans'[h].basis.entries[n] IN
                 Claim(scans'[h].basis.entries, n) # "none" => Was(n, e)
    <3>1. CASE h = g
      BY <1>3, <1>8, <1>13, <3>1
    <3>2. CASE h # g
      BY <1>1, <1>13, <2>2, <3>2 DEF ContentWasThere
    <3> QED  BY <3>1, <3>2
  <2> QED  BY <1>12, <1>16, <2>1, <2>2 DEF ContentWasThere, Listed, Seen, Was, Claim
<1>22. ClaimsAreStored'
  <2>1. ASSUME NEW h \in Scan, scans'[h].adopted
        PROVE  \A n \in DOMAIN scans'[h].basis.entries :
                 Claim(scans'[h].basis.entries, n) \in stored \cup {"none"}
    <3>1. CASE h = g
      BY <1>3, <1>8, <1>13, <3>1
    <3>2. CASE h # g
      BY <1>1, <1>13, <2>1, <3>2 DEF ClaimsAreStored
    <3> QED  BY <3>1, <3>2
  <2>2. ASSUME NEW s \in DOMAIN protection'
        PROVE  protection'[s] \in stored \cup {"none"}
    <3>1. CASE s \in {S[n] : n \in DOMAIN E}
      <4>1. PICK n \in DOMAIN E : s = S[n]
        BY <3>1
      <4>2. protection'[s] = Claim(E, n)
        BY <1>7, <1>9, <3>1, <4>1
      <4> QED  BY <1>8, <4>2
    <3>2. CASE s \notin {S[n] : n \in DOMAIN E}
      BY <1>1, <1>7, <3>2 DEF ClaimsAreStored
    <3> QED  BY <3>1, <3>2
  <2> QED  BY <1>12, <1>16, <2>1, <2>2 DEF ClaimsAreStored, Claim
<1>23. SubjectsArePublished'
  <2> SUFFICES ASSUME NEW h \in Scan', NEW n \in DOMAIN scans'[h].subject
               PROVE  /\ scans'[h].subject[n].name = n
                      /\ scans'[h].subject[n].gen # h =>
                           /\ scans'[scans'[h].subject[n].gen].projected
                           /\ scans'[scans'[h].subject[n].gen].basis.entries[n].thing.kind
                                = scans'[h].basis.entries[n].thing.kind
    BY DEF SubjectsArePublished
  <2>1. h \in Scan
    BY <1>12
  <2>2. CASE h = g
    <3>1. scans'[h].subject = S /\ n \in DOMAIN E /\ scans'[h].basis.entries = E
      BY <1>3, <1>4, <1>13, <2>1, <2>2
    <3>2. /\ S[n].name = n /\ S[n].gen \in Scan
          /\ S[n].gen # g => /\ scans[S[n].gen].projected
                             /\ scans[S[n].gen].basis.entries[n].thing.kind = E[n].thing.kind
      BY <1>9, <3>1
    <3>3. /\ scans'[S[n].gen].projected = scans[S[n].gen].projected
          /\ scans'[S[n].gen].basis = scans[S[n].gen].basis
      BY <1>13, <3>2
    <3> QED  BY <2>2, <3>1, <3>2, <3>3
  <2>3. CASE h # g
    <3>1. scans'[h].subject = scans[h].subject /\ n \in DOMAIN scans[h].subject
      BY <1>13, <2>1, <2>3
    <3>2. scans[h].subject[n].gen \in Scan
      BY <1>1, <2>1, <3>1 DEF Allocated
    <3>3. /\ scans[h].subject[n].name = n
          /\ scans[h].subject[n].gen # h =>
               /\ scans[scans[h].subject[n].gen].projected
               /\ scans[scans[h].subject[n].gen].basis.entries[n].thing.kind
                    = scans[h].basis.entries[n].thing.kind
      BY <1>1, <2>1, <3>1 DEF SubjectsArePublished
    <3> QED  BY <1>13, <2>1, <3>1, <3>2, <3>3
  <2> QED  BY <2>2, <2>3
<1>24. x.gen \in {0} \cup Scan' /\ x.plan \in {0} \cup Plan'
  BY <1>1, <1>2, <1>12, <1>14, <1>16
<1> QED  BY <1>1, <1>12, <1>13, <1>14, <1>15, <1>16, <1>17, <1>18, <1>19, <1>20, <1>21, <1>22,
         <1>23, <1>24, ApplyStep

-----------------------------------------------------------------------------
(* The invariant *)

LEMMA InitHolds ==
    ASSUME Init
    PROVE  CaptureInv
<1>1. /\ root = 0 /\ dir = 0 /\ change = 0 /\ unseen = {} /\ stored = {} /\ plans = <<>>
      /\ scans = <<>> /\ DOMAIN protection = {} /\ faults = 0
      /\ at = [r \in Request |-> Rest] /\ 0 \in Meta /\ 0 \in 0..MaxFaults
  BY Constants DEF Init, Meta
<1>2. Plan = {} /\ Scan = {} /\ Published = {}
  BY <1>1 DEF Plan, Scan, Published
<1>3. tree \in [Names -> [thing : Things, meta : Meta]] /\ \A n \in Names : tree[n].meta = 0
  <2>1. PICK t \in [Names -> Things] : tree = [n \in Names |-> [thing |-> t[n], meta |-> 0]]
    BY DEF Init
  <2> QED  BY <1>1, <2>1
<1>4. Types
  BY <1>1, <1>2, <1>3, RestTypes DEF Types, SourceTypes, RowTypes, RequestTypes
<1>5. Dated
  BY <1>1, <1>3 DEF Dated
<1>6. Recorded
  BY <1>3, <1>1 DEF Init, Recorded, Present
<1>7. Allocated /\ ContentWasThere /\ ClaimsAreStored /\ SubjectsArePublished
  BY <1>1, <1>2 DEF Allocated, ContentWasThere, ClaimsAreStored, SubjectsArePublished
<1>8. ASSUME NEW r \in Request
      PROVE  Scanner(r) /\ Applier(r)
  BY <1>1, <1>8, RestTypes, ListingTypes
     DEF Scanner, Dates, Lists, Reads, Holds, Locating, Walking, Reading, Applier, Filed
<1> QED  BY <1>4, <1>5, <1>6, <1>7, <1>8 DEF CaptureInv

LEMMA StutterHolds ==
    ASSUME CaptureInv, UNCHANGED vars
    PROVE  CaptureInv'
<1>1. /\ Types /\ RowTypes /\ UNCHANGED <<source, stored, plans, scans, protection, at, faults>>
      /\ UNCHANGED catalog
  BY DEF CaptureInv, Types, vars, catalog
<1>2. ScansKeep /\ PlansKeep
  BY <1>1, SameKeeps
<1>3. Types'
  BY <1>1, <1>2 DEF Types, SourceTypes, RequestTypes, RowTypes, source, ScansKeep, PlansKeep
<1>4. Dated' /\ Recorded'
  BY <1>1, SourceSame DEF CaptureInv
<1>5. UNCHANGED <<been, listed, unseen, protection>> /\ stored' = stored
  BY <1>1 DEF source
<1>6. Allocated' /\ ContentWasThere' /\ ClaimsAreStored' /\ SubjectsArePublished'
  BY <1>2, <1>5, NothingAdopted DEF PlansKeep, ScansKeep
<1>7. ASSUME NEW q \in Request
      PROVE  Scanner(q)' /\ Applier(q)'
  BY <1>1, <1>2, <1>7, ScannerBeside, ApplierBeside DEF CaptureInv, ScansKeep
<1> QED  BY <1>3, <1>4, <1>6, <1>7 DEF CaptureInv

LEMMA NextHolds ==
    ASSUME CaptureInv, [Next]_vars
    PROVE  CaptureInv'
<1>1. ASSUME NEW r \in Request, Scans(r)
      PROVE  CaptureInv'
  BY <1>1, InspectIngestHolds, LstatRootHolds, ReadDirHolds, LstatHolds, OpenRegularHolds,
     ReadHeadHolds, ReadTailHolds, ReadlinkHolds, PostStatHolds, LstatRootAgainHolds,
     RecordPlanHolds DEF Scans
<1>2. ASSUME NEW r \in Request, Applies(r)
      PROVE  CaptureInv'
  BY <1>2, ApplyIngestPlanHolds, CompareHolds, BeginCatalogHolds, PlaceFileHolds, AdoptHolds,
     FinishScanHolds, PublishHolds, ProjectHolds, StepFailsHolds, ScanFailsHolds,
     CommitAnswerLostHolds DEF Applies
<1>3. CASE User
  BY <1>3, Constants, UserWritesHolds, UserWritesUnseenHolds, UserRenamesHolds, RootReplacedHolds
     DEF User
<1> QED  BY <1>1, <1>2, <1>3, ReconcileHolds, KillHolds, StutterHolds DEF Next

LEMMA InvTypes ==
    ASSUME CaptureInv
    PROVE  TypeOK
<1>1. /\ Types /\ SourceTypes /\ RowTypes /\ RequestTypes /\ plans \in Seq(PlanRow)
      /\ scans \in Seq(ScanRow) /\ stored \subseteq Contents
  BY DEF CaptureInv, Types, RowTypes
<1>2. plans \in Seq([basis : DirectoryBasis, approved : SUBSET Names, open : BOOLEAN])
  BY <1>1 DEF PlanRow
<1>3. ASSUME NEW g \in Scan
      PROVE  /\ scans[g].plan \in Plan /\ scans[g].basis \in DirectoryBasis
             /\ scans[g].state \in {"RUNNING", "FAILED", "COMPLETE", "INCOMPLETE"}
  <2>1. scans[g] \in ScanRow
    BY <1>1 DEF Scan
  <2> QED  BY <1>1, <2>1 DEF RowTypes, ScanRow, ScanState
<1>4. at \in [Request ->
         [pc : Labels, plan : {0} \cup Plan, approved : SUBSET Names,
          root : Meta, meta : Meta, todo : SUBSET Names,
          item : [name : Names \cup {"none"}, thing : Thing, meta : Meta,
                  data : Contents \cup {Torn}],
          entries : Listing, whole : BOOLEAN, seen : SUBSET (Contents \cup {Torn}),
          gen : {0} \cup Scan]]
  BY <1>1 DEF RequestTypes, RequestState, Item
<1> QED  BY <1>1, <1>2, <1>3, <1>4 DEF TypeOK, Types, SourceTypes

\* In every state the requests know what they may of the directory, and what
\* they have recorded was there (scanner.go, ingest.go).
THEOREM CaptureInvariant == Spec => []CaptureInv
<1>1. Init => CaptureInv
  BY InitHolds
<1>2. CaptureInv /\ [Next]_vars => CaptureInv'
  BY NextHolds
<1> QED  BY <1>1, <1>2, PTL DEF Spec

\* The directory, the plans, the scans and the requests keep their types.
THEOREM CaptureTypes == Spec => []TypeOK
<1>1. CaptureInv => TypeOK
  BY InvTypes
<1> QED  BY <1>1, CaptureInvariant, PTL

\* A plan that can be applied, and what is adopted as exact, is of the
\* directory as it was, and never of two readings put together (scanner.go
\* scanRegular, scanDirectory; root.go VerifyRoot).
THEOREM CapturedWasThere == Spec => []ContentWasThere
<1>1. CaptureInv => ContentWasThere
  BY DEF CaptureInv
<1> QED  BY <1>1, CaptureInvariant, PTL

\* The bytes that an adopted scan or a protection record claims are in the
\* repository, whatever has become of the file (ingest.go placeFiles,
\* ingest_protection.go insertPreparedProtection).
THEOREM ClaimsHold == Spec => []ClaimsAreStored
<1>1. CaptureInv => ClaimsAreStored
  BY DEF CaptureInv
<1> QED  BY <1>1, CaptureInvariant, PTL

\* Continuity is with published scans only, of the same name and kind
\* (namespace.go ResolveNamespaceSubjectRef).
THEOREM ContinuityIsPublished == Spec => []SubjectsArePublished
<1>1. CaptureInv => SubjectsArePublished
  BY DEF CaptureInv
<1> QED  BY <1>1, CaptureInvariant, PTL
=============================================================================

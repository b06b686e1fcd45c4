---------------------------- MODULE SearchIndex ----------------------------
(***************************************************************************)
(* The disposable search generations of one workspace                      *)
(* (server/internal/search) over the catalogue they are built from.        *)
(*                                                                         *)
(* Ingests publish namespace roots, commands write notes and descriptions, *)
(* and each then calls Indexer.Rebuild on its own goroutine.  A rebuild    *)
(* holds the indexer's mutex, but reads the catalogue in separate          *)
(* statements, inserts a lexical generation and then a semantic one, and   *)
(* stores the lexical health latch only after it has unlocked.  Queries    *)
(* hold no lock at all.  The native library the vectors are bound to can   *)
(* be replaced by the bundle installer while the process runs.             *)
(*                                                                         *)
(* A root stands for one published snapshot, <<source, scan generation>>;  *)
(* that of an empty directory has no entries at all, since the entry "."   *)
(* is never inserted.  A note stands for any durable text a hit is checked *)
(* against: the annotation, the description segment or the admitted        *)
(* artifact.  Its subject is an entry of every root of its source that has *)
(* entries.                                                                *)
(***************************************************************************)
EXTENDS Naturals, Sequences, SequencesExt, FiniteSets

CONSTANTS
    Sources,         \* local trees of the workspace
    Notes,           \* notes that may be written, then tombstoned
    SourceOf,        \* the source that has the subject of a note
    Clients,         \* goroutines that write and rebuild
    Queriers,        \* goroutines that query the semantic lane
    MaxScans,        \* bound: scan generations begun, of each source
    MaxGenerations,  \* bound: rows of index_generations
    MaxFaults        \* bound: native libraries replaced and restarts of the
                     \* daemon, together

ASSUME SearchAssumption ==
    /\ MaxScans \in Nat /\ MaxGenerations \in Nat /\ MaxFaults \in Nat
    /\ SourceOf \in [Notes -> Sources]

VARIABLES
    scans,       \* scan_generations: the highest generation begun, per source
    pubs,        \* publications, in committed_at order
    bare,        \* the published roots of empty directories
    notes,       \* "absent", "live" or "deleted" (tombstoned)
    gens,        \* index_generations and their roots, in created_at order
    library,     \* the native library on disk
    bound,       \* SemanticLibraryDigest of this process
    inherited,   \* generations this process found when it started
    started,     \* the warm-up at start is over and requests are served
    restarts,
    mu,          \* holder of idx.mu
    failed,      \* lexicalHealth holds a failure of this workspace
    unavailable, \* semanticUnavailable
    indexReady,  \* semanticIndexReady
    verified,    \* semanticVerified: receipts cached by this process
    passed,      \* generations this process verified in full, revoked or not
    client,
    query

catalog == <<scans, pubs, bare, notes>>
process == <<library, bound, inherited, started, restarts>>
health == <<unavailable, indexReady, verified, passed>>
indexVars == <<catalog, gens, process, mu, failed, health, client, query>>

Nobody == "nobody"

ASSUME NobodyAssumption == Nobody \notin Clients

Root   == Sources \X (1..MaxScans)
NoRoot == <<>>
Lexical  == "lexical-metadata-fts"
Semantic == "semantic"

Quiet == [pc |-> "idle", root |-> NoRoot, scope |-> {}, feed |-> {},
          notes |-> {}, failed |-> FALSE]
NoQuery == [pc |-> "idle", gen |-> 0, pinned |-> FALSE, rows |-> 0, due |-> 0,
            gone |-> {}, hits |-> {}]

----------------------------------------------------------------------------
(* What the catalogue's queries answer. *)

Published == {pubs[i] : i \in DOMAIN pubs}

\* ListLatestNamespaceRoots: of every source, the published root of the
\* highest scan generation.
LatestRoots ==
    {r \in Published : \A n \in Published : n[1] = r[1] => n[2] <= r[2]}

\* ListLatestNamespaceEntries selects the entries by the same ranking, in a
\* statement of its own; here, the roots whose entries it returns, which the
\* root of an empty directory is not.
LatestEntries == LatestRoots \ bare

\* LatestPublication: by committed_at, whatever the scan generation.
LatestPublication == Last(pubs)

LiveNotes == {n \in Notes : notes[n] = "live"}

\* currentSubjects: the notes whose subject is among the entries of the feed.
OnSubjects(feed) == {n \in Notes : \E r \in feed : r[1] = SourceOf[n]}

Of(dim) == {i \in DOMAIN gens : gens[i].dim = dim}

\* LatestIndexGeneration: 0 when there is none.
LatestIndexGeneration(dim) ==
    IF Of(dim) = {} THEN 0 ELSE CHOOSE i \in Of(dim) : \A j \in Of(dim) : j <= i

\* InsertIndexGenerationWithRoots: the row and its roots in one transaction;
\* the primary root has to be one of them.
InsertGeneration(dim, c) ==
    /\ Len(gens) < MaxGenerations
    /\ c.root \in c.scope
    /\ gens' = Append(gens, [dim |-> dim, root |-> c.root, roots |-> c.scope,
                             feed |-> c.feed, notes |-> c.notes, library |-> bound])

----------------------------------------------------------------------------
IndexInit ==
    /\ scans = [s \in Sources |-> 0] /\ pubs = <<>> /\ bare = {}
    /\ notes = [n \in Notes |-> "absent"]
    /\ gens = <<>> /\ library = 1 /\ bound = 1
    /\ inherited = 0
    /\ started = TRUE /\ restarts = 0
    /\ mu = Nobody /\ failed = FALSE
    /\ unavailable = FALSE /\ indexReady = FALSE /\ verified = {} /\ passed = {}
    /\ client = [c \in Clients |-> Quiet]
    /\ query = [q \in Queriers |-> NoQuery]

\* Client c goes from one point of its code to another.
InPhase(c, pc) == client[c].pc = pc
Step(c, from, to) == InPhase(c, from) /\ client' = [client EXCEPT ![c].pc = to]

----------------------------------------------------------------------------
(* What calls Rebuild. *)

index == <<gens, process, mu, failed, health, query>>

\* beginCatalog: the ingest allocates the next scan generation of its source.
BeginScan(c, s) ==
    /\ started /\ InPhase(c, "idle")
    /\ scans[s] < MaxScans
    /\ scans' = [scans EXCEPT ![s] = @ + 1]
    /\ client' = [client EXCEPT ![c] = [Quiet EXCEPT !.pc = "scanning",
                                            !.root = <<s, scans[s] + 1>>]]
    /\ UNCHANGED <<pubs, bare, notes, index>>

\* The ingest commits its publication, of a tree with or without entries, then
\* rebuilds with its own root.
Publish(c) ==
    /\ Step(c, "scanning", "wait")
    /\ pubs' = Append(pubs, client[c].root)
    /\ bare' \in {bare, bare \cup {client[c].root}}
    /\ UNCHANGED <<scans, notes, index>>

\* A write of a note commits, then the handler calls RebuildLatest.
WriteNote(c, n) ==
    /\ started /\ notes[n] = "absent"
    /\ Step(c, "idle", "latest")
    /\ notes' = [notes EXCEPT ![n] = "live"]
    /\ UNCHANGED <<scans, pubs, bare, index>>

\* annotation.delete tombstones it.
DeleteNote(c, n) ==
    /\ started /\ notes[n] = "live"
    /\ Step(c, "idle", "latest")
    /\ notes' = [notes EXCEPT ![n] = "deleted"]
    /\ UNCHANGED <<scans, pubs, bare, index>>

\* search.rebuild.
SearchRebuild(c) ==
    /\ started /\ Step(c, "idle", "latest")
    /\ UNCHANGED <<catalog, index>>

\* RebuildLatest reads the newest publication before it takes the mutex; with
\* none it is a no-op.
RebuildLatest(c) ==
    /\ InPhase(c, "latest")
    /\ client' = [client EXCEPT ![c] = IF pubs = <<>> THEN Quiet
                     ELSE [@ EXCEPT !.pc = "wait", !.root = LatestPublication]]
    /\ UNCHANGED <<catalog, index>>

----------------------------------------------------------------------------
(* Indexer.Rebuild. *)

\* Mutant: the mutex is not taken.
LockRebuildUnlocked(c) ==
    /\ InPhase(c, "wait")
    /\ mu' = c
    /\ client' = [client EXCEPT ![c].pc = "entries", ![c].scope = LatestRoots]
    /\ UNCHANGED <<catalog, gens, process, failed, health, query>>

\* It takes the mutex, and reads the roots the generation will cover.
LockRebuild(c) ==
    /\ InPhase(c, "wait") /\ mu = Nobody
    /\ mu' = c
    /\ client' = [client EXCEPT ![c].pc = "entries", ![c].scope = LatestRoots]
    /\ UNCHANGED <<catalog, gens, process, failed, health, query>>

\* Mutant: the entries are not compared with the scope.
InScopeByRoot(root, scope, feed) == root \in scope

\* A publication may have come between the two reads, or have outranked the
\* root this rebuild was called for: an entry outside the scope, or a primary
\* root outside it, fails the rebuild.
InScope(root, scope, feed) == root \in scope /\ feed \subseteq scope

ReadEntries(c) ==
    /\ InPhase(c, "entries")
    /\ client' = [client EXCEPT
           ![c].feed = LatestEntries,
           ![c].pc = IF InScope(client[c].root, client[c].scope, LatestEntries)
                     THEN "facts" ELSE "unlock",
           ![c].failed = ~InScope(client[c].root, client[c].scope, LatestEntries)]
    /\ UNCHANGED <<catalog, index>>

\* Annotations, artifacts, descriptions and the rest of the feed: only notes
\* that are not tombstoned and descriptions no successor replaces, and only
\* those of a subject that the entries hold.
ReadFacts(c) ==
    /\ InPhase(c, "facts")
    /\ client' = [client EXCEPT ![c].pc = "build",
                                      ![c].notes = LiveNotes \cap OnSubjects(client[c].feed)]
    /\ UNCHANGED <<catalog, index>>

\* Engine.Build and the insertion of the lexical generation; either may fail,
\* and then the file is removed and the rebuild with it.
BuildLexical(c) ==
    /\ InPhase(c, "build")
    /\ \/ /\ InsertGeneration(Lexical, client[c])
          /\ client' = [client EXCEPT ![c].pc = "semantic"]
       \/ /\ client' = [client EXCEPT ![c].pc = "unlock", ![c].failed = TRUE]
          /\ UNCHANGED gens
    /\ UNCHANGED <<catalog, process, mu, failed, health, query>>

\* rebuildSemantic withdraws readiness before it builds.
BeginSemantic(c) ==
    /\ Step(c, "semantic", "vectors")
    /\ indexReady' = FALSE
    /\ UNCHANGED <<catalog, gens, process, mu, failed, unavailable,
                   verified, passed, query>>

\* The provider embeds, the driver stages the library and builds, the coverage
\* of the result is compared with the segments, the receipt is linked and the
\* row inserted.  It embeds the names of the entries and the notes: without an
\* entry there is nothing to build.  The driver refuses a library that is no
\* longer the bound one.
BuildSemantic(c) ==
    /\ InPhase(c, "vectors")
    /\ client[c].feed # {} /\ library = bound
    /\ InsertGeneration(Semantic, client[c])
    /\ passed' = passed \cup {Len(gens) + 1}
    /\ client' = [client EXCEPT ![c].pc = "admit"]
    /\ UNCHANGED <<catalog, process, mu, failed, unavailable, indexReady,
                   verified, query>>

\* Mutant: the receipt is cached under the lexical generation.
AdmitSemanticAsLexical(c) ==
    /\ Step(c, "admit", "unlock")
    /\ verified' = verified \cup {LatestIndexGeneration(Lexical)}
    /\ indexReady' = TRUE /\ unavailable' = FALSE
    /\ UNCHANGED <<catalog, gens, process, mu, failed, passed, query>>

\* The new generation is cached and readiness granted, while queries run.
AdmitSemantic(c) ==
    /\ Step(c, "admit", "unlock")
    /\ verified' = verified \cup {LatestIndexGeneration(Semantic)}
    /\ indexReady' = TRUE /\ unavailable' = FALSE
    /\ UNCHANGED <<catalog, gens, process, mu, failed, passed, query>>

\* Mutant: the failure is not latched.
FailSemanticQuietly(c) ==
    /\ Step(c, "vectors", "unlock")
    /\ indexReady' = FALSE
    /\ UNCHANGED <<catalog, gens, process, mu, failed, unavailable, verified, passed,
                   query>>

\* Any failure leaves the lexical generation, and sets the latch instead.
FailSemantic(c) ==
    /\ Step(c, "vectors", "unlock")
    /\ indexReady' = FALSE /\ unavailable' = TRUE
    /\ UNCHANGED <<catalog, gens, process, mu, failed, verified, passed, query>>

\* The deferred Unlock runs first ...
UnlockRebuild(c) ==
    /\ Step(c, "unlock", "latch")
    /\ mu' = Nobody
    /\ UNCHANGED <<catalog, gens, process, failed, health, query>>

\* ... and the deferred store of the health latch after it.
StoreHealth(c) ==
    /\ InPhase(c, "latch")
    /\ failed' = client[c].failed
    /\ client' = [client EXCEPT ![c] = Quiet]
    /\ UNCHANGED <<catalog, gens, process, mu, health, query>>

----------------------------------------------------------------------------
(* Indexer.Query of the semantic lane. *)

\* The lexical generation of the last rebuild this process has run to its end
\* and whose semantic half did not fail; 0 if there is none, or a rebuild is
\* under way.
Settled == IF mu = Nobody /\ ~unavailable /\ LatestIndexGeneration(Lexical) > inherited
           THEN LatestIndexGeneration(Lexical) ELSE 0

\* A caller pins a generation, or takes the latest one.
StartQuery(q, g, pinned) ==
    /\ started /\ query[q].pc = "idle"
    /\ g \in Of(Semantic)
    /\ ~pinned => g = LatestIndexGeneration(Semantic)
    /\ query' = [query EXCEPT ![q] =
           [pc |-> "feed", gen |-> g, pinned |-> pinned, rows |-> Len(gens),
            due |-> Settled,
            gone |-> {n \in Notes : notes[n] = "deleted"}, hits |-> {}]]
    /\ UNCHANGED <<catalog, gens, process, mu, failed, health, client>>

\* Mutant: any lexical generation will do.
MatchesAnyFeed(g) == LatestIndexGeneration(Lexical) # 0

\* semanticGenerationMatchesLatestFeed: the latest lexical generation covers
\* the same primary root.  A pinned generation is not asked.
MatchesLatestFeed(g) ==
    /\ LatestIndexGeneration(Lexical) # 0
    /\ gens[LatestIndexGeneration(Lexical)].root = gens[g].root

CheckFeed(q) ==
    /\ query[q].pc = "feed"
    /\ query' = [query EXCEPT ![q] =
           IF (query[q].pinned \/ MatchesLatestFeed(query[q].gen)) /\ ~unavailable
           THEN [@ EXCEPT !.pc = "verify"] ELSE NoQuery]
    /\ UNCHANGED <<catalog, gens, process, mu, failed, health, client>>

\* A generation opens if its library, the bound one and the one on disk are the
\* same; a vector directory that is lost fails in the same places.
Opens(g) == gens[g].library = bound /\ library = bound

\* A failed query revokes its own receipt, and readiness whatever it queried.
Revoke(q) ==
    /\ verified' = verified \ {query[q].gen}
    /\ indexReady' = FALSE
    /\ query' = [query EXCEPT ![q] = NoQuery]
    /\ UNCHANGED <<unavailable, passed>>

\* ensureSemanticGenerationVerified: a cached receipt, re-read from its
\* sidecar, or the full enumeration of the collection.
EnsureVerified(q) ==
    /\ query[q].pc = "verify"
    /\ \/ /\ Opens(query[q].gen)
          /\ verified' = verified \cup {query[q].gen}
          /\ passed' = passed \cup {query[q].gen}
          /\ query' = [query EXCEPT ![q].pc = "hits"]
          /\ UNCHANGED <<indexReady, unavailable>>
       \/ ~Opens(query[q].gen) /\ Revoke(q)
    /\ UNCHANGED <<catalog, gens, process, mu, failed, client>>

\* Mutant: a tombstoned row is taken for a live one.
AdmittedByExistence(hits) == \A n \in hits : notes[n] # "absent"

\* A hit of a note is admitted if the note's row is live when it is read.
Admitted(hits) == hits \subseteq LiveNotes

\* The collection answers some of its notes, and every hit is checked against
\* the catalogue: one that fails the check fails the whole query.
AnswerQuery(q, hits) ==
    /\ query[q].pc = "hits"
    /\ hits \subseteq gens[query[q].gen].notes
    /\ \/ /\ Opens(query[q].gen) /\ Admitted(hits)
          /\ query' = [query EXCEPT ![q].pc = "answered", ![q].hits = hits]
          /\ UNCHANGED health
       \/ ~(Opens(query[q].gen) /\ Admitted(hits)) /\ Revoke(q)
    /\ UNCHANGED <<catalog, gens, process, mu, failed, client>>

EndQuery(q) ==
    /\ query[q].pc = "answered"
    /\ query' = [query EXCEPT ![q] = NoQuery]
    /\ UNCHANGED <<catalog, gens, process, mu, failed, health, client>>

----------------------------------------------------------------------------
(* What happens around it. *)

FaultLeft == (library - 1) + restarts < MaxFaults

\* The bundle installer replaces the native library on disk.
ReplaceLibrary ==
    /\ FaultLeft
    /\ library' = library + 1
    /\ UNCHANGED <<catalog, gens, bound, inherited, started, restarts, mu, failed,
                   health, client, query>>

\* The daemon stops; a new one binds the library it finds and starts with
\* empty latches and an empty cache.
Restart ==
    /\ FaultLeft
    /\ restarts' = restarts + 1
    /\ started' = FALSE /\ bound' = library /\ inherited' = Len(gens)
    /\ mu' = Nobody /\ failed' = FALSE
    /\ unavailable' = FALSE /\ indexReady' = FALSE /\ verified' = {} /\ passed' = {}
    /\ client' = [c \in Clients |-> Quiet]
    /\ query' = [q \in Queriers |-> NoQuery]
    /\ UNCHANGED <<catalog, gens, library>>

\* Mutant: the warm-up trusts the row of the generation.
WarmedByRow == LatestIndexGeneration(Semantic) # 0

\* WarmSemanticGeneration runs before the daemon serves: it grants readiness
\* to the latest generation if it matches the feed and verifies.
Warmed == LET g == LatestIndexGeneration(Semantic)
          IN  g # 0 /\ MatchesLatestFeed(g) /\ Opens(g)

Warm ==
    /\ ~started /\ started' = TRUE
    /\ indexReady' = Warmed /\ UNCHANGED unavailable
    /\ verified' = IF Warmed THEN {LatestIndexGeneration(Semantic)} ELSE {}
    /\ passed' = verified'
    /\ UNCHANGED <<catalog, gens, library, bound, inherited, restarts, mu, failed,
                   client, query>>

\* IndexerReadiness: what capability.list says of the semantic lane.
SemanticAvailable == indexReady /\ ~unavailable /\ library = bound

\* SemanticCoverage: the report is complete if the latest generation is bound
\* to this process and its receipt, its collection and its reader agree.
SemanticCoverageComplete ==
    LET g == LatestIndexGeneration(Semantic)
    IN  ~unavailable /\ g # 0 /\ Opens(g)

IndexNext ==
    \/ \E c \in Clients :
         \/ \E s \in Sources : BeginScan(c, s)
         \/ Publish(c)
         \/ \E n \in Notes : WriteNote(c, n) \/ DeleteNote(c, n)
         \/ SearchRebuild(c) \/ RebuildLatest(c)
         \/ LockRebuild(c) \/ ReadEntries(c) \/ ReadFacts(c) \/ BuildLexical(c)
         \/ BeginSemantic(c) \/ BuildSemantic(c) \/ AdmitSemantic(c) \/ FailSemantic(c)
         \/ UnlockRebuild(c) \/ StoreHealth(c)
    \/ \E q \in Queriers :
         \/ \E g \in DOMAIN gens : \E p \in BOOLEAN : StartQuery(q, g, p)
         \/ CheckFeed(q) \/ EnsureVerified(q)
         \/ \E hits \in SUBSET Notes : AnswerQuery(q, hits)
         \/ EndQuery(q)
    \/ ReplaceLibrary \/ Restart \/ Warm

IndexSpec == IndexInit /\ [][IndexNext]_indexVars

----------------------------------------------------------------------------
(* Type correctness: every variable keeps to its set. *)
IndexTypeOK ==
    /\ scans \in [Sources -> 0..MaxScans]
    /\ Published \subseteq Root /\ bare \subseteq Published
    /\ notes \in [Notes -> {"absent", "live", "deleted"}]
    /\ \A i \in DOMAIN gens : /\ gens[i].dim \in {Lexical, Semantic}
                              /\ gens[i].root \in Root /\ gens[i].notes \subseteq Notes
    /\ verified \cup passed \subseteq Of(Semantic)
    /\ library \in 1..(MaxFaults + 1) /\ bound \in 1..library
    /\ inherited \in 0..Len(gens)
    /\ started \in BOOLEAN /\ restarts \in 0..MaxFaults
    /\ mu \in Clients \cup {Nobody}
    /\ {failed, unavailable, indexReady} \subseteq BOOLEAN
    /\ \A q \in Queriers : query[q].gen \in 0..Len(gens)

\* The source of r was published as an empty directory, at r or after it.
Emptied(r) == \E n \in bare : n[1] = r[1] /\ n[2] >= r[2]

\* A generation is one feed: although its roots and its entries are read by
\* separate statements while publications land, its primary root and the roots
\* whose entries it indexes are among those recorded for it, one to a source;
\* and it records a root without its entries only if the source has been
\* published empty, then or since (indexer.go:281-357).
GenerationIsOneFeed ==
    \A i \in DOMAIN gens :
        /\ gens[i].feed \cup {gens[i].root} \subseteq gens[i].roots
        /\ \A r1, r2 \in gens[i].roots : r1[1] = r2[1] => r1 = r2
        /\ \A r \in gens[i].roots \ gens[i].feed : Emptied(r)

\* Generations never go back: whatever order the rebuilds of concurrent
\* ingests and writes finish in, a later generation covers no older root of a
\* source, and no fewer sources, than an earlier one of its dimension
\* (indexer.go:267-283).
GenerationsNeverRegress ==
    \A i, j \in DOMAIN gens : i < j /\ gens[i].dim = gens[j].dim =>
        \A r \in gens[i].roots : \E n \in gens[j].roots : n[1] = r[1] /\ n[2] >= r[2]

\* A note tombstoned before a query began is never in its answer, although
\* the vectors of the generation still hold it, across restarts and for
\* pinned generations too (indexer.go:1330-1340).
DeletedNoteNeverAnswered ==
    \A q \in Queriers : query[q].hits \cap query[q].gone = {}

\* Two generations were built from the same roots, entries and notes.
SameFeed(i, j) ==
    /\ gens[i].root = gens[j].root /\ gens[i].roots = gens[j].roots
    /\ gens[i].feed = gens[j].feed /\ gens[i].notes = gens[j].notes

\* A default query that begins when the process' last rebuild has ended well
\* answers from the entries and notes of that rebuild's lexical generation: a
\* failed semantic rebuild shuts the lane instead of leaving the older vectors
\* in it.  During a rebuild, and for generations of an earlier process, only
\* the primary root is compared: the answer is of a root the lexical lane
\* served at some time during the query (indexer.go:669-680, 775-787).
AnswerIsOfTheFeed ==
    \A q \in Queriers : query[q].pc = "answered" /\ ~query[q].pinned =>
        /\ query[q].due # 0 => SameFeed(query[q].due, query[q].gen)
        /\ \E i \in Of(Lexical) :
             /\ gens[i].root = gens[query[q].gen].root
             /\ \A j \in Of(Lexical) : i < j => j > query[q].rows

\* The capability is evidence: when the semantic lane is said to be available,
\* the latest generation is one this process verified in full, and a coverage
\* report taken now is complete, whatever failed queries, failed rebuilds, a
\* replaced library or a restart came before (indexer.go:58-63).
ReadyIsVerified ==
    SemanticAvailable => /\ LatestIndexGeneration(Semantic) \in passed
                         /\ SemanticCoverageComplete

\* "An older FTS generation may remain readable, but it must not be advertised
\* as current after a failed rebuild" (indexer.go:54-56): with no rebuild under
\* way in a process that never restarted, a latch that reports no failure
\* means that the latest lexical generation has the notes of the catalogue.
HealthyIsCurrent ==
    (restarts = 0 /\ \A c \in Clients : client[c].pc \in {"idle", "scanning"}) =>
        (~failed /\ Of(Lexical) # {} =>
            LET g == gens[LatestIndexGeneration(Lexical)]
            IN  g.notes = LiveNotes \cap OnSubjects(g.feed))

\* search.rebuild "rebuilds disposable search projections from the newest
\* published snapshot" (search_rebuild_ops.go:20-21): once published, the
\* snapshot a rebuild is called with is one it can index.
NewestIsIndexable == pubs # <<>> => LatestPublication \in LatestRoots

\* "rootsByID is the immutable namespace scope captured by this generation"
\* (indexer.go:312): a recorded root has its entries indexed, or has none.
RootsAreIndexed == \A i \in DOMAIN gens : gens[i].roots \ gens[i].feed \subseteq bare

\* "binds the default semantic broker to the same durable lexical feed that is
\* current after restart" (indexer.go:771-774): a default query answers from
\* the same notes as a lexical generation served during the query.
AnswerHasTheLatestNotes ==
    \A q \in Queriers : query[q].pc = "answered" /\ ~query[q].pinned =>
        \E i \in Of(Lexical) :
            /\ SameFeed(i, query[q].gen)
            /\ \A j \in Of(Lexical) : i < j => j > query[q].rows
=============================================================================

-------------------------- MODULE RepositoryProofs --------------------------
(***************************************************************************)
(* Proofs about Repository, for every set of processes, profiles, objects   *)
(* and records and every number of faults.                                  *)
(***************************************************************************)
EXTENDS Repository, TLAPS

Labels == {"closed"} \cup Opening \cup Open
Processes == [pc : Labels, setting : Settings, obj : Objects \cup {NoObject},
              repair : BOOLEAN, held : SUBSET Objects]

Pc(p) == proc[p].pc
Own(p) == proc[p].setting
Disk(f) == root[f].disk

-----------------------------------------------------------------------------
(* What a process has settled, step by step *)

BeforeMetadata == {"closed", "unmarked", "mark", "sync marker", "metadata"}
MarkerKnown == {"metadata", "sync marker", "link metadata", "sync metadata", "identity",
                "link identity", "sync identity"} \cup Open
KeyKnown == {"sync metadata", "identity", "link identity", "sync identity"} \cup Open
IdentityKnown == {"sync identity"} \cup Open

\* The marker a process has accepted is the one everybody sees.
MarkerAgrees(p) == Pc(p) \in MarkerKnown => Seen("profile") = Config[p].profile

\* So is the key reference of an encrypted repository, once it is linked or read.
KeyAgrees(p) ==
    /\ Pc(p) \in BeforeMetadata => Own(p).key = Absent
    /\ Pc(p) = "link metadata" => Config[p].profile = Encrypted /\ Own(p).key # Absent
    /\ Pc(p) \in KeyKnown =>
         IF Config[p].profile = Encrypted
           THEN Own(p).key # Absent /\ Own(p).key = Seen("encryption")
           ELSE Own(p).key = Absent

\* And the identity.
IdentityAgrees(p) ==
    /\ Pc(p) = "link identity" => Own(p).identity # Absent
    /\ Pc(p) \in IdentityKnown =>
         Own(p).identity # Absent /\ Own(p).identity = Seen("identity")

OpenHasProfile(p) ==
    Own(p).profile = IF Pc(p) \in Open THEN Config[p].profile ELSE Absent

Settled(p) == MarkerAgrees(p) /\ KeyAgrees(p) /\ IdentityAgrees(p) /\ OpenHasProfile(p)

-----------------------------------------------------------------------------
(* What is placed *)

\* A content names the profile it was written under, so rot does not make it
\* a missing one.
Marked(c) == c # NoContent => c.setting.profile # Absent
ContentsMarked == \A o \in Objects : Marked(object[o].seen) /\ Marked(object[o].disk)

\* A setting whose files are all on the disk, and cannot change any more.
Sealed(s) ==
    /\ s.profile # Absent /\ Seen("profile") = s.profile /\ Disk("profile") = s.profile
    /\ s.identity # Absent /\ Seen("identity") = s.identity /\ Disk("identity") = s.identity
    /\ s.profile = Encrypted =>
         s.key # Absent /\ Seen("encryption") = s.key /\ Disk("encryption") = s.key

\* From its link to its receipt a process is the only one that has linked its
\* object, which is there.
Removing == {"sync", "sync parents", "retract"}
Linked == Removing \cup {"unstage"}

Alone ==
    \A p, q \in Procs : p # q /\ Pc(p) \in Linked /\ Pc(q) \in Linked => Mine(p) # Mine(q)

Secured(o) == OnDisk(o) /\ object[o].seen # NoContent

Placing(p) ==
    /\ Pc(p) \in Open \ {"idle"} => Mine(p) \in Objects
    /\ Pc(p) \in Linked => object[Mine(p)].seen # NoContent
    /\ Pc(p) = "sync parents" => object[Mine(p)].disk # NoContent
    /\ Pc(p) = "unstage" => Secured(Mine(p)) /\ Sealed(Own(p))

\* The receipt of one that linked its object holds, and nobody may remove it.
Holds(r) ==
    /\ Secured(r.obj) /\ Sealed(r.setting)
    /\ \A p \in Procs : Pc(p) \in Removing => Mine(p) # r.obj

ReceiptsHold == \A r \in receipts : r.how = "placed" => Holds(r)

IInv ==
    /\ TypeOK
    /\ \A p \in Procs : Settled(p)
    /\ ContentsMarked
    /\ Alone
    /\ \A p \in Procs : Placing(p)
    /\ ReceiptsHold

-----------------------------------------------------------------------------
(* What a step leaves true *)

\* No file at the root is replaced; what is on the disk came from what is seen.
RootGrows ==
    \A f \in RootFiles : /\ Seen(f) # Absent => Seen(f)' = Seen(f)
                         /\ Disk(f)' \in {Disk(f), Seen(f)}

\* No object but those of taken is removed, and none on the disk.
ObjectsStay(taken) ==
    \A o \in Objects :
        /\ path[o] = "durable" => path'[o] = "durable"
        /\ object[o].disk # NoContent => object'[o].disk # NoContent
        /\ o \notin taken /\ object[o].seen # NoContent => object'[o].seen # NoContent

LEMMA SettledKept ==
    ASSUME RootGrows, NEW p \in Procs, Settled(p), TypeOK, proc'[p] = proc[p]
    PROVE  Settled(p)'
  <1>1. Pc(p)' = Pc(p) /\ Own(p)' = Own(p)
    BY DEF Pc, Own
  <1>2. Config[p].profile # Absent
    BY RepositoryAssumption DEF Profiles, Dev, Zstd, Encrypted, Absent
  <1>3. MarkerAgrees(p)'
    BY <1>1, <1>2 DEF MarkerAgrees, Settled, RootGrows, RootFiles
  <1>4. KeyAgrees(p)'
    BY <1>1 DEF KeyAgrees, Settled, RootGrows, RootFiles
  <1>5. IdentityAgrees(p)'
    BY <1>1 DEF IdentityAgrees, Settled, RootGrows, RootFiles
  <1> QED BY <1>1, <1>3, <1>4, <1>5 DEF Settled, OpenHasProfile

LEMMA SealedKept ==
    ASSUME RootGrows, NEW s, Sealed(s)
    PROVE  Sealed(s)'
  BY DEF Sealed, RootGrows, RootFiles

LEMMA SecuredKept ==
    ASSUME NEW taken, ObjectsStay(taken), NEW o \in Objects, o \notin taken, Secured(o)
    PROVE  Secured(o)'
  BY DEF Secured, OnDisk, ObjectsStay

\* A process that does not move keeps what it is placing, unless it is taken.
LEMMA PlacingKept ==
    ASSUME RootGrows, NEW taken, ObjectsStay(taken), NEW p \in Procs, Placing(p),
           proc'[p] = proc[p], Pc(p) \in Linked => Mine(p) \notin taken
    PROVE  Placing(p)'
  <1>1. Pc(p)' = Pc(p) /\ Own(p)' = Own(p) /\ Mine(p)' = Mine(p)
    BY DEF Pc, Own, Mine
  <1>2. Pc(p) \in Linked => Pc(p) \in Open \ {"idle"}
    BY DEF Linked, Removing, Open
  <1>3. CASE Pc(p) \in Linked
    <2>1. Mine(p) \in Objects /\ Mine(p) \notin taken
      BY <1>2, <1>3 DEF Placing
    <2>2. Pc(p) = "unstage" => Secured(Mine(p))' /\ Sealed(Own(p))'
      BY <2>1, <1>1, SecuredKept, SealedKept DEF Placing
    <2> QED BY <1>1, <1>3, <2>1, <2>2 DEF Placing, ObjectsStay
  <1>4. CASE Pc(p) \notin Linked
    BY <1>1, <1>4 DEF Placing, Linked, Removing
  <1> QED BY <1>3, <1>4

-----------------------------------------------------------------------------
(* Opening *)

\* A step of an opener touches the root files and itself only.
Opens(p) ==
    /\ UNCHANGED <<object, path, receipts>>
    /\ proc' \in [Procs -> Processes]
    /\ \A q \in Procs \ {p} : proc'[q] = proc[q]
    /\ Pc(p)' \in {"closed", "idle"} \cup Opening

\* What is placed stays as it is.
LEMMA OpensKeeps ==
    ASSUME IInv, NEW p \in Procs, Opens(p), RootGrows
    PROVE  ContentsMarked' /\ Alone' /\ (\A q \in Procs : Placing(q)') /\ ReceiptsHold'
  <1>1. ContentsMarked'
    BY DEF IInv, ContentsMarked, Opens, Marked
  <1>2. Pc(p)' \notin Linked /\ Pc(p)' \notin Open \ {"idle"}
    BY DEF Opens, Opening, Open, Linked, Removing
  <1>3. \A q \in Procs \ {p} : Pc(q)' = Pc(q) /\ Mine(q)' = Mine(q)
    BY DEF Opens, Pc, Mine
  <1>4. Alone'
    BY <1>2, <1>3 DEF IInv, Alone
  <1>5. ObjectsStay({})
    BY DEF ObjectsStay, Opens
  <1>6. ASSUME NEW q \in Procs PROVE Placing(q)'
    <2>1. CASE q = p
      BY <2>1, <1>2 DEF Placing, Linked, Removing
    <2>2. CASE q # p
      BY <2>2, <1>5, PlacingKept DEF IInv, Opens
    <2> QED BY <2>1, <2>2
  <1>7. ASSUME NEW r \in receipts', r.how = "placed" PROVE Holds(r)'
    <2>1. Holds(r) /\ r.obj \in Objects
      BY <1>7 DEF Opens, IInv, ReceiptsHold, TypeOK
    <2>2. Secured(r.obj)' /\ Sealed(r.setting)'
      BY <2>1, <1>5, SecuredKept, SealedKept DEF Holds
    <2>3. ASSUME NEW q \in Procs, Pc(q)' \in Removing PROVE Mine(q)' # r.obj
      BY <2>3, <2>1, <1>2, <1>3 DEF Holds, Linked
    <2> QED BY <2>2, <2>3 DEF Holds
  <1> QED BY <1>1, <1>4, <1>6, <1>7 DEF ReceiptsHold


LEMMA OpenerStep ==
    ASSUME IInv, NEW p \in Procs, Opens(p), RootGrows, TypeOK', Settled(p)'
    PROVE  IInv'
  <1>1. ASSUME NEW q \in Procs PROVE Settled(q)'
    <2>1. CASE q = p
      BY <2>1
    <2>2. CASE q # p
      BY <2>2, SettledKept DEF IInv, Opens
    <2> QED BY <2>1, <2>2
  <1> QED BY <1>1, OpensKeeps DEF IInv

LEMMA StepMoves ==
    ASSUME TypeOK, NEW p \in Procs, NEW l \in Labels, Step(p, l)
    PROVE  /\ proc' \in [Procs -> Processes]
           /\ \A q \in Procs \ {p} : proc'[q] = proc[q]
           /\ Pc(p)' = l /\ Own(p)' = Own(p) /\ Mine(p)' = Mine(p)
  BY DEF TypeOK, Step, Processes, Labels, Pc, Own, Mine

LEMMA NoSettingTyped == NoSetting \in Settings
  BY DEF NoSetting, Settings, ProfileValues, Keys, IdentityValues

\* A process that closes has nothing settled.
LEMMA GiveMoves ==
    ASSUME TypeOK, NEW p \in Procs, Give(p)
    PROVE  /\ proc' \in [Procs -> Processes]
           /\ \A q \in Procs \ {p} : proc'[q] = proc[q]
           /\ Pc(p)' = "closed" /\ Settled(p)'
  <1>1. Closed \in Processes
    BY NoSettingTyped DEF Closed, Processes, Labels
  <1>2. proc'[p] = Closed /\ proc' \in [Procs -> Processes]
        /\ \A q \in Procs \ {p} : proc'[q] = proc[q]
    BY <1>1 DEF TypeOK, Give, Processes, Labels
  <1>3. Pc(p)' = "closed" /\ Own(p)' = NoSetting
    BY <1>2 DEF Pc, Own, Closed
  <1>4. Settled(p)'
    BY <1>3 DEF Settled, MarkerAgrees, KeyAgrees, IdentityAgrees, OpenHasProfile, NoSetting,
       MarkerKnown, BeforeMetadata, KeyKnown, IdentityKnown, Open
  <1> QED BY <1>2, <1>3, <1>4

LEMMA RootUntouched == ASSUME UNCHANGED root PROVE RootGrows
  BY DEF RootGrows, Seen, Disk

\* A file at the root is linked when there was none.
LEMMA LinkGrows ==
    ASSUME TypeOK, NEW f \in RootFiles, NEW v, Seen(f) = Absent, Link(f, v)
    PROVE  /\ RootGrows /\ Seen(f)' = v
           /\ DOMAIN root' = RootFiles
           /\ root'[f] = [seen |-> v, disk |-> root[f].disk]
           /\ \A g \in RootFiles \ {f} : root'[g] = root[g]
  <1>1. root[f] = [seen |-> root[f].seen, disk |-> root[f].disk]
    BY DEF TypeOK, RootFiles
  <1>2. DOMAIN root' = RootFiles /\ root'[f] = [root[f] EXCEPT !.seen = v]
        /\ \A g \in RootFiles \ {f} : root'[g] = root[g]
    BY DEF Link, TypeOK
  <1>3. root'[f] = [seen |-> v, disk |-> root[f].disk]
    BY <1>1, <1>2
  <1> HIDE DEF Link
  <1> QED BY <1>2, <1>3 DEF RootGrows, Seen, Disk

LEMMA SyncGrows ==
    ASSUME TypeOK, root' = SyncedRoot
    PROVE  /\ RootGrows
           /\ \A f \in RootFiles : Seen(f)' = Seen(f) /\ Disk(f)' = Seen(f)
  BY DEF RootGrows, SyncedRoot, Seen, Disk, TypeOK

\* The root keeps its types.
RootTyped ==
    /\ DOMAIN root = RootFiles
    /\ root["profile"] \in [seen : ProfileValues, disk : ProfileValues]
    /\ root["encryption"] \in [seen : Keys, disk : Keys]
    /\ root["identity"] \in [seen : IdentityValues, disk : IdentityValues]

LEMMA SyncTyped ==
    ASSUME TypeOK, root' = SyncedRoot
    PROVE  RootTyped'
  BY DEF RootTyped, SyncedRoot, Seen, TypeOK, RootFiles

-----------------------------------------------------------------------------
(* The steps of an opener *)

Elsewhere == UNCHANGED <<object, path, litter, generated, receipts, faults>>

\* The definitions that say what is settled at a step.
LEMMA GiveStep ==
    ASSUME IInv, NEW p \in Procs, Give(p), UNCHANGED <<root, object, path, generated, receipts>>,
           litter' \in BOOLEAN, faults' \in 0..MaxFaults
    PROVE  IInv'
  <1>1. TypeOK
    BY DEF IInv
  <1>2. Opens(p) /\ Settled(p)'
    BY <1>1, GiveMoves DEF Opens
  <1>3. TypeOK'
    BY <1>1, <1>2 DEF TypeOK, Opens, Processes, Labels
  <1> QED BY <1>2, <1>3, RootUntouched, OpenerStep

\* A step that only moves the opener.
LEMMA OpenerMoves ==
    ASSUME IInv, NEW p \in Procs, NEW l \in Opening, Step(p, l), UNCHANGED root, Elsewhere,
           Settled(p)'
    PROVE  IInv'
  <1>1. TypeOK /\ l \in Labels
    BY DEF IInv, Labels
  <1>2. Opens(p)
    BY <1>1, StepMoves DEF Opens, Elsewhere
  <1>3. TypeOK'
    BY <1>1, <1>2 DEF TypeOK, Opens, Processes, Labels, Elsewhere
  <1> QED BY <1>2, <1>3, RootUntouched, OpenerStep

\* A step that links a file at the root.
LEMMA OpenerLinks ==
    ASSUME IInv, NEW p \in Procs, NEW l \in Opening, Step(p, l), RootGrows, RootTyped',
           Elsewhere, Settled(p)'
    PROVE  IInv'
  <1>1. TypeOK /\ l \in Labels
    BY DEF IInv, Labels
  <1>2. Opens(p)
    BY <1>1, StepMoves DEF Opens, Elsewhere
  <1>3. TypeOK'
    BY <1>1, <1>2 DEF TypeOK, RootTyped, Opens, Processes, Labels, Elsewhere
  <1> QED BY <1>2, <1>3, OpenerStep

LEMMA ReadMarkerStep == ASSUME IInv, NEW p \in Procs, ReadMarker(p) PROVE IInv'
  <1>1. PICK l \in {"unmarked", "metadata"} :
          Step(p, l) /\ (l = "metadata" => Seen("profile") = Config[p].profile)
    BY DEF ReadMarker
  <1>2. TypeOK /\ l \in Labels /\ l \in Opening /\ Settled(p)
    BY <1>1 DEF IInv, Labels, Opening
  <1>3. Settled(p)'
    BY <1>1, <1>2, StepMoves DEF Settled, MarkerAgrees, KeyAgrees, IdentityAgrees,
       OpenHasProfile, MarkerKnown, BeforeMetadata, KeyKnown, IdentityKnown, Open, ReadMarker,
       Seen, Pc
  <1> QED BY <1>1, <1>2, <1>3, OpenerMoves DEF ReadMarker, Elsewhere

LEMMA CheckUnmarkedStep == ASSUME IInv, NEW p \in Procs, CheckUnmarked(p) PROVE IInv'
  <1>1. TypeOK /\ Settled(p)
    BY DEF IInv
  <1>2. CASE Give(p)
    BY <1>1, <1>2, GiveStep DEF CheckUnmarked, TypeOK
  <1>3. CASE ~Give(p)
    <2>1. PICK l \in {"mark", "metadata"} :
            Step(p, l) /\ (l = "metadata" => Seen("profile") = Config[p].profile)
      BY <1>3 DEF CheckUnmarked
    <2>2. l \in Labels /\ l \in Opening
      BY <2>1 DEF Labels, Opening
    <2>3. Settled(p)'
      BY <1>1, <2>1, <2>2, StepMoves DEF Settled, MarkerAgrees, KeyAgrees, IdentityAgrees,
         OpenHasProfile, MarkerKnown, BeforeMetadata, KeyKnown, IdentityKnown, Open,
         CheckUnmarked, Seen, Pc
    <2> QED BY <2>1, <2>2, <2>3, OpenerMoves DEF CheckUnmarked, Elsewhere
  <1> QED BY <1>2, <1>3

LEMMA LinkMarkerStep == ASSUME IInv, NEW p \in Procs, LinkMarker(p) PROVE IInv'
  <1>1. TypeOK /\ Settled(p)
    BY DEF IInv
  <1>2. CASE Seen("profile") = Absent
    <2>1. Link("profile", Config[p].profile) /\ Step(p, "sync marker") /\ Elsewhere
      BY <1>2 DEF LinkMarker, Elsewhere
    <2>2. /\ RootGrows /\ Seen("profile")' = Config[p].profile
          /\ DOMAIN root' = RootFiles
          /\ root'["profile"] = [seen |-> Config[p].profile, disk |-> root["profile"].disk]
          /\ \A g \in RootFiles \ {"profile"} : root'[g] = root[g]
      BY <1>1, <1>2, <2>1, LinkGrows DEF RootFiles
    <2>3. RootTyped'
      BY <1>1, <2>2, RepositoryAssumption DEF RootTyped, TypeOK, RootFiles, ProfileValues
    <2>4. "sync marker" \in Labels /\ "sync marker" \in Opening
      BY DEF Labels, Opening
    <2>5. Pc(p) = "mark" /\ Pc(p)' = "sync marker" /\ Own(p)' = Own(p)
      BY <1>1, <2>1, <2>4, StepMoves DEF LinkMarker, Pc
    <2>6. Settled(p)'
      BY <1>1, <2>2, <2>5 DEF Settled, MarkerAgrees, KeyAgrees, IdentityAgrees,
         OpenHasProfile, MarkerKnown, BeforeMetadata, KeyKnown, IdentityKnown, Open
    <2> QED BY <2>1, <2>2, <2>3, <2>4, <2>6, OpenerLinks
  <1>3. CASE Seen("profile") # Absent /\ Seen("profile") = Config[p].profile
    <2>1. Step(p, "metadata") /\ UNCHANGED root /\ Elsewhere
      BY <1>3 DEF LinkMarker, Elsewhere
    <2>2. "metadata" \in Labels /\ "metadata" \in Opening
      BY DEF Labels, Opening
    <2>3. Pc(p) = "mark" /\ Pc(p)' = "metadata" /\ Own(p)' = Own(p)
      BY <1>1, <2>1, <2>2, StepMoves DEF LinkMarker, Pc
    <2>4. Settled(p)'
      BY <1>1, <1>3, <2>1, <2>3 DEF Settled, MarkerAgrees, KeyAgrees, IdentityAgrees,
         OpenHasProfile, MarkerKnown, BeforeMetadata, KeyKnown, IdentityKnown, Open, Seen
    <2> QED BY <2>1, <2>2, <2>4, OpenerMoves
  <1>4. CASE Seen("profile") # Absent /\ Seen("profile") # Config[p].profile
    BY <1>1, <1>4, GiveStep DEF LinkMarker, TypeOK
  <1> QED BY <1>2, <1>3, <1>4

LEMMA KeyOfTyped == ASSUME TypeOK, NEW p \in Procs PROVE KeyOf(p) \in Keys
  BY DEF KeyOf, Keys, TypeOK, Seen

LEMMA ReadMetadataStep == ASSUME IInv, NEW p \in Procs, ReadMetadata(p) PROVE IInv'
  <1>1. TypeOK /\ Settled(p)
    BY DEF IInv
  <1>2. CASE Give(p)
    BY <1>1, <1>2, GiveStep DEF ReadMetadata, TypeOK
  <1>3. CASE ~Give(p) /\ Config[p].profile # Encrypted
    <2>1. Step(p, "identity") /\ UNCHANGED root /\ Elsewhere
      BY <1>3 DEF ReadMetadata, Elsewhere
    <2>2. "identity" \in Labels /\ "identity" \in Opening
      BY DEF Labels, Opening
    <2>3. Pc(p) = "metadata" /\ Pc(p)' = "identity" /\ Own(p)' = Own(p)
      BY <1>1, <2>1, <2>2, StepMoves DEF ReadMetadata, Pc
    <2>4. Settled(p)'
      BY <1>1, <1>3, <2>1, <2>3 DEF Settled, MarkerAgrees, KeyAgrees, IdentityAgrees,
         OpenHasProfile, MarkerKnown, BeforeMetadata, KeyKnown, IdentityKnown, Open, Seen
    <2> QED BY <2>1, <2>2, <2>4, OpenerMoves
  <1>4. CASE ~Give(p) /\ Config[p].profile = Encrypted
    <2>1. /\ KeyOf(p) # Absent /\ Seen("encryption") \in {Absent, KeyOf(p)}
          /\ UNCHANGED root /\ Elsewhere
      BY <1>4 DEF ReadMetadata, Elsewhere
    <2> DEFINE l == IF Seen("encryption") = Absent THEN "link metadata" ELSE "identity"
    <2>2. proc' = [proc EXCEPT ![p].setting.key = KeyOf(p), ![p].pc = l]
      BY <1>4 DEF ReadMetadata
    <2>3. l \in {"link metadata", "identity"} /\ l \in Labels /\ l \in Opening
      BY DEF Labels, Opening
    <2>4. proc[p] \in Processes /\ proc[p].setting \in Settings
      BY <1>1 DEF TypeOK, Processes, Labels
    <2>5. [proc[p].setting EXCEPT !.key = KeyOf(p)] \in Settings
      BY <1>1, <2>4, KeyOfTyped DEF Settings
    <2>6. /\ proc'[p] = [proc[p] EXCEPT !.setting = [proc[p].setting EXCEPT !.key = KeyOf(p)],
                                       !.pc = l]
          /\ \A q \in Procs \ {p} : proc'[q] = proc[q]
      BY <1>1, <2>2 DEF TypeOK
    <2> HIDE DEF l
    <2>7. /\ proc'[p] \in Processes /\ Pc(p)' = l /\ Own(p)'.key = KeyOf(p)
          /\ Own(p)'.profile = Own(p).profile /\ Own(p)'.identity = Own(p).identity
      BY <2>3, <2>4, <2>5, <2>6 DEF Processes, Pc, Own, Settings
    <2>8. proc' \in [Procs -> Processes]
      BY <1>1, <2>2, <2>6, <2>7 DEF TypeOK, Processes, Labels
    <2>9. Opens(p)
      BY <2>1, <2>3, <2>6, <2>7, <2>8 DEF Opens, Elsewhere
    <2>10. TypeOK'
      BY <1>1, <2>1, <2>8 DEF TypeOK, Processes, Labels, Elsewhere
    <2>11. Pc(p) = "metadata" /\ (l = "identity" => Seen("encryption") # Absent)
      BY DEF ReadMetadata, Pc, l
    <2>12. Settled(p)'
      BY <1>1, <1>4, <2>1, <2>3, <2>7, <2>11 DEF Settled, MarkerAgrees, KeyAgrees, IdentityAgrees,
         OpenHasProfile, MarkerKnown, BeforeMetadata, KeyKnown, IdentityKnown, Open, Seen
    <2> QED BY <2>1, <2>9, <2>10, <2>12, RootUntouched, OpenerStep
  <1> QED BY <1>2, <1>3, <1>4

LEMMA LinkMetadataStep == ASSUME IInv, NEW p \in Procs, LinkMetadata(p) PROVE IInv'
  <1>1. TypeOK /\ Settled(p) /\ Pc(p) = "link metadata"
    BY DEF IInv, LinkMetadata, Pc
  <1>2. CASE Seen("encryption") = Absent
    <2>1. Link("encryption", Own(p).key) /\ Step(p, "sync metadata") /\ Elsewhere
      BY <1>2 DEF LinkMetadata, Elsewhere, Own
    <2>2. /\ RootGrows /\ Seen("encryption")' = Own(p).key
          /\ DOMAIN root' = RootFiles
          /\ root'["encryption"] = [seen |-> Own(p).key, disk |-> root["encryption"].disk]
          /\ \A g \in RootFiles \ {"encryption"} : root'[g] = root[g]
      BY <1>1, <1>2, <2>1, LinkGrows DEF RootFiles
    <2>3. Own(p).key \in Keys
      BY <1>1 DEF TypeOK, Own, Settings
    <2>4. RootTyped'
      <3>1. /\ root'["profile"] = root["profile"] /\ root'["identity"] = root["identity"]
            /\ root["encryption"].disk \in Keys
        BY <1>1, <2>2 DEF TypeOK, RootFiles
      <3>2. root'["encryption"] \in [seen : Keys, disk : Keys]
        BY <2>2, <2>3, <3>1
      <3> QED BY <1>1, <2>2, <3>1, <3>2 DEF RootTyped, TypeOK
    <2>5. "sync metadata" \in Labels /\ "sync metadata" \in Opening
      BY DEF Labels, Opening
    <2>6. Pc(p)' = "sync metadata" /\ Own(p)' = Own(p)
      BY <1>1, <2>1, <2>5, StepMoves
    <2>7. Seen("profile")' = Seen("profile")
      BY <2>2 DEF Seen, RootFiles
    <2>8. Settled(p)'
      BY <1>1, <2>2, <2>6, <2>7 DEF Settled, MarkerAgrees, KeyAgrees, IdentityAgrees,
         OpenHasProfile, MarkerKnown, BeforeMetadata, KeyKnown, IdentityKnown, Open
    <2> QED BY <2>1, <2>2, <2>4, <2>5, <2>8, OpenerLinks
  <1>3. CASE Seen("encryption") # Absent /\ Seen("encryption") = Own(p).key
    <2>1. Step(p, "identity") /\ UNCHANGED root /\ Elsewhere
      BY <1>3 DEF LinkMetadata, Elsewhere, Own
    <2>2. "identity" \in Labels /\ "identity" \in Opening
      BY DEF Labels, Opening
    <2>3. Pc(p)' = "identity" /\ Own(p)' = Own(p)
      BY <1>1, <2>1, <2>2, StepMoves
    <2>4. Settled(p)'
      BY <1>1, <1>3, <2>1, <2>3 DEF Settled, MarkerAgrees, KeyAgrees, IdentityAgrees,
         OpenHasProfile, MarkerKnown, BeforeMetadata, KeyKnown, IdentityKnown, Open, Seen
    <2> QED BY <2>1, <2>2, <2>4, OpenerMoves
  <1>4. CASE Seen("encryption") # Absent /\ Seen("encryption") # Own(p).key
    BY <1>1, <1>4, GiveStep DEF LinkMetadata, TypeOK, Own
  <1> QED BY <1>2, <1>3, <1>4

\* Opening ends with the three files agreed upon.
LEMMA OpenedMoves ==
    ASSUME TypeOK, NEW p \in Procs, NEW i \in IdentityValues, Opened(p, i)
    PROVE  /\ proc' \in [Procs -> Processes]
           /\ \A q \in Procs \ {p} : proc'[q] = proc[q]
           /\ Pc(p)' = "idle" /\ Own(p)'.profile = Config[p].profile
           /\ Own(p)'.key = Own(p).key /\ Own(p)'.identity = i
  <1>1. proc[p] \in Processes /\ proc[p].setting \in Settings
    BY DEF TypeOK, Processes, Labels
  <1> DEFINE s == [proc[p].setting EXCEPT !.profile = Config[p].profile, !.identity = i]
  <1>2. /\ s \in Settings /\ s.profile = Config[p].profile /\ s.identity = i
        /\ s.key = proc[p].setting.key
    BY <1>1, RepositoryAssumption DEF Settings, ProfileValues
  <1>3. /\ proc'[p] = [proc[p] EXCEPT !.pc = "idle", !.setting = s]
        /\ \A q \in Procs \ {p} : proc'[q] = proc[q]
        /\ DOMAIN proc' = Procs /\ proc' = [q \in Procs |-> proc'[q]]
    BY DEF Opened, TypeOK
  <1> HIDE DEF s
  <1>4. /\ proc'[p] \in Processes /\ proc'[p].pc = "idle" /\ proc'[p].setting = s
    BY <1>1, <1>2, <1>3 DEF Processes, Labels, Open
  <1>5. proc' \in [Procs -> Processes]
    BY <1>3, <1>4 DEF TypeOK, Processes, Labels
  <1> QED BY <1>2, <1>3, <1>4, <1>5 DEF Pc, Own

LEMMA OpenedStep ==
    ASSUME IInv, NEW p \in Procs, NEW i \in IdentityValues, Opened(p, i),
           Pc(p) \in {"identity", "sync identity"}, i # Absent, Seen("identity") = i,
           RootGrows, RootTyped', UNCHANGED <<object, path, litter, receipts, faults>>,
           generated' \subseteq Identities
    PROVE  IInv'
  <1>1. TypeOK /\ Settled(p)
    BY DEF IInv
  <1>2. Opens(p) /\ TypeOK'
    BY <1>1, OpenedMoves DEF Opens, TypeOK, RootTyped, Processes, Labels
  <1>3. Pc(p)' = "idle" /\ Own(p)'.profile = Config[p].profile
        /\ Own(p)'.key = Own(p).key /\ Own(p)'.identity = i
    BY <1>1, OpenedMoves
  <1>4. Seen("profile") = Config[p].profile /\ Config[p].profile # Absent
    BY <1>1, RepositoryAssumption
    DEF Settled, MarkerAgrees, MarkerKnown, Profiles, Dev, Zstd, Encrypted, Absent
  <1>5. Seen("profile")' = Seen("profile") /\ Seen("identity")' = i
    BY <1>4 DEF RootGrows, RootFiles
  <1>6. Seen("encryption") # Absent => Seen("encryption")' = Seen("encryption")
    BY DEF RootGrows, RootFiles
  <1>7. Settled(p)'
    BY <1>1, <1>3, <1>4, <1>5, <1>6 DEF Settled, MarkerAgrees, KeyAgrees, IdentityAgrees,
       OpenHasProfile, MarkerKnown, BeforeMetadata, KeyKnown, IdentityKnown, Open
  <1> QED BY <1>2, <1>7, OpenerStep

LEMMA SyncRootStep == ASSUME IInv, NEW p \in Procs, SyncRoot(p) PROVE IInv'
  <1>1. TypeOK /\ Settled(p) /\ root' = SyncedRoot
    BY DEF IInv, SyncRoot
  <1>2. RootGrows /\ RootTyped' /\ \A f \in RootFiles : Seen(f)' = Seen(f)
    BY <1>1, SyncGrows, SyncTyped
  <1>3. CASE Pc(p) = "sync identity"
    <2>1. Opened(p, Own(p).identity) /\ Elsewhere
      BY <1>3 DEF SyncRoot, Pc, Own, Elsewhere
    <2>2. Own(p).identity = Seen("identity") /\ Own(p).identity # Absent
      BY <1>1, <1>3 DEF Settled, IdentityAgrees, IdentityKnown
    <2>3. Own(p).identity \in IdentityValues /\ generated \subseteq Identities
      BY <1>1 DEF TypeOK, Own, Settings
    <2> QED BY <1>2, <1>3, <2>1, <2>2, <2>3, OpenedStep DEF Elsewhere
  <1>4. CASE Pc(p) # "sync identity"
    <2>1. PICK l \in {"metadata", "identity"} :
            /\ Step(p, l) /\ Elsewhere
            /\ Pc(p) = IF l = "metadata" THEN "sync marker" ELSE "sync metadata"
      BY <1>4 DEF SyncRoot, Pc, Elsewhere
    <2>2. l \in Labels /\ l \in Opening
      BY DEF Labels, Opening
    <2>3. Pc(p)' = l /\ Own(p)' = Own(p)
      BY <1>1, <2>1, <2>2, StepMoves
    <2>4. Settled(p)'
      BY <1>1, <1>2, <2>1, <2>3 DEF Settled, MarkerAgrees, KeyAgrees, IdentityAgrees,
         OpenHasProfile, MarkerKnown, BeforeMetadata, KeyKnown, IdentityKnown, Open, RootFiles
    <2> QED BY <1>2, <2>1, <2>2, <2>4, OpenerLinks
  <1> QED BY <1>3, <1>4

LEMMA FaultBounded == ASSUME TypeOK, Fault PROVE faults' \in 0..MaxFaults
  BY RepositoryAssumption DEF TypeOK, Fault

LEMMA OpenFailsStep == ASSUME IInv, NEW p \in Procs, OpenFails(p) PROVE IInv'
  <1>1. faults' \in 0..MaxFaults
    BY FaultBounded DEF IInv, OpenFails
  <1>2. litter' \in BOOLEAN
    BY DEF IInv, TypeOK, OpenFails
  <1> QED BY <1>1, <1>2, GiveStep DEF OpenFails

LEMMA KillStep == ASSUME IInv, NEW p \in Procs, Kill(p) PROVE IInv'
  <1>1. faults' \in 0..MaxFaults
    BY FaultBounded DEF IInv, Kill
  <1>2. litter' \in BOOLEAN
    BY DEF IInv, TypeOK, Kill, HasTemporary
  <1> QED BY <1>1, <1>2, GiveStep DEF Kill

LEMMA LoadIdentityStep == ASSUME IInv, NEW p \in Procs, LoadIdentity(p) PROVE IInv'
  <1>1. TypeOK /\ Settled(p) /\ Pc(p) = "identity" /\ RootTyped /\ UNCHANGED root
    BY DEF IInv, LoadIdentity, Pc, TypeOK, RootTyped
  <1>2. CASE Seen("identity") # Absent
    <2>1. Opened(p, Seen("identity")) /\ UNCHANGED generated
      BY <1>2 DEF LoadIdentity
    <2>2. Seen("identity") \in IdentityValues /\ generated \subseteq Identities
      BY <1>1 DEF TypeOK, Seen
    <2>3. RootTyped' /\ RootGrows
      BY <1>1, RootUntouched DEF RootTyped
    <2> QED BY <1>1, <1>2, <2>1, <2>2, <2>3, OpenedStep DEF LoadIdentity
  <1>3. CASE Seen("identity") = Absent
    <2>1. PICK new \in Identities \ generated :
            /\ generated' = generated \cup {new}
            /\ proc' = [proc EXCEPT ![p].pc = "link identity", ![p].setting.identity = new]
      BY <1>3 DEF LoadIdentity
    <2>2. new # Absent /\ new \in IdentityValues
      BY RepositoryAssumption DEF IdentityValues
    <2>3. proc[p] \in Processes /\ proc[p].setting \in Settings
      BY <1>1 DEF TypeOK, Processes, Labels
    <2> DEFINE s == [proc[p].setting EXCEPT !.identity = new]
    <2>4. /\ s \in Settings /\ s.identity = new /\ s.key = Own(p).key
          /\ s.profile = Own(p).profile
      BY <2>2, <2>3 DEF Settings, Own
    <2>5. /\ proc'[p] = [proc[p] EXCEPT !.pc = "link identity", !.setting = s]
          /\ \A q \in Procs \ {p} : proc'[q] = proc[q]
          /\ DOMAIN proc' = Procs /\ proc' = [q \in Procs |-> proc'[q]]
      BY <1>1, <2>1 DEF TypeOK
    <2> HIDE DEF s
    <2>6. proc'[p] \in Processes /\ Pc(p)' = "link identity" /\ Own(p)' = s
      BY <2>3, <2>4, <2>5 DEF Processes, Labels, Opening, Pc, Own
    <2>7. proc' \in [Procs -> Processes]
      BY <1>1, <2>5, <2>6 DEF TypeOK, Processes, Labels
    <2>8. Opens(p)
      BY <2>5, <2>6, <2>7 DEF Opens, LoadIdentity, Opening
    <2>9. TypeOK'
      BY <1>1, <2>1, <2>7 DEF TypeOK, LoadIdentity, Processes, Labels
    <2>10. Settled(p)'
      BY <1>1, <2>2, <2>4, <2>6 DEF Settled, MarkerAgrees, KeyAgrees, IdentityAgrees,
         OpenHasProfile, MarkerKnown, BeforeMetadata, KeyKnown, IdentityKnown, Open, Seen
    <2> QED BY <1>1, <2>8, <2>9, <2>10, RootUntouched, OpenerStep
  <1> QED BY <1>2, <1>3

LEMMA LinkIdentityStep == ASSUME IInv, NEW p \in Procs, LinkIdentity(p) PROVE IInv'
  <1>1. TypeOK /\ Settled(p) /\ Pc(p) = "link identity" /\ Elsewhere
    BY DEF IInv, LinkIdentity, Pc, Elsewhere
  <1>2. CASE Seen("identity") = Absent
    <2>1. Link("identity", Own(p).identity) /\ Step(p, "sync identity")
      BY <1>2 DEF LinkIdentity, Own
    <2>2. /\ RootGrows /\ Seen("identity")' = Own(p).identity
          /\ DOMAIN root' = RootFiles
          /\ root'["identity"] = [seen |-> Own(p).identity, disk |-> root["identity"].disk]
          /\ \A g \in RootFiles \ {"identity"} : root'[g] = root[g]
      BY <1>1, <1>2, <2>1, LinkGrows DEF RootFiles
    <2>3. Own(p).identity \in IdentityValues
      BY <1>1 DEF TypeOK, Own, Settings
    <2>4. RootTyped'
      <3>1. /\ root'["profile"] = root["profile"]
            /\ root'["encryption"] = root["encryption"]
            /\ root["identity"].disk \in IdentityValues
        BY <1>1, <2>2 DEF TypeOK, RootFiles
      <3>2. root'["identity"] \in [seen : IdentityValues, disk : IdentityValues]
        BY <2>2, <2>3, <3>1
      <3> QED BY <1>1, <2>2, <3>1, <3>2 DEF RootTyped, TypeOK
    <2>5. "sync identity" \in Labels /\ "sync identity" \in Opening
      BY DEF Labels, Opening
    <2>6. Pc(p)' = "sync identity" /\ Own(p)' = Own(p)
      BY <1>1, <2>1, <2>5, StepMoves
    <2>7. Seen("profile")' = Seen("profile") /\ Seen("encryption")' = Seen("encryption")
      BY <2>2 DEF Seen, RootFiles
    <2>8. Settled(p)'
      BY <1>1, <2>2, <2>6, <2>7 DEF Settled, MarkerAgrees, KeyAgrees, IdentityAgrees,
         OpenHasProfile, MarkerKnown, BeforeMetadata, KeyKnown, IdentityKnown, Open
    <2> QED BY <1>1, <2>1, <2>2, <2>4, <2>5, <2>8, OpenerLinks
  <1>3. CASE Seen("identity") # Absent
    <2>1. /\ UNCHANGED root
          /\ proc' = [proc EXCEPT ![p].pc = "sync identity",
                                  ![p].setting.identity = Seen("identity")]
      BY <1>3 DEF LinkIdentity
    <2>2. Seen("identity") \in IdentityValues
      BY <1>1 DEF TypeOK, Seen
    <2>3. proc[p] \in Processes /\ proc[p].setting \in Settings
      BY <1>1 DEF TypeOK, Processes, Labels
    <2> DEFINE s == [proc[p].setting EXCEPT !.identity = Seen("identity")]
    <2>4. /\ s \in Settings /\ s.identity = Seen("identity") /\ s.key = Own(p).key
          /\ s.profile = Own(p).profile
      BY <2>2, <2>3 DEF Settings, Own
    <2>5. /\ proc'[p] = [proc[p] EXCEPT !.pc = "sync identity", !.setting = s]
          /\ \A q \in Procs \ {p} : proc'[q] = proc[q]
          /\ DOMAIN proc' = Procs /\ proc' = [q \in Procs |-> proc'[q]]
      BY <1>1, <2>1 DEF TypeOK
    <2> HIDE DEF s
    <2>6. proc'[p] \in Processes /\ Pc(p)' = "sync identity" /\ Own(p)' = s
      BY <2>3, <2>4, <2>5 DEF Processes, Labels, Opening, Pc, Own
    <2>7. proc' \in [Procs -> Processes]
      BY <1>1, <2>5, <2>6 DEF TypeOK, Processes, Labels
    <2>8. Opens(p)
      BY <1>1, <2>5, <2>6, <2>7 DEF Opens, Elsewhere, Opening
    <2>9. TypeOK'
      BY <1>1, <2>1, <2>7 DEF TypeOK, Elsewhere, Processes, Labels
    <2>10. Seen("profile")' = Seen("profile") /\ Seen("encryption")' = Seen("encryption")
           /\ Seen("identity")' = Seen("identity")
      BY <2>1 DEF Seen
    <2>11. Settled(p)'
      BY <1>1, <1>3, <2>4, <2>6, <2>10 DEF Settled, MarkerAgrees, KeyAgrees, IdentityAgrees,
         OpenHasProfile, MarkerKnown, BeforeMetadata, KeyKnown, IdentityKnown, Open
    <2> QED BY <2>1, <2>8, <2>9, <2>11, RootUntouched, OpenerStep
  <1> QED BY <1>2, <1>3

-----------------------------------------------------------------------------
(* The steps of a process that has the repository open *)

OthersStay(p) == \A q \in Procs \ {p} : proc'[q] = proc[q]

\* The object a process goes on to hold is its own, or was not there.
Claims(p) ==
    Pc(p)' \in Linked =>
      \/ /\ Pc(p) \in Linked /\ Mine(p)' = Mine(p)
         /\ Pc(p)' \in Removing => Pc(p) \in Removing
      \/ object[Mine(p)'].seen = NoContent

\* What is removed is the object of the process that linked it.
Removes(p, taken) == taken = {} \/ (Pc(p) \in Removing /\ taken = {Mine(p)})

\* A new receipt is that of the process that has synced its object.
Receipts(p) ==
    \A r \in receipts' : r.how = "placed" =>
      \/ r \in receipts
      \/ /\ Pc(p) = "unstage" /\ Pc(p)' = "idle"
         /\ r.obj = Mine(p) /\ r.setting = Own(p)

LEMMA WorkStep ==
    ASSUME IInv, NEW p \in Procs, NEW taken, RootGrows, TypeOK', OthersStay(p),
           Pc(p) \in Open, Pc(p)' \in Open, Own(p)' = Own(p),
           ObjectsStay(taken), Removes(p, taken), Claims(p), Receipts(p),
           ContentsMarked', Placing(p)'
    PROVE  IInv'
  <1>1. TypeOK /\ Settled(p)
    BY DEF IInv
  <1>2. \A q \in Procs \ {p} : Pc(q)' = Pc(q) /\ Mine(q)' = Mine(q)
    BY DEF OthersStay, Pc, Mine
  <1>3. Settled(p)'
    <2>1. Seen("profile") # Absent
      BY <1>1, RepositoryAssumption DEF Settled, MarkerAgrees, MarkerKnown, Profiles, Dev, Zstd,
         Encrypted, Absent
    <2>2. Seen("profile")' = Seen("profile")
      BY <2>1 DEF RootGrows, RootFiles
    <2>3. /\ Seen("identity") # Absent => Seen("identity")' = Seen("identity")
          /\ Seen("encryption") # Absent => Seen("encryption")' = Seen("encryption")
      BY DEF RootGrows, RootFiles
    <2> QED BY <1>1, <2>2, <2>3 DEF Settled, MarkerAgrees, KeyAgrees, IdentityAgrees,
        OpenHasProfile, MarkerKnown, BeforeMetadata, KeyKnown, IdentityKnown, Open
  <1>4. ASSUME NEW q \in Procs PROVE Settled(q)'
    BY <1>1, <1>3, SettledKept DEF IInv, OthersStay
  <1>5. ASSUME NEW q \in Procs \ {p}, Pc(q) \in Linked PROVE Mine(q) \notin taken
    BY <1>5 DEF IInv, Alone, Removes, Linked
  <1>6. ASSUME NEW q \in Procs PROVE Placing(q)'
    BY <1>5, PlacingKept DEF IInv, OthersStay
  <1>7. ASSUME NEW q \in Procs \ {p}, Pc(q) \in Linked, Pc(p)' \in Linked
        PROVE  Mine(q) # Mine(p)'
    <2>1. Placing(q) /\ object[Mine(q)].seen # NoContent
      BY <1>7 DEF IInv, Placing
    <2> QED BY <1>7, <2>1 DEF Claims, IInv, Alone
  <1>8. Alone'
    BY <1>2, <1>7 DEF Alone, IInv
  <1>9. ASSUME NEW r \in receipts', r.how = "placed" PROVE Holds(r)'
    <2>1. CASE r \in receipts
      <3>1. Holds(r) /\ r.obj \in Objects
        BY <1>1, <1>9, <2>1 DEF IInv, ReceiptsHold, TypeOK
      <3>2. r.obj \notin taken
        BY <3>1 DEF Holds, Removes
      <3>3. Secured(r.obj)' /\ Sealed(r.setting)'
        BY <3>1, <3>2, SecuredKept, SealedKept DEF Holds
      <3>4. Pc(p)' \in Removing => Mine(p)' # r.obj
        BY <3>1 DEF Claims, Holds, Linked, Secured
      <3>5. ASSUME NEW q \in Procs, Pc(q)' \in Removing PROVE Mine(q)' # r.obj
        BY <3>1, <3>4, <3>5, <1>2 DEF Holds
      <3> QED BY <3>3, <3>5 DEF Holds
    <2>2. CASE r \notin receipts
      <3>1. Pc(p) = "unstage" /\ Pc(p)' = "idle" /\ r.obj = Mine(p) /\ r.setting = Own(p)
        BY <1>9, <2>2 DEF Receipts
      <3>2. Secured(r.obj) /\ Sealed(r.setting) /\ r.obj \in Objects
        BY <3>1 DEF IInv, Placing, Open
      <3>3. taken = {}
        BY <3>1 DEF Removes, Removing
      <3>4. Secured(r.obj)' /\ Sealed(r.setting)'
        BY <3>2, <3>3, SecuredKept, SealedKept
      <3>5. ASSUME NEW q \in Procs, Pc(q)' \in Removing PROVE Mine(q)' # r.obj
        BY <3>1, <3>5, <1>2 DEF IInv, Alone, Linked, Removing
      <3> QED BY <3>4, <3>5 DEF Holds
    <2> QED BY <2>1, <2>2
  <1> QED BY <1>4, <1>6, <1>8, <1>9 DEF IInv, ReceiptsHold

\* Most steps leave the objects and the root alone.
Untouched == UNCHANGED <<root, object>> /\ \A o \in Objects : path[o] = "durable" => path'[o] = "durable"

LEMMA UntouchedStays ==
    ASSUME IInv, Untouched
    PROVE  RootGrows /\ ObjectsStay({}) /\ ContentsMarked'
           /\ (\A o \in Objects : Secured(o) => Secured(o)') /\ (\A s : Sealed(s) => Sealed(s)')
  <1>1. RootGrows
    BY RootUntouched DEF Untouched
  <1>2. ObjectsStay({}) /\ ContentsMarked'
    BY DEF Untouched, ObjectsStay, IInv, ContentsMarked, Marked
  <1> QED BY <1>1, <1>2, SecuredKept, SealedKept

LEMMA IdleMoves ==
    ASSUME TypeOK, NEW p \in Procs, NEW gained \in SUBSET Objects, Idle(p, gained)
    PROVE  /\ proc' \in [Procs -> Processes] /\ OthersStay(p)
           /\ Pc(p)' = "idle" /\ Own(p)' = Own(p)
  <1>1. proc[p] \in Processes
    BY DEF TypeOK, Processes, Labels
  <1> DEFINE h == proc[p].held \cup gained
  <1>2. h \in SUBSET Objects
    BY <1>1 DEF Processes
  <1>3. /\ proc'[p] = [proc[p] EXCEPT !.pc = "idle", !.obj = NoObject, !.repair = FALSE, !.held = h]
        /\ OthersStay(p) /\ DOMAIN proc' = Procs /\ proc' = [q \in Procs |-> proc'[q]]
    BY DEF Idle, TypeOK, OthersStay
  <1> HIDE DEF h
  <1>4. proc'[p] \in Processes /\ proc'[p].pc = "idle" /\ proc'[p].setting = proc[p].setting
    BY <1>1, <1>2, <1>3 DEF Processes, Labels, Open
  <1>5. proc' \in [Procs -> Processes]
    BY <1>3, <1>4 DEF TypeOK, Processes, Labels, OthersStay
  <1> QED BY <1>3, <1>4, <1>5 DEF Pc, Own

\* A step that leaves all objects alone, and the process at rest.
LEMMA RestStep ==
    ASSUME IInv, NEW p \in Procs, Pc(p) \in Open, NEW gained \in SUBSET Objects,
           Idle(p, gained), Untouched, TypeOK', Receipts(p)
    PROVE  IInv'
  <1>1. Pc(p)' = "idle" /\ Own(p)' = Own(p) /\ OthersStay(p)
    BY IdleMoves DEF IInv
  <1>2. Placing(p)' /\ Claims(p) /\ Pc(p)' \in Open
    BY <1>1 DEF Placing, Claims, Linked, Removing, Open
  <1>3. Removes(p, {})
    BY DEF Removes
  <1> QED BY <1>1, <1>2, <1>3, UntouchedStays, WorkStep

\* Or the process at another step of the same work, none that needs more.
LEMMA NextStep ==
    ASSUME IInv, NEW p \in Procs, Pc(p) \in Open \ {"idle"},
           NEW l \in {"link", "retract", "replace"}, Step(p, l),
           l = "retract" => Pc(p) \in Removing,
           Untouched, TypeOK', UNCHANGED receipts
    PROVE  IInv'
  <1>1. TypeOK /\ Placing(p) /\ l \in Labels /\ l \in Open
    BY DEF IInv, Labels, Open
  <1>2. Pc(p)' = l /\ Own(p)' = Own(p) /\ Mine(p)' = Mine(p) /\ OthersStay(p)
    BY <1>1, StepMoves DEF OthersStay
  <1>3. Placing(p)'
    BY <1>1, <1>2 DEF Placing, Linked, Removing, Open, Untouched
  <1>4. Claims(p) /\ Receipts(p) /\ Removes(p, {})
    BY <1>2 DEF Claims, Receipts, Removes, Linked, Removing
  <1> QED BY <1>1, <1>2, <1>3, <1>4, UntouchedStays, WorkStep

LEMMA BeginWork ==
    ASSUME IInv, NEW p \in Procs, Pc(p) = "idle", NEW o \in Objects,
           NEW l \in {"look", "inspect"}, NEW b \in BOOLEAN,
           proc' = [proc EXCEPT ![p] = [@ EXCEPT !.pc = l, !.obj = o, !.repair = b]],
           UNCHANGED <<root, object, path, litter, generated, receipts, faults>>
    PROVE  IInv'
  <1>1. TypeOK /\ proc[p] \in Processes /\ l \in Labels /\ l \in Open
    BY DEF IInv, TypeOK, Processes, Labels, Open
  <1>2. /\ proc'[p] = [proc[p] EXCEPT !.pc = l, !.obj = o, !.repair = b]
        /\ OthersStay(p) /\ DOMAIN proc' = Procs /\ proc' = [q \in Procs |-> proc'[q]]
    BY <1>1 DEF TypeOK, OthersStay
  <1>3. /\ proc'[p] \in Processes /\ Pc(p)' = l /\ Own(p)' = Own(p) /\ Mine(p)' = o
    BY <1>1, <1>2 DEF Processes, Pc, Own, Mine
  <1>4. proc' \in [Procs -> Processes]
    BY <1>1, <1>2, <1>3 DEF TypeOK, Processes, Labels, OthersStay
  <1>5. TypeOK'
    BY <1>1, <1>4 DEF TypeOK, Processes, Labels
  <1>6. Untouched /\ Removes(p, {})
    BY DEF Untouched, Removes
  <1>7. Placing(p)' /\ Claims(p) /\ Receipts(p)
    BY <1>3 DEF Placing, Claims, Receipts, Linked, Removing
  <1>8. Pc(p) \in Open
    BY DEF Open
  <1> QED BY <1>1, <1>2, <1>3, <1>5, <1>6, <1>7, <1>8, UntouchedStays, WorkStep

LEMMA StageStep == ASSUME IInv, NEW p \in Procs, NEW o \in Objects, Stage(p, o) PROVE IInv'
  <1>1. proc[p] \in Processes /\ Pc(p) = "idle"
    BY DEF IInv, TypeOK, Processes, Labels, Stage, Pc
  <1>2. proc' = [proc EXCEPT ![p] = [@ EXCEPT !.pc = "look", !.obj = o,
                                              !.repair = proc[p].repair]]
    BY <1>1 DEF Stage, Processes, IInv, TypeOK
  <1>3. PICK b \in BOOLEAN :
          proc' = [proc EXCEPT ![p] = [@ EXCEPT !.pc = "look", !.obj = o, !.repair = b]]
    BY <1>1, <1>2 DEF Processes
  <1>4. UNCHANGED <<root, object, path, litter, generated, receipts, faults>>
    BY DEF Stage
  <1> QED BY <1>1, <1>3, <1>4, BeginWork

LEMMA StageRepairStep ==
    ASSUME IInv, NEW p \in Procs, NEW o \in Objects, StageRepair(p, o) PROVE IInv'
  <1>1. Pc(p) = "idle"
    BY DEF StageRepair, Pc
  <1>2. proc' = [proc EXCEPT ![p] = [@ EXCEPT !.pc = "inspect", !.obj = o, !.repair = TRUE]]
    BY DEF StageRepair
  <1> QED BY <1>1, <1>2, BeginWork DEF StageRepair

\* What a process that ends its work hands out is typed.
LEMMA EndTyped ==
    ASSUME TypeOK, NEW p \in Procs, Mine(p) \in Objects,
           NEW how \in {"placed", "existed", "repaired"}, Receive(p, how) \/ Fail(p),
           RootTyped', object' \in [Objects -> [seen : Contents, disk : Contents]],
           path' \in [Objects -> {"none", "made", "durable"}],
           UNCHANGED <<litter, generated>>, faults' \in 0..MaxFaults
    PROVE  TypeOK'
  <1>1. proc' \in [Procs -> Processes]
    <2>1. CASE Receive(p, how)
      BY <2>1, IdleMoves DEF Receive
    <2>2. CASE Fail(p)
      BY <2>2, IdleMoves DEF Fail
    <2> QED BY <2>1, <2>2
  <1>2. [obj |-> Mine(p), how |-> how, setting |-> proc[p].setting] \in
          [obj : Objects, how : {"placed", "existed", "repaired"}, setting : Settings]
    BY DEF TypeOK
  <1>3. receipts' \subseteq [obj : Objects, how : {"placed", "existed", "repaired"},
                            setting : Settings]
    BY <1>2 DEF Receive, Fail, TypeOK
  <1> QED BY <1>1, <1>3 DEF TypeOK, RootTyped, Processes, Labels

\* Work that ends without a receipt for an object of its own.
LEMMA EndStep ==
    ASSUME IInv, NEW p \in Procs, Pc(p) \in Open \ {"idle"},
           NEW how \in {"existed", "repaired"}, Receive(p, how) \/ Fail(p),
           Untouched, TypeOK'
    PROVE  IInv'
  <1>1. TypeOK /\ Mine(p) \in Objects
    BY DEF IInv, Placing
  <1>2. Receipts(p)
    BY DEF Receipts, Receive, Fail
  <1>3. PICK gained \in {{}, {Mine(p)}} : Idle(p, gained)
    BY DEF Receive, Fail
  <1>4. gained \in SUBSET Objects
    BY <1>1, <1>3
  <1>5. Pc(p) \in Open
    OBVIOUS
  <1> QED BY <1>2, <1>3, <1>4, <1>5, RestStep

LEMMA LookForObjectStep == ASSUME IInv, NEW p \in Procs, LookForObject(p) PROVE IInv'
  <1>1. TypeOK /\ Pc(p) = "look" /\ Pc(p) \in Open \ {"idle"} /\ Mine(p) \in Objects
    BY DEF LookForObject, Pc, Open, IInv, Placing
  <1>2. path' \in [Objects -> {"none", "made", "durable"}] /\ Untouched
    BY <1>1 DEF LookForObject, Untouched, TypeOK
  <1>3. RootTyped'
    BY <1>1 DEF LookForObject, TypeOK, RootTyped
  <1>4. CASE object[Mine(p)].seen = NoContent
    <2>1. Step(p, "link") /\ UNCHANGED receipts
      BY <1>4 DEF LookForObject
    <2>2. proc' \in [Procs -> Processes]
      BY <1>1, <2>1, StepMoves DEF Labels, Open
    <2>3. TypeOK'
      BY <1>1, <1>2, <2>1, <2>2 DEF TypeOK, LookForObject, Processes, Labels
    <2> QED BY <1>1, <1>2, <2>1, <2>3, NextStep
  <1>5. CASE object[Mine(p)].seen # NoContent
    <2>1. Receive(p, "existed") \/ Fail(p)
      BY <1>5 DEF LookForObject, Existing
    <2>2. TypeOK'
      BY <1>1, <1>2, <1>3, <2>1, EndTyped DEF LookForObject, TypeOK
    <2> QED BY <1>1, <1>2, <2>1, <2>2, EndStep
  <1> QED BY <1>4, <1>5

LEMMA WrittenContent ==
    ASSUME IInv, NEW p \in Procs, Pc(p) \in Open
    PROVE  /\ Written(Own(p)) \in Contents /\ Written(Own(p)) # NoContent
           /\ Marked(Written(Own(p)))
  <1>1. Own(p) \in Settings /\ Own(p).profile # Absent
    BY RepositoryAssumption DEF IInv, TypeOK, Settled, OpenHasProfile, Own, Profiles, Dev, Zstd,
       Encrypted, Absent
  <1> QED BY <1>1 DEF Written, Contents, NoContent, NoSetting, Marked

\* A content written at an object: the others stay, nothing is removed.
LEMMA WriteObject ==
    ASSUME IInv, NEW p \in Procs, Pc(p) \in Open, NEW o \in Objects,
           object' = [object EXCEPT ![o].seen = Written(Own(p))], UNCHANGED <<root, path>>
    PROVE  /\ object' \in [Objects -> [seen : Contents, disk : Contents]]
           /\ object'[o].seen # NoContent /\ object'[o].disk = object[o].disk
           /\ RootGrows /\ ObjectsStay({}) /\ ContentsMarked'
  <1>1. TypeOK /\ ContentsMarked
    BY DEF IInv
  <1>2. object'[o] = [seen |-> Written(Own(p)), disk |-> object[o].disk]
        /\ \A x \in Objects \ {o} : object'[x] = object[x]
    BY <1>1 DEF TypeOK
  <1>3. object' \in [Objects -> [seen : Contents, disk : Contents]]
    BY <1>1, <1>2, WrittenContent DEF TypeOK
  <1>4. ObjectsStay({})
    BY <1>2, WrittenContent DEF ObjectsStay
  <1>5. ContentsMarked'
    BY <1>1, <1>2, WrittenContent DEF ContentsMarked, Marked
  <1> QED BY <1>2, <1>3, <1>4, <1>5, WrittenContent, RootUntouched

LEMMA LinkObjectStep == ASSUME IInv, NEW p \in Procs, LinkObject(p) PROVE IInv'
  <1>1. TypeOK /\ Pc(p) = "link" /\ Pc(p) \in Open \ {"idle"} /\ Mine(p) \in Objects
    BY DEF LinkObject, Pc, Open, IInv, Placing
  <1>2. RootTyped'
    BY <1>1 DEF LinkObject, TypeOK, RootTyped
  <1>3. CASE object[Mine(p)].seen = NoContent
    <2>1. /\ object' = [object EXCEPT ![Mine(p)].seen = Written(Own(p))]
          /\ Step(p, "sync") /\ UNCHANGED <<receipts, root, path>>
      BY <1>3 DEF LinkObject, Own
    <2>2. "sync" \in Labels /\ "sync" \in Open
      BY DEF Labels, Open
    <2>3. /\ proc' \in [Procs -> Processes] /\ OthersStay(p)
          /\ Pc(p)' = "sync" /\ Own(p)' = Own(p) /\ Mine(p)' = Mine(p)
      BY <1>1, <2>1, <2>2, StepMoves DEF OthersStay
    <2>4. /\ object' \in [Objects -> [seen : Contents, disk : Contents]]
          /\ object'[Mine(p)].seen # NoContent
          /\ RootGrows /\ ObjectsStay({}) /\ ContentsMarked'
      BY <1>1, <2>1, WriteObject
    <2>5. TypeOK'
      BY <1>1, <2>1, <2>3, <2>4 DEF TypeOK, LinkObject, Processes, Labels
    <2>6. Placing(p)'
      BY <1>1, <2>3, <2>4 DEF Placing
    <2>7. Claims(p) /\ Receipts(p) /\ Removes(p, {})
      BY <1>3, <2>1, <2>3 DEF Claims, Receipts, Removes
    <2> QED BY <1>1, <2>2, <2>3, <2>4, <2>5, <2>6, <2>7, WorkStep
  <1>4. CASE object[Mine(p)].seen # NoContent
    <2>1. Receive(p, "existed") \/ Fail(p)
      BY <1>4 DEF LinkObject, Existing
    <2>2. Untouched
      BY <1>4 DEF LinkObject, Untouched
    <2>3. TypeOK'
      BY <1>1, <1>2, <1>4, <2>1, EndTyped DEF LinkObject, TypeOK
    <2> QED BY <1>1, <2>1, <2>2, <2>3, EndStep
  <1> QED BY <1>3, <1>4

LEMMA SyncPrefixStep == ASSUME IInv, NEW p \in Procs, SyncPrefix(p) PROVE IInv'
  <1>1. /\ TypeOK /\ Pc(p) = "sync" /\ Pc(p) \in Open /\ Mine(p) \in Objects
        /\ object[Mine(p)].seen # NoContent /\ Pc(p) \in Removing /\ ContentsMarked
    BY DEF SyncPrefix, Pc, Open, IInv, Placing, Linked, Removing
  <1>2. /\ object' = [object EXCEPT ![Mine(p)].disk = object[Mine(p)].seen]
        /\ Step(p, "sync parents")
        /\ UNCHANGED <<root, path, litter, generated, receipts, faults>>
    BY DEF SyncPrefix
  <1>3. "sync parents" \in Labels /\ "sync parents" \in Open
    BY DEF Labels, Open
  <1>4. /\ proc' \in [Procs -> Processes] /\ OthersStay(p)
        /\ Pc(p)' = "sync parents" /\ Own(p)' = Own(p) /\ Mine(p)' = Mine(p)
    BY <1>1, <1>2, <1>3, StepMoves DEF OthersStay
  <1>5. /\ object'[Mine(p)] = [seen |-> object[Mine(p)].seen, disk |-> object[Mine(p)].seen]
        /\ \A x \in Objects \ {Mine(p)} : object'[x] = object[x]
    BY <1>1, <1>2 DEF TypeOK
  <1>6. /\ object' \in [Objects -> [seen : Contents, disk : Contents]]
        /\ object'[Mine(p)].seen = object[Mine(p)].seen
        /\ object'[Mine(p)].disk = object[Mine(p)].seen
    BY <1>1, <1>2, <1>5 DEF TypeOK
  <1>7. TypeOK'
    BY <1>1, <1>2, <1>4, <1>6 DEF TypeOK, Processes, Labels
  <1>8. ObjectsStay({}) /\ ContentsMarked'
    <2>1. UNCHANGED path
      BY <1>2
    <2>2. ObjectsStay({})
      BY <1>1, <1>5, <1>6, <2>1 DEF ObjectsStay
    <2>3. ContentsMarked'
      BY <1>1, <1>5, <1>6 DEF ContentsMarked, Marked
    <2> QED BY <2>2, <2>3
  <1>9. Placing(p)'
    BY <1>1, <1>4, <1>6 DEF Placing
  <1>10. Claims(p) /\ Receipts(p) /\ Removes(p, {}) /\ RootGrows
    BY <1>1, <1>2, <1>4, RootUntouched DEF Claims, Receipts, Removes, Linked
  <1> QED BY <1>1, <1>3, <1>4, <1>7, <1>8, <1>9, <1>10, WorkStep

\* With the root synced, what the process works with is on the disk.
LEMMA SyncSeals ==
    ASSUME IInv, NEW p \in Procs, Pc(p) \in Open, root' = SyncedRoot
    PROVE  \A s : s = Own(p) => Sealed(s)'
  <1>1. TypeOK /\ Settled(p)
    BY DEF IInv
  <1>2. \A f \in RootFiles : Seen(f)' = Seen(f) /\ Disk(f)' = Seen(f)
    BY <1>1, SyncGrows
  <1>3. Config[p].profile # Absent
    BY RepositoryAssumption DEF Profiles, Dev, Zstd, Encrypted, Absent
  <1>4. Pc(p) \in MarkerKnown /\ Pc(p) \in KeyKnown /\ Pc(p) \in IdentityKnown
    BY DEF MarkerKnown, KeyKnown, IdentityKnown
  <1>5. Own(p).profile # Absent /\ Own(p).profile = Seen("profile")
        /\ Own(p).profile = Config[p].profile
    BY <1>1, <1>3, <1>4 DEF Settled, MarkerAgrees, OpenHasProfile
  <1>6. Own(p).identity # Absent /\ Own(p).identity = Seen("identity")
    BY <1>1, <1>4 DEF Settled, IdentityAgrees
  <1>7. Own(p).profile = Encrypted => Own(p).key # Absent /\ Own(p).key = Seen("encryption")
    BY <1>1, <1>4, <1>5 DEF Settled, KeyAgrees
  <1>8. /\ Seen("profile")' = Seen("profile") /\ Disk("profile")' = Seen("profile")
        /\ Seen("identity")' = Seen("identity") /\ Disk("identity")' = Seen("identity")
        /\ Seen("encryption")' = Seen("encryption") /\ Disk("encryption")' = Seen("encryption")
    BY <1>2 DEF RootFiles
  <1> QED BY <1>5, <1>6, <1>7, <1>8 DEF Sealed

LEMMA SyncParentsStep == ASSUME IInv, NEW p \in Procs, SyncParents(p) PROVE IInv'
  <1>1. /\ TypeOK /\ Pc(p) = "sync parents" /\ Pc(p) \in Open /\ Mine(p) \in Objects
        /\ object[Mine(p)].seen # NoContent /\ object[Mine(p)].disk # NoContent
        /\ Pc(p) \in Linked /\ ContentsMarked
    BY DEF SyncParents, Pc, Open, IInv, Placing, Linked, Removing
  <1>2. /\ path' = [path EXCEPT ![Mine(p)] = "durable"] /\ root' = SyncedRoot
        /\ Step(p, "unstage") /\ UNCHANGED <<object, litter, generated, receipts, faults>>
    BY DEF SyncParents
  <1>3. "unstage" \in Labels /\ "unstage" \in Open
    BY DEF Labels, Open
  <1>4. /\ proc' \in [Procs -> Processes] /\ OthersStay(p)
        /\ Pc(p)' = "unstage" /\ Own(p)' = Own(p) /\ Mine(p)' = Mine(p)
    BY <1>1, <1>2, <1>3, StepMoves DEF OthersStay
  <1>5. RootGrows /\ RootTyped'
    BY <1>1, <1>2, SyncGrows, SyncTyped
  <1>6. /\ path' \in [Objects -> {"none", "made", "durable"}] /\ path'[Mine(p)] = "durable"
        /\ \A o \in Objects : path[o] = "durable" => path'[o] = "durable"
    BY <1>1, <1>2 DEF TypeOK
  <1>7. TypeOK'
    BY <1>1, <1>2, <1>4, <1>5, <1>6 DEF TypeOK, RootTyped, Processes, Labels
  <1>8. ObjectsStay({}) /\ ContentsMarked'
    BY <1>1, <1>2, <1>6 DEF ObjectsStay, ContentsMarked, Marked
  <1>9. Sealed(Own(p))'
    BY <1>1, <1>2, <1>4, SyncSeals DEF Sealed
  <1>10. Placing(p)'
    BY <1>1, <1>2, <1>4, <1>6, <1>9 DEF Placing, Secured, OnDisk
  <1>11. Claims(p) /\ Receipts(p) /\ Removes(p, {})
    BY <1>1, <1>2, <1>4 DEF Claims, Receipts, Removes, Removing
  <1> QED BY <1>1, <1>3, <1>4, <1>5, <1>7, <1>8, <1>10, <1>11, WorkStep

LEMMA SyncFailsStep == ASSUME IInv, NEW p \in Procs, SyncFails(p) PROVE IInv'
  <1>1. TypeOK /\ Pc(p) \in Removing /\ Pc(p) \in Open \ {"idle"} /\ Step(p, "retract")
    BY DEF SyncFails, Pc, Open, IInv, Removing
  <1>2. proc' \in [Procs -> Processes] /\ faults' \in 0..MaxFaults
    BY <1>1, StepMoves, FaultBounded DEF Labels, Open, SyncFails
  <1>3. TypeOK'
    BY <1>1, <1>2 DEF TypeOK, SyncFails, Processes, Labels
  <1>4. Untouched /\ UNCHANGED receipts
    BY DEF Untouched, SyncFails
  <1> QED BY <1>1, <1>3, <1>4, NextStep

LEMMA RetractStep == ASSUME IInv, NEW p \in Procs, Retract(p) PROVE IInv'
  <1>1. /\ TypeOK /\ Pc(p) = "retract" /\ Pc(p) \in Open /\ Mine(p) \in Objects
        /\ Pc(p) \in Removing /\ ContentsMarked
    BY DEF Retract, Pc, Open, IInv, Placing, Linked, Removing
  <1>2. /\ object' = [object EXCEPT ![Mine(p)].seen = NoContent] /\ Fail(p)
        /\ UNCHANGED <<root, path, litter, generated, faults>>
    BY DEF Retract
  <1>3. NoContent \in Contents /\ Marked(NoContent)
    BY NoSettingTyped DEF NoContent, Contents, Marked
  <1>4. /\ object'[Mine(p)] = [seen |-> NoContent, disk |-> object[Mine(p)].disk]
        /\ \A x \in Objects \ {Mine(p)} : object'[x] = object[x]
    BY <1>1, <1>2 DEF TypeOK
  <1>5. /\ object' \in [Objects -> [seen : Contents, disk : Contents]]
        /\ object'[Mine(p)].seen = NoContent /\ object'[Mine(p)].disk = object[Mine(p)].disk
    BY <1>1, <1>2, <1>3, <1>4 DEF TypeOK
  <1>6. RootTyped' /\ path' \in [Objects -> {"none", "made", "durable"}]
        /\ faults' \in 0..MaxFaults
    BY <1>1, <1>2 DEF TypeOK, RootTyped
  <1>7. TypeOK'
    BY <1>1, <1>2, <1>5, <1>6, EndTyped
  <1>8. ObjectsStay({Mine(p)})
    BY <1>1, <1>2, <1>4, <1>5 DEF ObjectsStay
  <1>9. ContentsMarked'
    BY <1>1, <1>3, <1>4, <1>5 DEF ContentsMarked, Marked
  <1>10. OthersStay(p) /\ Pc(p)' = "idle" /\ Own(p)' = Own(p)
    BY <1>1, <1>2, IdleMoves DEF Fail
  <1>11. Placing(p)' /\ Claims(p) /\ Pc(p)' \in Open
    BY <1>10 DEF Placing, Claims, Linked, Removing, Open
  <1>12. Receipts(p) /\ Removes(p, {Mine(p)}) /\ RootGrows
    BY <1>1, <1>2, RootUntouched DEF Receipts, Removes, Fail
  <1> QED BY <1>1, <1>7, <1>8, <1>9, <1>10, <1>11, <1>12, WorkStep

LEMMA UnstageStep == ASSUME IInv, NEW p \in Procs, Unstage(p) PROVE IInv'
  <1>1. TypeOK /\ Pc(p) = "unstage" /\ Pc(p) \in Open \ {"idle"} /\ Mine(p) \in Objects
    BY DEF Unstage, Pc, Open, IInv, Placing
  <1>2. Receive(p, "placed") \/ Fail(p)
    BY DEF Unstage
  <1>3. Untouched /\ RootTyped' /\ UNCHANGED <<litter, generated, faults, object, path>>
    BY <1>1 DEF Unstage, Untouched, TypeOK, RootTyped
  <1>4. TypeOK'
    BY <1>1, <1>2, <1>3, EndTyped DEF TypeOK
  <1>5. PICK gained \in {{}, {Mine(p)}} : Idle(p, gained)
    BY <1>2 DEF Receive, Fail
  <1>6. gained \in SUBSET Objects /\ Pc(p)' = "idle"
    BY <1>1, <1>5, IdleMoves
  <1>7. Receipts(p)
    BY <1>1, <1>2, <1>6 DEF Receipts, Receive, Fail, Own
  <1> QED BY <1>1, <1>3, <1>4, <1>5, <1>6, <1>7, RestStep

LEMMA UnstageFailsStep == ASSUME IInv, NEW p \in Procs, UnstageFails(p) PROVE IInv'
  <1>1. TypeOK /\ Pc(p) = "unstage" /\ Pc(p) \in Open \ {"idle"} /\ Mine(p) \in Objects
    BY DEF UnstageFails, Pc, Open, IInv, Placing
  <1>2. Fail(p) /\ faults' \in 0..MaxFaults
    BY <1>1, FaultBounded DEF UnstageFails
  <1>3. Untouched /\ RootTyped' /\ UNCHANGED <<litter, generated, object, path>>
    BY <1>1 DEF UnstageFails, Untouched, TypeOK, RootTyped
  <1>4. TypeOK'
    BY <1>1, <1>2, <1>3, EndTyped DEF TypeOK
  <1> QED BY <1>1, <1>2, <1>3, <1>4, EndStep

LEMMA InspectStep == ASSUME IInv, NEW p \in Procs, Inspect(p) PROVE IInv'
  <1>1. TypeOK /\ Pc(p) = "inspect" /\ Pc(p) \in Open \ {"idle"} /\ Mine(p) \in Objects
    BY DEF Inspect, Pc, Open, IInv, Placing
  <1>2. Untouched /\ RootTyped' /\ UNCHANGED <<litter, generated, faults, object, path>>
    BY <1>1 DEF Inspect, Untouched, TypeOK, RootTyped
  <1>3. CASE Verifies(Mine(p), proc[p].setting)
    <2>1. Receive(p, "existed")
      BY <1>3 DEF Inspect
    <2>2. TypeOK'
      BY <1>1, <1>2, <2>1, EndTyped DEF TypeOK
    <2> QED BY <1>1, <1>2, <2>1, <2>2, EndStep
  <1>4. CASE ~Verifies(Mine(p), proc[p].setting)
    <2>1. Step(p, "replace") /\ UNCHANGED receipts
      BY <1>4 DEF Inspect
    <2>2. proc' \in [Procs -> Processes]
      BY <1>1, <2>1, StepMoves DEF Labels, Open
    <2>3. TypeOK'
      BY <1>1, <1>2, <2>1, <2>2 DEF TypeOK, Inspect, Processes, Labels
    <2> QED BY <1>1, <1>2, <2>1, <2>3, NextStep
  <1> QED BY <1>3, <1>4

LEMMA ReplaceStep == ASSUME IInv, NEW p \in Procs, Replace(p) PROVE IInv'
  <1>1. TypeOK /\ Pc(p) = "replace" /\ Pc(p) \in Open /\ Mine(p) \in Objects
    BY DEF Replace, Pc, Open, IInv, Placing
  <1>2. /\ object' = [object EXCEPT ![Mine(p)].seen = Written(Own(p))]
        /\ Step(p, "sync repair")
        /\ UNCHANGED <<root, path, litter, generated, receipts, faults>>
    BY DEF Replace, Own
  <1>3. "sync repair" \in Labels /\ "sync repair" \in Open
    BY DEF Labels, Open
  <1>4. /\ proc' \in [Procs -> Processes] /\ OthersStay(p)
        /\ Pc(p)' = "sync repair" /\ Own(p)' = Own(p) /\ Mine(p)' = Mine(p)
    BY <1>1, <1>2, <1>3, StepMoves DEF OthersStay
  <1>5. /\ object' \in [Objects -> [seen : Contents, disk : Contents]]
        /\ RootGrows /\ ObjectsStay({}) /\ ContentsMarked'
    BY <1>1, <1>2, WriteObject
  <1>6. TypeOK'
    BY <1>1, <1>2, <1>4, <1>5 DEF TypeOK, Processes, Labels
  <1>7. Placing(p)' /\ Claims(p) /\ Receipts(p) /\ Removes(p, {})
    BY <1>1, <1>2, <1>4 DEF Placing, Claims, Receipts, Removes, Linked, Removing
  <1> QED BY <1>1, <1>3, <1>4, <1>5, <1>6, <1>7, WorkStep

LEMMA SyncRepairStep == ASSUME IInv, NEW p \in Procs, SyncRepair(p) PROVE IInv'
  <1>1. /\ TypeOK /\ Pc(p) = "sync repair" /\ Pc(p) \in Open /\ Mine(p) \in Objects
        /\ ContentsMarked
    BY DEF SyncRepair, Pc, Open, IInv, Placing
  <1>2. /\ Receive(p, "repaired") \/ Fail(p)
        /\ root' = SyncedRoot /\ UNCHANGED <<object, path, litter, generated, faults>>
    BY DEF SyncRepair
  <1>3. RootGrows /\ RootTyped'
    BY <1>1, <1>2, SyncGrows, SyncTyped
  <1>4. TypeOK'
    BY <1>1, <1>2, <1>3, EndTyped DEF TypeOK
  <1>5. PICK gained \in {{}, {Mine(p)}} : Idle(p, gained)
    BY <1>2 DEF Receive, Fail
  <1>6. gained \in SUBSET Objects
    BY <1>1, <1>5
  <1>7. OthersStay(p) /\ Pc(p)' = "idle" /\ Own(p)' = Own(p)
    BY <1>1, <1>5, <1>6, IdleMoves
  <1>8. Placing(p)' /\ Claims(p) /\ Pc(p)' \in Open
    BY <1>7 DEF Placing, Claims, Linked, Removing, Open
  <1>9. ObjectsStay({}) /\ ContentsMarked'
    BY <1>1, <1>2 DEF ObjectsStay, ContentsMarked, Marked
  <1>10. Receipts(p) /\ Removes(p, {})
    BY <1>2 DEF Receipts, Removes, Receive, Fail
  <1> QED BY <1>1, <1>3, <1>4, <1>7, <1>8, <1>9, <1>10, WorkStep

-----------------------------------------------------------------------------
(* Damage and power loss *)

LEMMA RottenContent ==
    ASSUME NEW c \in Contents, Marked(c)
    PROVE  /\ Rotten(c) \in Contents /\ Marked(Rotten(c))
           /\ c # NoContent => Rotten(c) # NoContent
  <1>1. Rotten(c) \in Contents
    BY DEF Rotten, Contents
  <1>2. Rotten(c).setting = c.setting
    BY DEF Rotten, Contents
  <1>3. ~Rotten(c).whole
    BY DEF Rotten, Contents
  <1>4. CASE c = NoContent
    <2>1. Rotten(c) = NoContent
      BY <1>4 DEF Rotten, NoContent, NoSetting
    <2> QED BY <1>1, <1>4, <2>1
  <1>5. CASE c # NoContent
    <2>1. Rotten(c).setting.profile # Absent /\ NoContent.setting.profile = Absent
      BY <1>2, <1>5 DEF NoContent, NoSetting, Marked
    <2> QED BY <1>1, <2>1 DEF Marked
  <1> QED BY <1>4, <1>5

\* No process moves: what each of them has settled and placed is kept.
LEMMA DamageStep == ASSUME IInv, NEW o \in Objects, Damage(o) PROVE IInv'
  <1>1. TypeOK /\ ContentsMarked /\ RootGrows
    BY RootUntouched DEF IInv, Damage
  <1>2. /\ object' = [object EXCEPT ![o].seen = Rotten(@), ![o].disk = Rotten(@)]
        /\ UNCHANGED <<root, path, litter, proc, generated, receipts>>
        /\ faults' \in 0..MaxFaults
    BY <1>1, FaultBounded DEF Damage
  <1>3. object[o] = [seen |-> object[o].seen, disk |-> object[o].disk]
        /\ object[o].seen \in Contents /\ object[o].disk \in Contents
        /\ Marked(object[o].seen) /\ Marked(object[o].disk)
    BY <1>1 DEF TypeOK, ContentsMarked
  <1>4. /\ object'[o] = [seen |-> Rotten(object[o].seen), disk |-> Rotten(object[o].disk)]
        /\ \A x \in Objects \ {o} : object'[x] = object[x]
        /\ DOMAIN object' = Objects /\ object' = [x \in Objects |-> object'[x]]
    BY <1>1, <1>2, <1>3 DEF TypeOK
  <1>5. /\ Rotten(object[o].seen) \in Contents /\ Marked(Rotten(object[o].seen))
        /\ object[o].seen # NoContent => Rotten(object[o].seen) # NoContent
        /\ Rotten(object[o].disk) \in Contents /\ Marked(Rotten(object[o].disk))
        /\ object[o].disk # NoContent => Rotten(object[o].disk) # NoContent
    BY <1>3, RottenContent
  <1>6. object' \in [Objects -> [seen : Contents, disk : Contents]]
    BY <1>1, <1>4, <1>5 DEF TypeOK
  <1>7. TypeOK'
    BY <1>1, <1>2, <1>6 DEF TypeOK
  <1>8. ObjectsStay({})
    BY <1>2, <1>4, <1>5 DEF ObjectsStay
  <1>9. ContentsMarked'
    BY <1>1, <1>4, <1>5 DEF ContentsMarked, Marked
  <1>10. ASSUME NEW p \in Procs PROVE Settled(p)' /\ Placing(p)'
    BY <1>1, <1>2, <1>8, SettledKept, PlacingKept DEF IInv
  <1>11. Alone'
    BY <1>2 DEF IInv, Alone, Pc, Mine
  <1>12. ASSUME NEW r \in receipts', r.how = "placed" PROVE Holds(r)'
    <2>1. Holds(r) /\ r.obj \in Objects
      BY <1>1, <1>2, <1>12 DEF IInv, ReceiptsHold, TypeOK
    <2>2. Secured(r.obj)' /\ Sealed(r.setting)'
      BY <1>1, <1>8, <2>1, SecuredKept, SealedKept DEF Holds
    <2> QED BY <1>2, <2>1, <2>2 DEF Holds, Pc, Mine
  <1> QED BY <1>7, <1>9, <1>10, <1>11, <1>12 DEF IInv, ReceiptsHold

\* What a power loss leaves of a file and of an object is what was seen or
\* what was on the disk; an object whose directory is durable stays.
Leaves ==
    /\ DOMAIN root' = RootFiles
    /\ \A f \in RootFiles :
         \E v \in {Seen(f), Disk(f)} : root'[f] = [seen |-> v, disk |-> v]
    /\ path' \in [Objects -> {"none", "durable"}]
    /\ \A o \in Objects : path[o] = "durable" => path'[o] = "durable"
    /\ DOMAIN object' = Objects /\ object' = [o \in Objects |-> object'[o]]
    /\ \A o \in Objects :
         \E c \in {NoContent, object[o].seen, object[o].disk} :
           /\ object'[o] = [seen |-> c, disk |-> c]
           /\ path[o] = "durable" => c \in {object[o].seen, object[o].disk}

LEMMA PowerLossLeaves == ASSUME TypeOK, PowerLoss PROVE Leaves
  <1>1. PICK kept \in SUBSET RootFiles, survives \in SUBSET Objects,
             flushed \in SUBSET Objects :
          LET After(f) == IF f \in kept THEN root[f].seen ELSE root[f].disk
              There(o) == path[o] = "durable" \/ (path[o] = "made" /\ o \in survives)
              Content(o) == IF ~There(o) THEN NoContent
                            ELSE IF o \in flushed THEN object[o].seen ELSE object[o].disk
          IN /\ survives \subseteq {o \in Objects : path[o] = "made"}
             /\ flushed \subseteq {o \in Objects : object[o].seen # object[o].disk}
             /\ kept \subseteq {f \in RootFiles : root[f].seen # root[f].disk}
             /\ root' = [f \in RootFiles |-> [seen |-> After(f), disk |-> After(f)]]
             /\ path' = [o \in Objects |-> IF There(o) THEN "durable" ELSE "none"]
             /\ object' = [o \in Objects |-> [seen |-> Content(o), disk |-> Content(o)]]
    BY Zenon DEF PowerLoss
  <1> DEFINE After(f) == IF f \in kept THEN root[f].seen ELSE root[f].disk
             There(o) == path[o] = "durable" \/ (path[o] = "made" /\ o \in survives)
             Content(o) == IF ~There(o) THEN NoContent
                           ELSE IF o \in flushed THEN object[o].seen ELSE object[o].disk
  <1>2. /\ root' = [f \in RootFiles |-> [seen |-> After(f), disk |-> After(f)]]
        /\ path' = [o \in Objects |-> IF There(o) THEN "durable" ELSE "none"]
        /\ object' = [o \in Objects |-> [seen |-> Content(o), disk |-> Content(o)]]
    BY <1>1
  <1>3. /\ \A f \in RootFiles : After(f) \in {Seen(f), Disk(f)}
        /\ \A o \in Objects : path[o] = "durable" => There(o)
        /\ \A o \in Objects : Content(o) \in {NoContent, object[o].seen, object[o].disk}
        /\ \A o \in Objects : There(o) => Content(o) \in {object[o].seen, object[o].disk}
    BY DEF Seen, Disk
  <1> HIDE DEF After, There, Content
  <1>4. DOMAIN root' = RootFiles
        /\ \A f \in RootFiles :
             \E v \in {Seen(f), Disk(f)} : root'[f] = [seen |-> v, disk |-> v]
    BY <1>2, <1>3
  <1>5. path' \in [Objects -> {"none", "durable"}]
        /\ \A o \in Objects : path[o] = "durable" => path'[o] = "durable"
    BY <1>2, <1>3
  <1>6. DOMAIN object' = Objects /\ object' = [o \in Objects |-> object'[o]]
        /\ \A o \in Objects : object'[o] = [seen |-> Content(o), disk |-> Content(o)]
    BY <1>2
  <1> QED BY <1>3, <1>4, <1>5, <1>6 DEF Leaves

\* Everybody is gone; what was sealed and secured is as it was.
LEMMA PowerLossStep == ASSUME IInv, PowerLoss PROVE IInv'
  <1>1. TypeOK /\ ContentsMarked /\ Leaves
    BY PowerLossLeaves DEF IInv
  <1>2. /\ proc' = [p \in Procs |-> Closed] /\ UNCHANGED <<generated, receipts>>
        /\ litter' \in BOOLEAN /\ faults' \in 0..MaxFaults
    BY <1>1, FaultBounded DEF PowerLoss
  <1>3. Closed \in Processes
    BY NoSettingTyped DEF Closed, Processes, Labels
  <1>4. RootTyped'
    <2>1. \A f \in RootFiles : root'[f].seen \in {Seen(f), Disk(f)}
            /\ root'[f] = [seen |-> root'[f].seen, disk |-> root'[f].seen]
      BY <1>1 DEF Leaves
    <2>2. /\ Seen("profile") \in ProfileValues /\ Disk("profile") \in ProfileValues
          /\ Seen("encryption") \in Keys /\ Disk("encryption") \in Keys
          /\ Seen("identity") \in IdentityValues /\ Disk("identity") \in IdentityValues
      BY <1>1 DEF TypeOK, Seen, Disk
    <2>3. /\ root'["profile"] \in [seen : ProfileValues, disk : ProfileValues]
          /\ root'["encryption"] \in [seen : Keys, disk : Keys]
          /\ root'["identity"] \in [seen : IdentityValues, disk : IdentityValues]
      BY <2>1, <2>2 DEF RootFiles
    <2> QED BY <1>1, <2>3 DEF RootTyped, Leaves
  <1>5. ASSUME NEW o \in Objects
        PROVE  /\ object'[o] \in [seen : Contents, disk : Contents]
               /\ Marked(object'[o].seen) /\ Marked(object'[o].disk)
               /\ Secured(o) => Secured(o)'
    <2>1. NoContent \in Contents /\ Marked(NoContent)
      BY NoSettingTyped DEF NoContent, Contents, Marked
    <2>2. PICK c \in {NoContent, object[o].seen, object[o].disk} :
            /\ object'[o] = [seen |-> c, disk |-> c]
            /\ path[o] = "durable" => c \in {object[o].seen, object[o].disk}
      BY <1>1 DEF Leaves
    <2>3. c \in Contents /\ Marked(c)
      BY <1>1, <2>1 DEF TypeOK, ContentsMarked
    <2>4. object'[o] \in [seen : Contents, disk : Contents]
          /\ object'[o].seen = c /\ object'[o].disk = c
      BY <2>2, <2>3
    <2>5. Secured(o) => path'[o] = "durable" /\ c # NoContent
      BY <1>1, <2>2 DEF Secured, OnDisk, Leaves
    <2> QED BY <2>3, <2>4, <2>5 DEF Secured, OnDisk
  <1>6. object' \in [Objects -> [seen : Contents, disk : Contents]]
    BY <1>1, <1>5 DEF Leaves
  <1>7. path' \in [Objects -> {"none", "made", "durable"}]
    BY <1>1 DEF Leaves
  <1>8. TypeOK'
    BY <1>1, <1>2, <1>3, <1>4, <1>6, <1>7 DEF TypeOK, RootTyped, Processes, Labels
  <1>9. ContentsMarked'
    BY <1>5 DEF ContentsMarked
  <1>10. \A p \in Procs : Pc(p)' = "closed" /\ Own(p)' = NoSetting
    BY <1>2 DEF Pc, Own, Closed
  <1>11. ASSUME NEW p \in Procs PROVE Settled(p)' /\ Placing(p)'
    <2>1. Pc(p)' = "closed" /\ Own(p)' = NoSetting
      BY <1>10
    <2>2. Settled(p)'
      BY <2>1 DEF Settled, MarkerAgrees, KeyAgrees, IdentityAgrees, OpenHasProfile, NoSetting,
         MarkerKnown, BeforeMetadata, KeyKnown, IdentityKnown, Open
    <2>3. Placing(p)'
      BY <2>1 DEF Placing, Linked, Removing, Open
    <2> QED BY <2>2, <2>3
  <1>12. Alone' /\ \A p \in Procs : Pc(p)' \notin Removing
    BY <1>10 DEF Alone, Linked, Removing
  <1>13. ASSUME NEW s, Sealed(s) PROVE Sealed(s)'
    <2>1. \A f \in RootFiles : Seen(f) = Disk(f) => Seen(f)' = Seen(f) /\ Disk(f)' = Seen(f)
      BY <1>1 DEF Leaves, Seen, Disk
    <2> QED BY <1>13, <2>1 DEF Sealed, RootFiles
  <1>14. ASSUME NEW r \in receipts', r.how = "placed" PROVE Holds(r)'
    <2>1. Holds(r) /\ r.obj \in Objects
      BY <1>1, <1>2, <1>14 DEF IInv, ReceiptsHold, TypeOK
    <2> QED BY <1>5, <1>12, <1>13, <2>1 DEF Holds
  <1> QED BY <1>8, <1>9, <1>11, <1>12, <1>14 DEF IInv, ReceiptsHold

-----------------------------------------------------------------------------
(* The invariant *)

LEMMA InitHolds == Init => IInv
  <1> SUFFICES ASSUME Init PROVE IInv
    OBVIOUS
  <1>1. Closed \in Processes /\ NoSetting \in Settings /\ NoContent \in Contents
    BY NoSettingTyped DEF Closed, Processes, Labels, NoContent, Contents
  <1>2. RootTyped
    BY DEF Init, RootTyped, RootFiles, ProfileValues, Keys, IdentityValues
  <1>3. /\ object \in [Objects -> [seen : Contents, disk : Contents]]
        /\ path \in [Objects -> {"none", "made", "durable"}]
        /\ proc \in [Procs -> Processes]
    BY <1>1 DEF Init
  <1>4. TypeOK
    <2>1. litter \in BOOLEAN /\ generated = {} /\ receipts = {}
      BY DEF Init
    <2>2. faults = 0
      BY DEF Init
    <2>3. faults \in 0..MaxFaults
      BY <2>2, RepositoryAssumption
    <2> QED BY <1>2, <1>3, <2>1, <2>3 DEF TypeOK, RootTyped, Processes, Labels
  <1>5. ContentsMarked
    BY DEF Init, ContentsMarked, Marked
  <1>6. \A p \in Procs : Pc(p) = "closed" /\ Own(p) = NoSetting
    BY DEF Init, Pc, Own, Closed
  <1>7. ASSUME NEW p \in Procs PROVE Settled(p) /\ Placing(p)
    <2>1. Pc(p) = "closed" /\ Own(p) = NoSetting
      BY <1>6
    <2>2. Settled(p)
      BY <2>1 DEF Settled, MarkerAgrees, KeyAgrees, IdentityAgrees, OpenHasProfile, NoSetting,
         MarkerKnown, BeforeMetadata, KeyKnown, IdentityKnown, Open
    <2>3. Placing(p)
      BY <2>1 DEF Placing, Linked, Removing, Open
    <2> QED BY <2>2, <2>3
  <1>8. Alone
    BY <1>6 DEF Alone, Linked, Removing
  <1>9. ReceiptsHold
    BY DEF Init, ReceiptsHold
  <1> QED BY <1>4, <1>5, <1>7, <1>8, <1>9 DEF IInv

\* A step that changes nothing.
LEMMA StutterKeeps == ASSUME IInv, UNCHANGED vars PROVE IInv'
  <1>1. TypeOK' /\ RootGrows /\ ObjectsStay({})
    BY RootUntouched DEF IInv, vars, TypeOK, ObjectsStay
  <1>2. ContentsMarked' /\ Alone'
    BY DEF IInv, vars, ContentsMarked, Marked, Alone, Pc, Mine
  <1>3. ASSUME NEW p \in Procs PROVE Settled(p)' /\ Placing(p)'
    BY <1>1, SettledKept, PlacingKept DEF IInv, vars
  <1>4. ReceiptsHold'
    BY DEF IInv, vars, ReceiptsHold, Holds, Secured, OnDisk, Sealed, Seen, Disk, Pc, Mine
  <1> QED BY <1>1, <1>2, <1>3, <1>4 DEF IInv

LEMMA NextKeeps == IInv /\ [Next]_vars => IInv'
  <1> SUFFICES ASSUME IInv, [Next]_vars PROVE IInv'
    OBVIOUS
  <1>1. ASSUME NEW p \in Procs,
          \/ ReadMarker(p) \/ CheckUnmarked(p) \/ LinkMarker(p)
          \/ ReadMetadata(p) \/ LinkMetadata(p)
          \/ LoadIdentity(p) \/ LinkIdentity(p) \/ SyncRoot(p) \/ OpenFails(p)
        PROVE IInv'
    BY <1>1, ReadMarkerStep, CheckUnmarkedStep, LinkMarkerStep, ReadMetadataStep,
       LinkMetadataStep, LoadIdentityStep, LinkIdentityStep, SyncRootStep, OpenFailsStep
  <1>2. ASSUME NEW p \in Procs, NEW o \in Objects, Stage(p, o) \/ StageRepair(p, o)
        PROVE IInv'
    BY <1>2, StageStep, StageRepairStep
  <1>3. ASSUME NEW p \in Procs,
          \/ LookForObject(p) \/ LinkObject(p) \/ SyncPrefix(p) \/ SyncParents(p)
          \/ SyncFails(p) \/ Retract(p) \/ Unstage(p) \/ UnstageFails(p)
          \/ Inspect(p) \/ Replace(p) \/ SyncRepair(p) \/ Kill(p)
        PROVE IInv'
    BY <1>3, LookForObjectStep, LinkObjectStep, SyncPrefixStep, SyncParentsStep, SyncFailsStep,
       RetractStep, UnstageStep, UnstageFailsStep, InspectStep, ReplaceStep, SyncRepairStep,
       KillStep
  <1>4. ASSUME NEW o \in Objects, Damage(o) PROVE IInv'
    BY <1>4, DamageStep
  <1>5. CASE PowerLoss
    BY <1>5, PowerLossStep
  <1>6. CASE UNCHANGED vars
    BY <1>6, StutterKeeps
  <1> QED BY <1>1, <1>2, <1>3, <1>4, <1>5, <1>6 DEF Next

\* The invariant holds in every reachable state.
THEOREM RepositoryInvariant == Spec => []IInv
  BY InitHolds, NextKeeps, PTL DEF Spec

\* The shape of the directory, of the processes and of the receipts.
THEOREM RepositoryTypes == Spec => []TypeOK
  <1>1. IInv => TypeOK
    BY DEF IInv
  <1> QED BY <1>1, RepositoryInvariant, PTL

\* An object for which the placer that linked it has a receipt stays on the
\* disk and in its place, whatever fails, is killed or loses power
\* (driver.go publishNoReplace).
THEOREM PlacedReceiptsHold == Spec => []PlacedReceiptIsDurable
  <1>1. IInv => PlacedReceiptIsDurable
    BY DEF IInv, ReceiptsHold, Holds, Secured, PlacedReceiptIsDurable
  <1> QED BY <1>1, RepositoryInvariant, PTL

\* With such an object the disk keeps the profile, the key reference and the
\* identity it was written under (syncParentChain, ensureRepositoryProfile).
THEOREM SettingsAreKept == Spec => []ReceiptKeepsItsSetting
  <1>1. IInv => ReceiptKeepsItsSetting
    BY DEF IInv, ReceiptsHold, Holds, Sealed, Disk, ReceiptKeepsItsSetting
  <1> QED BY <1>1, RepositoryInvariant, PTL

\* Processes that have the repository open agree on its profile, its key and its
\* identity (profile.go, encryption.go and repository_id.go, where each of the
\* three is linked into place by whoever is first).
THEOREM OpenersAlwaysAgree == Spec => []OpenersAgree
  <1>1. ASSUME IInv, NEW p \in Procs, NEW q \in Procs,
               Own(p).profile # Absent, Own(q).profile # Absent
        PROVE  Own(p) = Own(q)
    <2>1. Settled(p) /\ Settled(q) /\ Pc(p) \in Open /\ Pc(q) \in Open
      BY <1>1 DEF IInv, Settled, OpenHasProfile
    <2>2. /\ Pc(p) \in MarkerKnown /\ Pc(p) \in KeyKnown /\ Pc(p) \in IdentityKnown
          /\ Pc(q) \in MarkerKnown /\ Pc(q) \in KeyKnown /\ Pc(q) \in IdentityKnown
      BY <2>1 DEF MarkerKnown, KeyKnown, IdentityKnown
    <2>3. Own(p).profile = Own(q).profile /\ Config[p].profile = Config[q].profile
      BY <2>1, <2>2 DEF Settled, MarkerAgrees, OpenHasProfile
    <2>4. Own(p).key = Own(q).key
      BY <2>1, <2>2, <2>3 DEF Settled, KeyAgrees
    <2>5. Own(p).identity = Own(q).identity
      BY <2>1, <2>2 DEF Settled, IdentityAgrees
    <2>6. Own(p) \in Settings /\ Own(q) \in Settings
      BY <1>1 DEF IInv, TypeOK, Own
    <2> QED BY <2>3, <2>4, <2>5, <2>6 DEF Settings
  <1>2. IInv => OpenersAgree
    BY <1>1 DEF OpenersAgree, Own
  <1> QED BY <1>2, RepositoryInvariant, PTL

=============================================================================

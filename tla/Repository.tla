----------------------------- MODULE Repository -----------------------------
(***************************************************************************)
(* A repository directory (src/server/internal/repository): processes open *)
(* it under a profile, place content-addressed blobs and records in it,    *)
(* and repair damaged blobs, while processes are killed, directory syncs   *)
(* fail, a file rots and the machine loses power.                          *)
(*                                                                         *)
(* A file has a visible state (what a running process sees) and a state on *)
(* disk (what a power loss leaves).  File contents are synced before a     *)
(* name is given to them, so a content is whole or was damaged later; what *)
(* may be missing after a power loss is a name: of one of the three files  *)
(* at the root, of an object in its prefix directory, or of that directory *)
(* on its way up to the root.  The root's own name is taken as durable.    *)
(***************************************************************************)
EXTENDS Naturals

CONSTANTS
    Procs,          \* processes that open the repository
    Blobs,          \* payload objects
    Records,        \* portable records
    Names,          \* [Records -> SUBSET Blobs]: what a record names
    Config,         \* [Procs -> profile and key reference they are started with]
    Identities,     \* bound: the identities that can be generated
    MaxFaults       \* bound: failed syncs and removals, kills, damaged
                    \* objects and power losses, together

Absent == "absent"

\* A record states its repository's identity, so its digest depends on it.
BlobObjects == [name : Blobs, identity : {Absent}]
RecordObjects == [name : Records, identity : Identities]
Objects == BlobObjects \cup RecordObjects
NamedBy(o) == [name : Names[o.name], identity : {Absent}]
NoObject == [name |-> Absent, identity |-> Absent]

Dev == "directory-cas-dev"
Zstd == "local-zstd-v1"
Encrypted == "local-zstd-encrypted-v1"
Profiles == {Dev, Zstd, Encrypted}
RootFiles == {"profile", "encryption", "identity"}

ASSUME RepositoryAssumption ==
    /\ Names \in [Records -> SUBSET Blobs]
    /\ \A p \in Procs : Config[p].profile \in Profiles
    /\ Absent \notin Identities
    /\ MaxFaults \in Nat

VARIABLES
    root,      \* the three files at the root: [file |-> [seen, disk]]
    object,    \* the objects: [o |-> [seen, disk]], a content or Absent
    path,      \* the prefix directory of an object: "none", "made", "durable"
    litter,    \* are there temporary files of a process that is gone?
    proc,      \* the processes
    generated, \* identities generated so far
    receipts,  \* history: receipts handed out, [obj, how, setting]
    faults     \* how much has gone wrong

vars == <<root, object, path, litter, proc, generated, receipts, faults>>

-----------------------------------------------------------------------------
(* Settings and contents *)

\* What an open driver works with; a content remembers the one it was written
\* under, because a blob is sealed with its key and a record states its
\* repository's identity.
NoSetting == [profile |-> Absent, key |-> Absent, identity |-> Absent]
Written(setting) == [setting |-> setting, whole |-> TRUE]
NoContent == [setting |-> NoSetting, whole |-> FALSE]

\* Authenticated decryption needs the key the object was sealed with.
Unseals(content, setting) == content.setting.key = setting.key

\* What opens decodes under the profile, and rehashes to its name if whole.
Readable(content, setting) ==
    /\ content.whole
    /\ content.setting.profile = setting.profile
    /\ Unseals(content, setting)

Verifies(o, setting) == Readable(object[o].seen, setting)

Closed == [pc |-> "closed", setting |-> NoSetting, obj |-> NoObject,
           repair |-> FALSE, held |-> {}]

Init ==
    /\ root = [f \in RootFiles |-> [seen |-> Absent, disk |-> Absent]]
    /\ object = [o \in Objects |-> [seen |-> NoContent, disk |-> NoContent]]
    /\ path = [o \in Objects |-> "none"]
    /\ litter = FALSE
    /\ proc = [p \in Procs |-> Closed]
    /\ generated = {}
    /\ receipts = {}
    /\ faults = 0

Step(p, pc) == proc' = [proc EXCEPT ![p].pc = pc]
Give(p) == proc' = [proc EXCEPT ![p] = Closed]
Idle(p, gained) ==
    proc' = [proc EXCEPT ![p].pc = "idle", ![p].obj = NoObject,
                         ![p].repair = FALSE, ![p].held = @ \cup gained]

Fault == faults < MaxFaults /\ faults' = faults + 1

Seen(f) == root[f].seen
Link(f, value) == root' = [root EXCEPT ![f].seen = value]
SyncedRoot == [f \in RootFiles |-> [seen |-> Seen(f), disk |-> Seen(f)]]

-----------------------------------------------------------------------------
(* Opening *)

\* A file outside tmp that is neither the marker nor one of its temporaries.
HasUnmarkedState ==
    \/ Seen("encryption") # Absent
    \/ Seen("identity") # Absent
    \/ \E o \in Objects : object[o].seen # NoContent

\* The profile marker: a matching one is accepted, another refused.
ReadMarker(p) ==
    /\ proc[p].pc = "closed"
    /\ \/ Seen("profile") = Absent /\ Step(p, "unmarked")
       \/ Seen("profile") = Config[p].profile /\ Step(p, "metadata")
    /\ UNCHANGED <<root, object, path, litter, generated, receipts, faults>>

\* No marker was read.  Only the development profile adopts a directory that
\* holds something; the others read the marker again before they refuse.
CheckUnmarked(p) ==
    /\ proc[p].pc = "unmarked"
    /\ IF Config[p].profile = Dev \/ ~HasUnmarkedState THEN Step(p, "mark")
       ELSE IF Seen("profile") = Config[p].profile THEN Step(p, "metadata")
       ELSE Give(p)
    /\ UNCHANGED <<root, object, path, litter, generated, receipts, faults>>

\* The marker is linked into place; the loser of a race compares, unsynced.
LinkMarker(p) ==
    /\ proc[p].pc = "mark"
    /\ IF Seen("profile") = Absent
       THEN Link("profile", Config[p].profile) /\ Step(p, "sync marker")
       ELSE /\ IF Seen("profile") = Config[p].profile
               THEN Step(p, "metadata") ELSE Give(p)
            /\ UNCHANGED root
    /\ UNCHANGED <<object, path, litter, generated, receipts, faults>>

\* Mutant: the key reference is taken from the wrong file.
KeyFromMarker(p) ==
    IF Config[p].keyRef = Absent THEN Seen("profile") ELSE Config[p].keyRef

\* The key reference of an encrypted repository: given by the configuration,
\* or read from the repository's metadata.
KeyOf(p) ==
    IF Config[p].keyRef = Absent THEN Seen("encryption") ELSE Config[p].keyRef

\* A plain zstd repository refuses the metadata of an encrypted one.
RejectsMetadata(p) == Config[p].profile = Zstd /\ Seen("encryption") # Absent

ReadMetadata(p) ==
    /\ proc[p].pc = "metadata"
    /\ IF Config[p].profile # Encrypted
       THEN IF RejectsMetadata(p) THEN Give(p) ELSE Step(p, "identity")
       ELSE IF KeyOf(p) = Absent \/ Seen("encryption") \notin {Absent, KeyOf(p)}
       THEN Give(p)
       ELSE proc' = [proc EXCEPT ![p].setting.key = KeyOf(p),
                      ![p].pc = IF Seen("encryption") = Absent
                                THEN "link metadata" ELSE "identity"]
    /\ UNCHANGED <<root, object, path, litter, generated, receipts, faults>>

\* The loser of the race to link the metadata checks the winner's.
LinkMetadata(p) ==
    /\ proc[p].pc = "link metadata"
    /\ IF Seen("encryption") = Absent
       THEN Link("encryption", proc[p].setting.key) /\ Step(p, "sync metadata")
       ELSE /\ IF Seen("encryption") = proc[p].setting.key
               THEN Step(p, "identity") ELSE Give(p)
            /\ UNCHANGED root
    /\ UNCHANGED <<object, path, litter, generated, receipts, faults>>

Opened(p, identity) ==
    proc' = [proc EXCEPT ![p].pc = "idle",
                         ![p].setting.profile = Config[p].profile,
                         ![p].setting.identity = identity]

\* An identity that is there is read, and not synced; else one is generated.
LoadIdentity(p) ==
    /\ proc[p].pc = "identity"
    /\ IF Seen("identity") # Absent
       THEN Opened(p, Seen("identity")) /\ UNCHANGED generated
       ELSE \E new \in Identities \ generated :
              /\ generated' = generated \cup {new}
              /\ proc' = [proc EXCEPT ![p].pc = "link identity",
                                      ![p].setting.identity = new]
    /\ UNCHANGED <<root, object, path, litter, receipts, faults>>

\* Mutant: the identity is renamed into place, over another opener's.
IdentityReplaced(p) ==
    /\ proc[p].pc = "link identity"
    /\ Link("identity", proc[p].setting.identity) /\ Step(p, "sync identity")
    /\ UNCHANGED <<object, path, litter, generated, receipts, faults>>

\* The loser takes the winner's identity, and syncs as the winner does.
LinkIdentity(p) ==
    /\ proc[p].pc = "link identity"
    /\ IF Seen("identity") = Absent
       THEN Link("identity", proc[p].setting.identity) /\ Step(p, "sync identity")
       ELSE /\ proc' = [proc EXCEPT ![p].pc = "sync identity",
                                    ![p].setting.identity = Seen("identity")]
            /\ UNCHANGED root
    /\ UNCHANGED <<object, path, litter, generated, receipts, faults>>

SyncRoot(p) ==
    /\ proc[p].pc \in {"sync marker", "sync metadata", "sync identity"}
    /\ root' = SyncedRoot
    /\ CASE proc[p].pc = "sync marker" -> Step(p, "metadata")
         [] proc[p].pc = "sync metadata" -> Step(p, "identity")
         [] proc[p].pc = "sync identity" -> Opened(p, proc[p].setting.identity)
    /\ UNCHANGED <<object, path, litter, generated, receipts, faults>>

\* A sync at open fails: the opener returns the error, what it linked stays.
OpenFails(p) ==
    /\ proc[p].pc \in {"sync marker", "sync metadata", "sync identity"}
    /\ Fault
    /\ Give(p)
    /\ UNCHANGED <<root, object, path, litter, generated, receipts>>

-----------------------------------------------------------------------------
(* Placement *)

Mine(p) == proc[p].obj
Receive(p, how) ==
    /\ receipts' = receipts \cup
         {[obj |-> Mine(p), how |-> how, setting |-> proc[p].setting]}
    /\ Idle(p, {Mine(p)})
Fail(p) == Idle(p, {}) /\ UNCHANGED receipts

\* A record states the identity of the repository it is placed in, and a
\* publisher writes it when it has receipts for all that the record names.
PlacesRecord(p, o) ==
    o.identity = proc[p].setting.identity /\ NamedBy(o) \subseteq proc[p].held

\* A temporary file is written, sealed and synced.
Stage(p, o) ==
    /\ proc[p].pc = "idle"
    /\ o \notin proc[p].held
    /\ o \in RecordObjects => PlacesRecord(p, o)
    /\ proc' = [proc EXCEPT ![p].pc = "look", ![p].obj = o]
    /\ UNCHANGED <<root, object, path, litter, generated, receipts, faults>>

\* An object that is there is verified and answered for, without any sync.
Existing(p) ==
    IF Verifies(Mine(p), proc[p].setting) THEN Receive(p, "existed") ELSE Fail(p)

\* The prefix directory is made, and the destination looked at.
LookForObject(p) ==
    /\ proc[p].pc = "look"
    /\ path' = [path EXCEPT ![Mine(p)] = IF @ = "none" THEN "made" ELSE @]
    /\ IF object[Mine(p)].seen = NoContent
       THEN Step(p, "link") /\ UNCHANGED receipts
       ELSE Existing(p)
    /\ UNCHANGED <<root, object, litter, generated, faults>>

\* Link never replaces: the loser verifies the object that won.
LinkObject(p) ==
    /\ proc[p].pc = "link"
    /\ IF object[Mine(p)].seen = NoContent
       THEN /\ object' = [object EXCEPT ![Mine(p)].seen = Written(proc[p].setting)]
            /\ Step(p, "sync")
            /\ UNCHANGED receipts
       ELSE Existing(p) /\ UNCHANGED object
    /\ UNCHANGED <<root, path, litter, generated, faults>>

\* Mutant: the prefix directory is left out of the sync.
PrefixNotSynced(p) ==
    /\ proc[p].pc = "sync" /\ Step(p, "sync parents")
    /\ UNCHANGED <<root, object, path, litter, generated, receipts, faults>>

\* The prefix directory is synced, then its parents up to the root.
SyncPrefix(p) ==
    /\ proc[p].pc = "sync"
    /\ object' = [object EXCEPT ![Mine(p)].disk = object[Mine(p)].seen]
    /\ Step(p, "sync parents")
    /\ UNCHANGED <<root, path, litter, generated, receipts, faults>>

\* Mutant: the sync stops below the root.
SyncStopsBelowRoot(p) ==
    /\ proc[p].pc = "sync parents"
    /\ path' = [path EXCEPT ![Mine(p)] = "durable"]
    /\ Step(p, "unstage")
    /\ UNCHANGED <<root, object, litter, generated, receipts, faults>>

SyncParents(p) ==
    /\ proc[p].pc = "sync parents"
    /\ path' = [path EXCEPT ![Mine(p)] = "durable"]
    /\ root' = SyncedRoot
    /\ Step(p, "unstage")
    /\ UNCHANGED <<object, litter, generated, receipts, faults>>

SyncFails(p) ==
    /\ proc[p].pc \in {"sync", "sync parents"}
    /\ Fault
    /\ Step(p, "retract")
    /\ UNCHANGED <<root, object, path, litter, generated, receipts>>

\* After a failed sync the object is removed again, whoever has seen it.
Retract(p) ==
    /\ proc[p].pc = "retract"
    /\ object' = [object EXCEPT ![Mine(p)].seen = NoContent]
    /\ Fail(p)
    /\ UNCHANGED <<root, path, litter, generated, faults>>

\* The temporary is removed; a record is verified once more.
Unstage(p) ==
    /\ proc[p].pc = "unstage"
    /\ IF Mine(p) \in RecordObjects /\ ~Verifies(Mine(p), proc[p].setting)
       THEN Fail(p) ELSE Receive(p, "placed")
    /\ UNCHANGED <<root, object, path, litter, generated, faults>>

\* Its removal fails: the placer returns an error for a durable object.
UnstageFails(p) ==
    /\ proc[p].pc = "unstage"
    /\ Fault
    /\ Fail(p)
    /\ UNCHANGED <<root, object, path, litter, generated>>

-----------------------------------------------------------------------------
(* Repair *)

DirectoryThere(o) == path[o] # "none"

\* Fresh bytes are staged for a blob; its directory must be there.
StageRepair(p, o) ==
    /\ proc[p].pc = "idle"
    /\ o \in BlobObjects /\ DirectoryThere(o)
    /\ proc' = [proc EXCEPT ![p].pc = "inspect", ![p].obj = o, ![p].repair = TRUE]
    /\ UNCHANGED <<root, object, path, litter, generated, receipts, faults>>

Inspect(p) ==
    /\ proc[p].pc = "inspect"
    /\ IF Verifies(Mine(p), proc[p].setting)
       THEN Receive(p, "existed")
       ELSE Step(p, "replace") /\ UNCHANGED receipts
    /\ UNCHANGED <<root, object, path, litter, generated, faults>>

Replace(p) ==
    /\ proc[p].pc = "replace"
    /\ object' = [object EXCEPT ![Mine(p)].seen = Written(proc[p].setting)]
    /\ Step(p, "sync repair")
    /\ UNCHANGED <<root, path, litter, generated, receipts, faults>>

\* Repair syncs the root and its ancestors, not the directory it renamed in.
SyncRepair(p) ==
    /\ proc[p].pc = "sync repair"
    /\ root' = SyncedRoot
    /\ IF Verifies(Mine(p), proc[p].setting) THEN Receive(p, "repaired") ELSE Fail(p)
    /\ UNCHANGED <<object, path, litter, generated, faults>>

-----------------------------------------------------------------------------
(* Faults *)

HasTemporary(p) ==
    proc[p].pc \in {"mark", "sync marker", "link metadata", "sync metadata",
                    "link identity", "sync identity", "look", "link", "sync",
                    "sync parents", "retract", "unstage", "inspect", "replace"}

\* A process is killed: its deferred cleanups do not run.
Kill(p) ==
    /\ proc[p].pc # "closed"
    /\ Fault
    /\ Give(p)
    /\ litter' = (litter \/ HasTemporary(p))
    /\ UNCHANGED <<root, object, path, generated, receipts>>

Rotten(content) == [setting |-> content.setting, whole |-> FALSE]

\* The bytes of a stored object rot.
Damage(o) ==
    /\ Fault
    /\ object[o].seen # NoContent /\ object[o].seen.whole
    /\ object' = [object EXCEPT ![o].seen = Rotten(@), ![o].disk = Rotten(@)]
    /\ UNCHANGED <<root, path, litter, proc, generated, receipts>>

\* Power is lost: of the names not yet synced, any may have reached the disk.
PowerLoss ==
    /\ Fault
    /\ proc' = [p \in Procs |-> Closed]
    /\ litter' = (litter \/ \E p \in Procs : HasTemporary(p))
    /\ \E kept \in SUBSET RootFiles, survives \in SUBSET Objects, flushed \in SUBSET Objects :
         LET After(f) == IF f \in kept THEN root[f].seen ELSE root[f].disk
             There(o) == path[o] = "durable" \/ (path[o] = "made" /\ o \in survives)
             Content(o) == IF ~There(o) THEN NoContent
                           ELSE IF o \in flushed THEN object[o].seen ELSE object[o].disk
         IN /\ survives \subseteq {o \in Objects : path[o] = "made"}
            /\ flushed \subseteq {o \in Objects : object[o].seen # object[o].disk}
            /\ kept \subseteq {f \in RootFiles : root[f].seen # root[f].disk}
            /\ root' = [f \in RootFiles |-> [seen |-> After(f), disk |-> After(f)]]
            /\ path' = [o \in Objects |-> IF There(o) THEN "durable" ELSE "none"]
            /\ object' = [o \in Objects |-> [seen |-> Content(o), disk |-> Content(o)]]
    /\ UNCHANGED <<generated, receipts>>

-----------------------------------------------------------------------------

Next ==
    \/ \E p \in Procs :
         \/ ReadMarker(p) \/ CheckUnmarked(p) \/ LinkMarker(p)
         \/ ReadMetadata(p) \/ LinkMetadata(p)
         \/ LoadIdentity(p) \/ LinkIdentity(p) \/ SyncRoot(p) \/ OpenFails(p)
         \/ \E o \in Objects : Stage(p, o) \/ StageRepair(p, o)
         \/ LookForObject(p) \/ LinkObject(p) \/ SyncPrefix(p) \/ SyncParents(p)
         \/ SyncFails(p) \/ Retract(p) \/ Unstage(p) \/ UnstageFails(p)
         \/ Inspect(p) \/ Replace(p) \/ SyncRepair(p)
         \/ Kill(p)
    \/ \E o \in Objects : Damage(o)
    \/ PowerLoss

Spec == Init /\ [][Next]_vars

-----------------------------------------------------------------------------
(* Properties *)

OnDisk(o) == path[o] = "durable" /\ object[o].disk # NoContent

ProfileValues == Profiles \cup {Absent}
Keys == {Config[p].keyRef : p \in Procs} \cup {Absent}
IdentityValues == Identities \cup {Absent}

Settings == [profile : ProfileValues, key : Keys, identity : IdentityValues]
Contents == [setting : Settings, whole : BOOLEAN]

Opening == {"unmarked", "mark", "sync marker", "metadata", "link metadata",
            "sync metadata", "identity", "link identity", "sync identity"}
Open == {"idle", "look", "link", "sync", "sync parents", "retract", "unstage",
         "inspect", "replace", "sync repair"}

\* The shape of the directory, of the processes and of the receipts.
TypeOK ==
    /\ DOMAIN root = RootFiles
    /\ root["profile"] \in [seen : ProfileValues, disk : ProfileValues]
    /\ root["encryption"] \in [seen : Keys, disk : Keys]
    /\ root["identity"] \in [seen : IdentityValues, disk : IdentityValues]
    /\ object \in [Objects -> [seen : Contents, disk : Contents]]
    /\ path \in [Objects -> {"none", "made", "durable"}]
    /\ litter \in BOOLEAN
    /\ proc \in [Procs -> [pc : {"closed"} \cup Opening \cup Open, setting : Settings,
                           obj : Objects \cup {NoObject}, repair : BOOLEAN,
                           held : SUBSET Objects]]
    /\ generated \subseteq Identities
    /\ receipts \subseteq [obj : Objects, how : {"placed", "existed", "repaired"},
                           setting : Settings]
    /\ faults \in 0..MaxFaults

\* A receipt for an object the placer linked itself (Existed false) holds from
\* then on: no failed sync of another placer, kill or power loss removes it
\* (driver.go publishNoReplace).
PlacedReceiptIsDurable ==
    \A r \in receipts : r.how = "placed" =>
        OnDisk(r.obj) /\ object[r.obj].seen # NoContent

\* With such an object the disk holds the profile, the key reference and the
\* identity it was written under, without which it is unreadable or disowned:
\* placement syncs the root, where the three files are, whoever linked them and
\* did not sync them (syncParentChain, ensureRepositoryProfile).
ReceiptKeepsItsSetting ==
    \A r \in receipts : r.how = "placed" =>
        /\ root["profile"].disk = r.setting.profile
        /\ root["identity"].disk = r.setting.identity
        /\ r.setting.profile = Encrypted => root["encryption"].disk = r.setting.key

\* Processes that have the repository open at one time agree on its profile,
\* key and identity, though they raced to create all three.
OpenersAgree ==
    \A p, q \in Procs :
        proc[p].setting.profile # Absent /\ proc[q].setting.profile # Absent
        => proc[p].setting = proc[q].setting

\* The documented promise that a driver returns durable receipts, where it
\* matters: a record that is durable names blobs that are.  A publisher that
\* finds a blob in place gets a receipt without any sync of the blob's
\* directory, which another placer may still sync, or fail to and remove it.
DurableRecordNamesDurableBlobs ==
    \A r \in receipts :
        r.how = "placed" /\ r.obj \in RecordObjects
        => \A b \in NamedBy(r.obj) : OnDisk(b)

=============================================================================

--------------------------- MODULE BundleInstaller ---------------------------
(***************************************************************************)
(* The installer of the semantic bundle                                    *)
(* (src/server/internal/search/semantic_installer.go): requests put one    *)
(* complete tree at a fixed destination by renames, the old tree being     *)
(* moved aside first, and each request first recovers what an interrupted  *)
(* one has left.  Renames and directory syncs may fail, the process may be *)
(* killed between any two steps, the machine may lose power, and a new     *)
(* release of the program may pin other bundles than the last one.         *)
(*                                                                         *)
(* A tree is its profile digest, which covers the descriptor and every     *)
(* asset, or Broken when it does not load.  A power loss undoes the last   *)
(* renames that no directory sync has covered, newest first; file data is  *)
(* taken as written.  The dispatcher's mutex lets one request run at a     *)
(* time.                                                                   *)
(***************************************************************************)
EXTENDS Naturals

CONSTANTS
    Bundles,      \* profile digests of complete trees
    Releases,     \* releases of the program
    Pins,         \* [Releases -> SUBSET Bundles]: what a release admits
    Broken,       \* a tree that does not load
    None,         \* no tree
    MaxRequests,  \* bound: install requests
    MaxFaults     \* bound: failed renames, syncs and readbacks, kills, power losses

ASSUME InstallerAssumption ==
    /\ Broken \notin Bundles /\ None \notin Bundles \cup {Broken}
    /\ Pins \in [Releases -> (SUBSET Bundles) \ {{}}]
    /\ MaxRequests \in Nat /\ MaxFaults \in Nat

Trees == Bundles \cup {Broken}

VARIABLES
    dir,        \* the models directory: the destination (live), the active
                \* backup (aside), historical and rejected siblings
    unsynced,   \* the states of dir a power loss may go back to
    release,    \* the release that is running
    at,         \* where the request in hand is
    request,    \* what it installs, from where, and if it has set a tree aside
    served,     \* history: has this release had an admitted bundle installed?
    ever,       \* history: the trees that were at live when it was synced
    refused,    \* history: was the last request refused by recovery?
    requests,   \* requests so far
    faults      \* how much has gone wrong

vars == <<dir, unsynced, release, at, request, served, ever, refused, requests,
          faults>>

-----------------------------------------------------------------------------
(* Admission and the directory *)

\* LoadSemanticBundle reads it and finds every asset as described.
Loads(t) == t \in Bundles

\* And it is the bundle this release was built with.
Admitted(t) == Loads(t) /\ t \in Pins[release]

NoRequest == [want |-> None, online |-> FALSE, backup |-> FALSE]

Init ==
    /\ \E t \in Trees \cup {None} :
          /\ dir = [live |-> t, aside |-> None, history |-> {}, rejected |-> {}]
          /\ ever = {t} \ {None}
          /\ release \in Releases
          /\ served = Admitted(t)
    /\ unsynced = {}
    /\ at = "idle"
    /\ request = NoRequest
    /\ refused = FALSE
    /\ requests = 0
    /\ faults = 0

Fault == faults < MaxFaults /\ faults' = faults + 1

\* One rename inside the directory, durable once the directory is synced.
Rename(d) ==
    /\ dir' = d
    /\ unsynced' = unsynced \cup {dir}
    /\ UNCHANGED ever

\* From here on a power loss leaves d; what it has at live is remembered.
Durable(d) ==
    /\ dir' = d
    /\ unsynced' = {}
    /\ ever' = ever \cup ({d.live} \ {None})

Unmoved == UNCHANGED <<dir, unsynced, ever>>
Synced == Durable(dir)

Retire == [dir EXCEPT !.aside = None, !.history = @ \cup {dir.aside}]
Reject == [dir EXCEPT !.live = None, !.rejected = @ \cup {dir.live}]
SetAside == [dir EXCEPT !.live = None, !.aside = dir.live]
BringBack == [dir EXCEPT !.live = dir.aside, !.aside = None]

Goto(pc) == at' = pc /\ UNCHANGED <<request, refused, served>>
Leave(r) == at' = "idle" /\ request' = NoRequest /\ refused' = r
Return(r) == Leave(r) /\ UNCHANGED served

\* A request that answers that the bundle is installed; a tree that an
\* interrupted request has left may be answered before it is durable.
Installed == Leave(FALSE) /\ served' = (served \/ unsynced' = {})

\* A step that fails: its rename, or its sync, is not done.
FailsTo(pc) == Fault /\ Unmoved /\ Goto(pc)
FailsOut == Fault /\ Unmoved /\ Return(FALSE)

Fixed == UNCHANGED <<release, requests>>

-----------------------------------------------------------------------------
(* The requests *)

\* One at a time, under the dispatcher's mutex.
Begin(want, online) ==
    /\ at = "idle"
    /\ requests < MaxRequests
    /\ requests' = requests + 1
    /\ request' = [want |-> want, online |-> online, backup |-> FALSE]
    /\ at' = "recover"
    /\ Unmoved
    /\ UNCHANGED <<release, refused, served, faults>>

\* What an offline source, an archive or a directory, must hold before
\* anything is touched.
Sources == {t \in Trees : Admitted(t)}

\* The release's own bundle, from the network.
RequestOnline(want) == Admitted(want) /\ Begin(want, TRUE)

RequestOffline(source) == source \in Sources /\ Begin(source, FALSE)

\* Recovery looks at the active backup first: it must load and be admitted,
\* whatever is at live.
LookAside ==
    /\ at = "recover"
    /\ \/ dir.aside = None /\ Goto("reuse")
       \/ Admitted(dir.aside) /\ Goto("look")
       \/ dir.aside # None /\ ~Admitted(dir.aside) /\ Return(TRUE)
    /\ Unmoved
    /\ Fixed /\ UNCHANGED faults

\* Mutant: a missing destination is left for the publication to fill.
RecoverMissingLater ==
    /\ at = "look"
    /\ dir.live = None
    /\ Unmoved /\ Goto("reuse") /\ UNCHANGED faults
    /\ Fixed

RecoverMissing ==
    /\ at = "look"
    /\ dir.live = None
    /\ \/ Rename(BringBack) /\ Goto("sync recovery") /\ UNCHANGED faults
       \/ FailsOut
    /\ Fixed

RecoverPublished ==
    /\ at = "look"
    /\ Admitted(dir.live)
    /\ \/ Rename(Retire) /\ Goto("sync recovery") /\ UNCHANGED faults
       \/ FailsOut
    /\ Fixed

RecoverUnadmitted ==
    /\ at = "look"
    /\ dir.live # None /\ ~Admitted(dir.live)
    /\ \/ Rename(Reject) /\ Goto("bring back") /\ UNCHANGED faults
       \/ FailsOut
    /\ Fixed

BringBackOld ==
    /\ at = "bring back"
    /\ \/ Rename(BringBack) /\ Goto("sync recovery") /\ UNCHANGED faults
       \/ FailsOut
    /\ Fixed

SyncRecovery ==
    /\ at = "sync recovery"
    /\ \/ Synced /\ Goto("reuse") /\ UNCHANGED faults
       \/ FailsOut
    /\ Fixed

\* The tree at live is already what is asked for: online, any that is pinned.
Reuse ==
    /\ at = "reuse"
    /\ Unmoved
    /\ IF Admitted(dir.live) /\ (request.online \/ dir.live = request.want)
       THEN Installed ELSE Goto("stage")
    /\ Fixed /\ UNCHANGED faults

\* The candidate is made beside the destination and admitted there; that may
\* fail or be cancelled.
Stage(online) ==
    /\ at = "stage"
    /\ request.online = online
    /\ \/ Goto("publish")
       \/ Return(FALSE)
    /\ Unmoved
    /\ Fixed /\ UNCHANGED faults

\* Fetched, unpacked, described and packaged, or packaged from the source.
DownloadCandidate == Stage(TRUE)
CopyCandidate == Stage(FALSE)

-----------------------------------------------------------------------------
(* The replacement: refused when an active backup is still there or the   *)
(* first rename fails.                                                     *)

PublishCandidate ==
    /\ at = "publish"
    /\ \/ /\ dir.aside = None /\ dir.live # None
          /\ Rename(SetAside)
          /\ at' = "swap" /\ request' = [request EXCEPT !.backup = TRUE]
          /\ UNCHANGED <<refused, served, faults>>
       \/ /\ dir.aside = None /\ dir.live = None
          /\ Unmoved /\ Goto("swap") /\ UNCHANGED faults
       \/ Unmoved /\ Return(FALSE) /\ UNCHANGED faults
    /\ Fixed

SwapIn ==
    /\ at = "swap"
    /\ \/ /\ Rename([dir EXCEPT !.live = request.want])
          /\ Goto("sync swap") /\ UNCHANGED faults
       \/ FailsTo("undo")
    /\ Fixed

\* Mutant: the old tree is retired before the new one has been read back.
SyncSwapAndRetire ==
    /\ at = "sync swap"
    /\ \/ /\ Rename([dir EXCEPT !.aside = None,
                     !.history = @ \cup ({dir.aside} \ {None})])
          /\ Goto("verify") /\ UNCHANGED faults
       \/ FailsTo("undo")
    /\ Fixed

SyncSwap ==
    /\ at = "sync swap"
    /\ \/ Synced /\ Goto("verify") /\ UNCHANGED faults
       \/ FailsTo("undo")
    /\ Fixed

Verify ==
    /\ at = "verify"
    /\ \/ /\ Admitted(dir.live) /\ dir.live = request.want
          /\ Unmoved /\ UNCHANGED faults
          /\ IF request.backup THEN Goto("finalize") ELSE Installed
       \/ FailsTo("undo")
    /\ Fixed

Finalize ==
    /\ at = "finalize"
    /\ \/ Rename(Retire) /\ Goto("sync history") /\ UNCHANGED faults
       \/ FailsTo("undo")
    /\ Fixed

\* The history is renamed for good, so a failed sync is only reported.
SyncHistory ==
    /\ at = "sync history"
    /\ \/ Synced /\ Installed /\ UNCHANGED faults
       \/ FailsOut
    /\ Fixed

\* Mutant: the tree that failed is removed to make room.
RemoveNew ==
    /\ at = "undo"
    /\ Rename([dir EXCEPT !.live = None]) /\ Goto("undo old") /\ UNCHANGED faults
    /\ Fixed

\* restore(): what is at live is quarantined, then the old tree comes back.
QuarantineNew ==
    /\ at = "undo"
    /\ \/ /\ dir.live # None
          /\ Rename(Reject) /\ Goto("undo old") /\ UNCHANGED faults
       \/ /\ dir.live = None
          /\ Unmoved /\ Goto("undo old") /\ UNCHANGED faults
       \/ FailsOut
    /\ Fixed

UndoOld ==
    /\ at = "undo old"
    /\ \/ /\ request.backup
          /\ Rename(BringBack) /\ Goto("sync undo") /\ UNCHANGED faults
       \/ /\ ~request.backup
          /\ Unmoved /\ Return(FALSE) /\ UNCHANGED faults
       \/ FailsOut
    /\ Fixed

SyncUndo ==
    /\ at = "sync undo"
    /\ \/ Synced /\ Return(FALSE) /\ UNCHANGED faults
       \/ FailsOut
    /\ Fixed

-----------------------------------------------------------------------------
(* The environment *)

Kill ==
    /\ at # "idle"
    /\ Fault
    /\ Return(FALSE)
    /\ Unmoved /\ Fixed

PowerLoss ==
    /\ Fault
    /\ \E d \in unsynced : Durable(d)
    /\ Return(FALSE)
    /\ Fixed

\* The program is stopped, upgraded and started again.
Upgrade(r) ==
    /\ at = "idle"
    /\ r # release
    /\ release' = r
    /\ served' = (unsynced = {} /\ Loads(dir.live) /\ dir.live \in Pins[r])
    /\ UNCHANGED <<dir, unsynced, at, request, ever, refused, requests, faults>>

Next ==
    \/ \E b \in Bundles : RequestOnline(b) \/ RequestOffline(b)
    \/ LookAside
    \/ RecoverMissing
    \/ RecoverPublished
    \/ RecoverUnadmitted
    \/ BringBackOld
    \/ SyncRecovery
    \/ Reuse
    \/ DownloadCandidate
    \/ CopyCandidate
    \/ PublishCandidate
    \/ SwapIn
    \/ SyncSwap
    \/ Verify
    \/ Finalize
    \/ SyncHistory
    \/ QuarantineNew
    \/ UndoOld
    \/ SyncUndo
    \/ Kill
    \/ PowerLoss
    \/ \E r \in Releases : Upgrade(r)

Spec == Init /\ [][Next]_vars

-----------------------------------------------------------------------------
(* Properties *)

Steps == {"idle", "recover", "look", "bring back", "sync recovery", "reuse",
          "stage", "publish", "swap", "sync swap", "verify", "finalize",
          "sync history", "undo", "undo old", "sync undo"}

Directories == [live : Trees \cup {None}, aside : Trees \cup {None},
                history : SUBSET Trees, rejected : SUBSET Trees]

\* Types of the variables.
TypeOK ==
    /\ dir \in Directories
    /\ unsynced \subseteq Directories
    /\ release \in Releases
    /\ at \in Steps
    /\ request \in [want : Bundles \cup {None}, online : BOOLEAN, backup : BOOLEAN]
    /\ served \in BOOLEAN /\ refused \in BOOLEAN
    /\ ever \subseteq Trees
    /\ requests \in 0..MaxRequests
    /\ faults \in 0..MaxFaults

\* Once an admitted bundle has been installed under the running release, one
\* is at the destination or, until recovery brings it back, set aside:
\* through failed renames and syncs, kills and power losses.
BundleSurvives == served => Admitted(dir.live) \/ Admitted(dir.aside)

\* A request that has passed recovery finds an admitted bundle at the
\* destination if there ever was one: the daemon can be started on it, however
\* the request goes on to fail before it publishes.
RecoveredServes ==
    served /\ at \in {"reuse", "stage", "publish"} => Admitted(dir.live)

\* "The old path is first isolated as a sibling, never deleted": every tree
\* that was durably at the destination is there, set aside, or kept as a sibling.
NoTreeDestroyed ==
    ever \subseteq {dir.live, dir.aside} \cup dir.history \cup dir.rejected

\* "If a new destination was already published before a crash, the active
\* backup is finalized as history": recovery refuses no request while an
\* admitted bundle is at the destination.
PublishedIsFinalized == refused => ~Admitted(dir.live)
=============================================================================

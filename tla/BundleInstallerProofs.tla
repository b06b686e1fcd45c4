------------------------ MODULE BundleInstallerProofs ------------------------
(***************************************************************************)
(* Proofs about BundleInstaller, for every set of bundles and releases and *)
(* every number of requests and faults.                                    *)
(***************************************************************************)
EXTENDS BundleInstaller, TLAPS

\* The trees of a directory.
Held(d) == {d.live, d.aside} \cup d.history \cup d.rejected

\* What the directory is, or may be after a power loss.
Possible == unsynced \cup {dir}

\* From the moment the old tree has been set aside until it is retired or back.
Replacing == {"swap", "sync swap", "verify", "finalize", "undo", "undo old"}

\* The steps at which nothing is at the destination.
Emptied == {"swap", "bring back", "undo old"}

\* Nothing that was durably at the destination is lost, whatever a power loss
\* may leave.
EverHeld == \A d \in Possible : ever \subseteq Held(d)

\* Nor is the release's bundle.
ServedHeld == served => \A d \in Possible : Admitted(d.live) \/ Admitted(d.aside)

\* While the replacement may be undone, the bundle it would bring back is
\* the one that was served.
ServedAside == served /\ at \in Replacing => Admitted(dir.aside)

LiveEmpty == at \in Emptied => dir.live = None

LiveVerified == at \in {"finalize", "sync history"} => Admitted(dir.live)

WantAdmitted == at # "idle" => Admitted(request.want)

\* Where an active backup is handled there is one.
AsideThere ==
    at \in {"look", "bring back", "finalize"} \/ (request.backup /\ at \in Replacing)
        => dir.aside # None

\* The steps of a request that may have set a tree aside.
Undoable == Replacing \cup {"sync history", "sync undo"}

\* No request has set a tree aside before its replacement.
IdleBackup == request.backup => at \in Undoable

\* Once recovery is through there is no active backup.
AsideHandled == at \in {"sync recovery", "reuse", "stage", "publish"} => dir.aside = None

IInv ==
    /\ TypeOK
    /\ EverHeld
    /\ ServedHeld
    /\ ServedAside
    /\ LiveEmpty
    /\ LiveVerified
    /\ WantAdmitted
    /\ AsideThere
    /\ IdleBackup
    /\ AsideHandled

-----------------------------------------------------------------------------
(* The directory *)

\* What is admitted is a bundle, so neither None nor Broken.
LEMMA AdmittedIsBundle ==
    ASSUME TypeOK, NEW t, Admitted(t)
    PROVE  t \in Bundles /\ t # None
  BY InstallerAssumption DEF TypeOK, Admitted, Loads

\* The moves of a rename are directories again and hold every tree they held.
LEMMA RetireHolds ==
    ASSUME TypeOK, dir.aside # None
    PROVE  /\ Retire \in Directories
           /\ Retire.live = dir.live /\ Retire.aside = None
           /\ Held(dir) \ {None} \subseteq Held(Retire)
  BY DEF TypeOK, Directories, Retire, Held

LEMMA RejectHolds ==
    ASSUME TypeOK, dir.live # None
    PROVE  /\ Reject \in Directories
           /\ Reject.live = None /\ Reject.aside = dir.aside
           /\ Held(dir) \subseteq Held(Reject)
  BY DEF TypeOK, Directories, Reject, Held

LEMMA SetAsideHolds ==
    ASSUME TypeOK, dir.aside = None
    PROVE  /\ SetAside \in Directories
           /\ SetAside.live = None /\ SetAside.aside = dir.live
           /\ Held(dir) \subseteq Held(SetAside)
  BY DEF TypeOK, Directories, SetAside, Held

LEMMA BringBackHolds ==
    ASSUME TypeOK, dir.live = None
    PROVE  /\ BringBack \in Directories
           /\ BringBack.live = dir.aside /\ BringBack.aside = None
           /\ Held(dir) \subseteq Held(BringBack)
  BY DEF TypeOK, Directories, BringBack, Held

Swapped == [dir EXCEPT !.live = request.want]

LEMMA SwapHolds ==
    ASSUME TypeOK, dir.live = None, request.want \in Bundles
    PROVE  /\ Swapped \in Directories
           /\ Swapped.live = request.want /\ Swapped.aside = dir.aside
           /\ Held(dir) \ {None} \subseteq Held(Swapped)
  BY DEF TypeOK, Directories, Swapped, Held, Trees

\* A rename to a directory that holds the same trees, and an admitted bundle
\* where the release had one, keeps the durable parts of the invariant.
LEMMA RenameKeeps ==
    ASSUME TypeOK, EverHeld, ServedHeld,
           NEW d \in Directories, Rename(d), Held(dir) \ {None} \subseteq Held(d),
           UNCHANGED <<served, release>>,
           served => Admitted(d.live) \/ Admitted(d.aside)
    PROVE  /\ dir' \in Directories /\ unsynced' \subseteq Directories
           /\ ever' \subseteq Trees
           /\ EverHeld' /\ ServedHeld'
  <1>1. None \notin ever
    BY InstallerAssumption DEF TypeOK, Trees
  <1>2. EverHeld'
    BY <1>1 DEF EverHeld, Rename, Possible
  <1>3. ServedHeld'
    BY DEF ServedHeld, Rename, Possible, Admitted, Loads
  <1> QED
    BY <1>2, <1>3 DEF Rename, TypeOK

\* So does a step that leaves the directory alone.
LEMMA UnmovedKeeps ==
    ASSUME TypeOK, EverHeld, ServedHeld, Unmoved, UNCHANGED release,
           served' => served \/ (unsynced = {} /\ Admitted(dir.live))
    PROVE  /\ dir' \in Directories /\ unsynced' \subseteq Directories
           /\ ever' \subseteq Trees
           /\ EverHeld' /\ ServedHeld'
  <1>1. EverHeld'
    BY DEF EverHeld, Unmoved, Possible, Held
  <1>2. ServedHeld'
    BY DEF ServedHeld, Unmoved, Possible, Admitted, Loads
  <1> QED
    BY <1>1, <1>2 DEF Unmoved, TypeOK

\* And a sync, or a power loss that leaves one of the possible directories.
LEMMA DurableKeeps ==
    ASSUME TypeOK, EverHeld, ServedHeld,
           NEW d \in Possible, Durable(d), UNCHANGED release,
           served' => served \/ Admitted(d.live)
    PROVE  /\ dir' \in Directories /\ unsynced' \subseteq Directories
           /\ ever' \subseteq Trees
           /\ EverHeld' /\ ServedHeld'
  <1>1. d \in Directories
    BY DEF TypeOK, Possible
  <1>2. ever' \subseteq Held(d) /\ ever' \subseteq Trees
    BY <1>1 DEF EverHeld, Durable, Held, TypeOK, Directories
  <1>3. EverHeld'
    BY <1>2 DEF EverHeld, Durable, Possible, Held
  <1>4. ServedHeld'
    BY DEF ServedHeld, Durable, Possible, Admitted, Loads
  <1> QED
    BY <1>1, <1>2, <1>3, <1>4 DEF Durable

-----------------------------------------------------------------------------
(* The inductive invariant *)

\* What the steps say of where the request is and of its record.
USE DEF Replacing, Emptied, Undoable, NoRequest, Steps

LEMMA InitIInv == Init => IInv
  <1> SUFFICES ASSUME Init PROVE IInv
    OBVIOUS
  <1>1. PICK t \in Trees \cup {None} :
           /\ dir = [live |-> t, aside |-> None, history |-> {}, rejected |-> {}]
           /\ ever = {t} \ {None}
           /\ release \in Releases
           /\ served = Admitted(t)
    BY DEF Init
  <1>2. dir \in Directories
    BY <1>1 DEF Directories
  <1>3. TypeOK
    <2>1. requests \in 0..MaxRequests /\ faults \in 0..MaxFaults
      BY InstallerAssumption DEF Init
    <2>2. request \in [want : Bundles \cup {None}, online : BOOLEAN, backup : BOOLEAN]
      BY DEF Init
    <2>3. release \in Releases /\ ever \subseteq Trees /\ served \in BOOLEAN
      BY <1>1 DEF Admitted, Loads
    <2>4. unsynced \subseteq Directories /\ at \in Steps /\ refused \in BOOLEAN
      BY DEF Init
    <2> QED
      BY <1>2, <2>1, <2>2, <2>3, <2>4 DEF TypeOK
  <1>4. EverHeld /\ ServedHeld
    BY <1>1 DEF Init, EverHeld, ServedHeld, Possible, Held
  <1> QED
    BY <1>3, <1>4 DEF Init, IInv, ServedAside, LiveEmpty, LiveVerified,
       WantAdmitted, AsideThere, IdleBackup, AsideHandled

LEMMA RequestStep ==
    ASSUME IInv, NEW w \in Bundles, NEW o \in BOOLEAN, Admitted(w), Begin(w, o)
    PROVE  IInv'
  <1>1. /\ dir' \in Directories /\ unsynced' \subseteq Directories
        /\ ever' \subseteq Trees /\ EverHeld' /\ ServedHeld'
    BY UnmovedKeeps DEF IInv, Begin
  <1>2. TypeOK'
    BY <1>1, InstallerAssumption DEF IInv, TypeOK, Begin
  <1> QED
    BY <1>1, <1>2 DEF IInv, Begin, ServedAside, LiveEmpty, LiveVerified,
       WantAdmitted, AsideThere, IdleBackup, AsideHandled, Admitted, Loads

LEMMA FaultBounded == ASSUME TypeOK, Fault PROVE faults' \in 0..MaxFaults
  <1>1. MaxFaults \in Nat
    BY InstallerAssumption
  <1>2. faults \in 0..MaxFaults
    BY DEF TypeOK
  <1>3. faults \in Nat
    BY <1>1, <1>2
  <1> QED
    BY <1>1, <1>3 DEF Fault

\* A step that leaves the directory alone and gives the request up.
LEMMA ReturnStep ==
    ASSUME IInv, Unmoved, NEW r \in BOOLEAN, Return(r), Fixed, faults' \in 0..MaxFaults
    PROVE  IInv'
  <1>1. /\ dir' \in Directories /\ unsynced' \subseteq Directories
        /\ ever' \subseteq Trees /\ EverHeld' /\ ServedHeld'
    BY UnmovedKeeps DEF IInv, Return, Fixed
  <1>2. TypeOK'
    BY <1>1 DEF IInv, TypeOK, Return, Leave, Fixed
  <1> QED
    BY <1>1, <1>2 DEF IInv, Return, Leave, ServedAside, LiveEmpty, LiveVerified,
       WantAdmitted, AsideThere, IdleBackup, AsideHandled

LEMMA FailsOutStep == ASSUME IInv, FailsOut, Fixed PROVE IInv'
  BY FaultBounded, ReturnStep DEF FailsOut, IInv

\* A step that leaves the directory alone and moves the request on.
LEMMA UnmovedGoto ==
    ASSUME IInv, Unmoved, NEW pc \in Steps, Goto(pc), Fixed, faults' \in 0..MaxFaults
    PROVE  TypeOK' /\ EverHeld' /\ ServedHeld'
  <1>1. /\ dir' \in Directories /\ unsynced' \subseteq Directories
        /\ ever' \subseteq Trees /\ EverHeld' /\ ServedHeld'
    BY UnmovedKeeps DEF IInv, Goto, Fixed
  <1> QED
    BY <1>1 DEF IInv, TypeOK, Goto, Fixed

\* A rename that moves the request on.
LEMMA RenameGoto ==
    ASSUME IInv, NEW d \in Directories, Rename(d), Held(dir) \ {None} \subseteq Held(d),
           served => Admitted(d.live) \/ Admitted(d.aside),
           NEW pc \in Steps, Goto(pc), Fixed, UNCHANGED faults
    PROVE  TypeOK' /\ EverHeld' /\ ServedHeld'
  <1>1. /\ dir' \in Directories /\ unsynced' \subseteq Directories
        /\ ever' \subseteq Trees /\ EverHeld' /\ ServedHeld'
    BY RenameKeeps DEF IInv, Goto, Fixed
  <1> QED
    BY <1>1 DEF IInv, TypeOK, Goto, Fixed

\* A directory sync that moves the request on.
LEMMA SyncedGoto ==
    ASSUME IInv, Synced, NEW pc \in Steps, Goto(pc), Fixed, UNCHANGED faults
    PROVE  TypeOK' /\ EverHeld' /\ ServedHeld'
  <1>1. /\ dir' \in Directories /\ unsynced' \subseteq Directories
        /\ ever' \subseteq Trees /\ EverHeld' /\ ServedHeld'
    BY DurableKeeps DEF IInv, Goto, Fixed, Synced, Possible
  <1> QED
    BY <1>1 DEF IInv, TypeOK, Goto, Fixed

\* A directory sync, or a power loss, that ends the request.
LEMMA DurableReturn ==
    ASSUME IInv, NEW d \in Possible, Durable(d), Leave(FALSE), Fixed,
           faults' \in 0..MaxFaults, served' \in BOOLEAN,
           served' => served \/ Admitted(d.live)
    PROVE  IInv'
  <1>1. /\ dir' \in Directories /\ unsynced' \subseteq Directories
        /\ ever' \subseteq Trees /\ EverHeld' /\ ServedHeld'
    BY DurableKeeps DEF IInv, Fixed
  <1>2. TypeOK'
    BY <1>1 DEF IInv, TypeOK, Leave, Fixed
  <1> QED
    BY <1>1, <1>2 DEF IInv, Leave, ServedAside, LiveEmpty, LiveVerified,
       WantAdmitted, AsideThere, IdleBackup, AsideHandled

\* What is left to show of a step that moves on to pc.
LEMMA GotoRest ==
    ASSUME IInv, NEW pc \in Steps \ {"idle"}, at # "idle", Goto(pc), Fixed,
           TypeOK' /\ EverHeld' /\ ServedHeld',
           served /\ pc \in Replacing => Admitted(dir'.aside),
           pc \in Emptied => dir'.live = None,
           pc \in {"finalize", "sync history"} => Admitted(dir'.live),
           pc \in {"look", "bring back", "finalize"} \/ (request.backup /\ pc \in Replacing)
              => dir'.aside # None,
           at \in Undoable => pc \in Undoable,
           pc \in {"sync recovery", "reuse", "stage", "publish"} => dir'.aside = None
    PROVE  IInv'
  BY DEF IInv, Goto, Fixed, ServedAside, LiveEmpty, LiveVerified, WantAdmitted,
     AsideThere, IdleBackup, AsideHandled, Admitted, Loads

LEMMA FailsToUndo ==
    ASSUME IInv, FailsTo("undo"), Fixed, at \in Replacing
    PROVE  IInv'
  <1>1. TypeOK' /\ EverHeld' /\ ServedHeld'
    BY UnmovedGoto, FaultBounded DEF FailsTo, IInv
  <1> QED
    BY <1>1, GotoRest DEF FailsTo, Unmoved, IInv, ServedAside, AsideThere

-----------------------------------------------------------------------------
(* One lemma per action *)

LEMMA LookAsideStep == IInv /\ LookAside => IInv'
  <1> SUFFICES ASSUME IInv, LookAside PROVE IInv'
    OBVIOUS
  <1>1. /\ Unmoved /\ Fixed /\ UNCHANGED faults /\ at = "recover"
        /\ faults' \in 0..MaxFaults
    BY DEF LookAside, IInv, TypeOK
  <1>2. CASE dir.aside = None /\ Goto("reuse")
    BY <1>1, <1>2, UnmovedGoto, GotoRest DEF Unmoved
  <1>3. CASE Admitted(dir.aside) /\ Goto("look")
    <2>1. dir.aside # None
      BY <1>3, AdmittedIsBundle DEF IInv
    <2> QED
      BY <1>1, <1>3, <2>1, UnmovedGoto, GotoRest DEF Unmoved
  <1>4. CASE Return(TRUE)
    BY <1>1, <1>4, ReturnStep
  <1> QED
    BY <1>2, <1>3, <1>4 DEF LookAside

LEMMA RecoverMissingStep == IInv /\ RecoverMissing => IInv'
  <1> SUFFICES ASSUME IInv, RecoverMissing PROVE IInv'
    OBVIOUS
  <1>1. at = "look" /\ dir.live = None /\ Fixed
    BY DEF RecoverMissing
  <1>2. CASE Rename(BringBack) /\ Goto("sync recovery") /\ UNCHANGED faults
    <2>1. served => Admitted(BringBack.live)
      BY <1>1, BringBackHolds, AdmittedIsBundle DEF IInv, ServedHeld, Possible
    <2>2. TypeOK' /\ EverHeld' /\ ServedHeld'
      BY <1>1, <1>2, <2>1, BringBackHolds, RenameGoto DEF IInv
    <2>3. dir'.aside = None
      BY <1>1, <1>2, BringBackHolds DEF IInv, Rename
    <2> QED
      BY <1>1, <1>2, <2>2, <2>3, GotoRest
  <1>3. CASE FailsOut
    BY <1>1, <1>3, FailsOutStep
  <1> QED
    BY <1>2, <1>3 DEF RecoverMissing

LEMMA RecoverPublishedStep == IInv /\ RecoverPublished => IInv'
  <1> SUFFICES ASSUME IInv, RecoverPublished PROVE IInv'
    OBVIOUS
  <1>1. at = "look" /\ Admitted(dir.live) /\ Fixed /\ dir.aside # None
    BY DEF RecoverPublished, IInv, AsideThere
  <1>2. CASE Rename(Retire) /\ Goto("sync recovery") /\ UNCHANGED faults
    <2>1. TypeOK' /\ EverHeld' /\ ServedHeld'
      BY <1>1, <1>2, RetireHolds, RenameGoto DEF IInv
    <2>2. dir'.aside = None
      BY <1>1, <1>2, RetireHolds DEF IInv, Rename
    <2> QED
      BY <1>1, <1>2, <2>1, <2>2, GotoRest
  <1>3. CASE FailsOut
    BY <1>1, <1>3, FailsOutStep
  <1> QED
    BY <1>2, <1>3 DEF RecoverPublished

LEMMA RecoverUnadmittedStep == IInv /\ RecoverUnadmitted => IInv'
  <1> SUFFICES ASSUME IInv, RecoverUnadmitted PROVE IInv'
    OBVIOUS
  <1>1. /\ at = "look" /\ dir.live # None /\ ~Admitted(dir.live) /\ Fixed
        /\ dir.aside # None
    BY DEF RecoverUnadmitted, IInv, AsideThere
  <1>2. CASE Rename(Reject) /\ Goto("bring back") /\ UNCHANGED faults
    <2>1. served => Admitted(Reject.aside)
      BY <1>1, RejectHolds DEF IInv, ServedHeld, Possible
    <2>2. TypeOK' /\ EverHeld' /\ ServedHeld'
      BY <1>1, <1>2, <2>1, RejectHolds, RenameGoto DEF IInv
    <2>3. dir'.live = None /\ dir'.aside # None
      BY <1>1, <1>2, RejectHolds DEF IInv, Rename
    <2> QED
      BY <1>1, <1>2, <2>2, <2>3, GotoRest
  <1>3. CASE FailsOut
    BY <1>1, <1>3, FailsOutStep
  <1> QED
    BY <1>2, <1>3 DEF RecoverUnadmitted

LEMMA BringBackOldStep == IInv /\ BringBackOld => IInv'
  <1> SUFFICES ASSUME IInv, BringBackOld PROVE IInv'
    OBVIOUS
  <1>1. at = "bring back" /\ Fixed /\ dir.live = None
    BY DEF BringBackOld, IInv, LiveEmpty
  <1>2. CASE Rename(BringBack) /\ Goto("sync recovery") /\ UNCHANGED faults
    <2>1. served => Admitted(BringBack.live)
      BY <1>1, BringBackHolds, AdmittedIsBundle DEF IInv, ServedHeld, Possible
    <2>2. TypeOK' /\ EverHeld' /\ ServedHeld'
      BY <1>1, <1>2, <2>1, BringBackHolds, RenameGoto DEF IInv
    <2>3. dir'.aside = None
      BY <1>1, <1>2, BringBackHolds DEF IInv, Rename
    <2> QED
      BY <1>1, <1>2, <2>2, <2>3, GotoRest
  <1>3. CASE FailsOut
    BY <1>1, <1>3, FailsOutStep
  <1> QED
    BY <1>2, <1>3 DEF BringBackOld

LEMMA SyncRecoveryStep == IInv /\ SyncRecovery => IInv'
  <1> SUFFICES ASSUME IInv, SyncRecovery PROVE IInv'
    OBVIOUS
  <1>1. at = "sync recovery" /\ Fixed
    BY DEF SyncRecovery
  <1>2. CASE Synced /\ Goto("reuse") /\ UNCHANGED faults
    BY <1>1, <1>2, SyncedGoto, GotoRest DEF Synced, Durable, IInv, AsideHandled
  <1>3. CASE FailsOut
    BY <1>1, <1>3, FailsOutStep
  <1> QED
    BY <1>2, <1>3 DEF SyncRecovery

LEMMA InstalledStep ==
    ASSUME IInv, Unmoved, Installed, Admitted(dir.live), Fixed, UNCHANGED faults
    PROVE  IInv'
  <1>1. /\ Leave(FALSE) /\ served' \in BOOLEAN
        /\ served' => served \/ (unsynced = {} /\ Admitted(dir.live))
    BY DEF Installed, Unmoved, IInv, TypeOK
  <1>2. /\ dir' \in Directories /\ unsynced' \subseteq Directories
        /\ ever' \subseteq Trees /\ EverHeld' /\ ServedHeld'
    BY <1>1, UnmovedKeeps DEF IInv, Fixed
  <1>3. TypeOK'
    BY <1>1, <1>2 DEF IInv, TypeOK, Leave, Fixed
  <1> QED
    BY <1>1, <1>2, <1>3 DEF IInv, Leave, ServedAside, LiveEmpty, LiveVerified,
       WantAdmitted, AsideThere, IdleBackup, AsideHandled

LEMMA ReuseStep == IInv /\ Reuse => IInv'
  <1> SUFFICES ASSUME IInv, Reuse PROVE IInv'
    OBVIOUS
  <1>1. /\ at = "reuse" /\ Fixed /\ Unmoved /\ UNCHANGED faults
        /\ faults' \in 0..MaxFaults
    BY DEF Reuse, IInv, TypeOK
  <1>2. CASE Admitted(dir.live) /\ Installed
    BY <1>1, <1>2, InstalledStep
  <1>3. CASE Goto("stage")
    BY <1>1, <1>3, UnmovedGoto, GotoRest DEF Unmoved, IInv, AsideHandled
  <1> QED
    BY <1>2, <1>3 DEF Reuse

LEMMA StageStep == ASSUME IInv, NEW o \in BOOLEAN, Stage(o) PROVE IInv'
  <1>1. /\ at = "stage" /\ Fixed /\ Unmoved /\ UNCHANGED faults
        /\ faults' \in 0..MaxFaults
    BY DEF Stage, IInv, TypeOK
  <1>2. CASE Goto("publish")
    BY <1>1, <1>2, UnmovedGoto, GotoRest DEF Unmoved, IInv, AsideHandled
  <1>3. CASE Return(FALSE)
    BY <1>1, <1>3, ReturnStep
  <1> QED
    BY <1>2, <1>3 DEF Stage

LEMMA PublishCandidateStep == IInv /\ PublishCandidate => IInv'
  <1> SUFFICES ASSUME IInv, PublishCandidate PROVE IInv'
    OBVIOUS
  <1>1. at = "publish" /\ Fixed /\ (UNCHANGED faults => faults' \in 0..MaxFaults)
    BY DEF PublishCandidate, IInv, TypeOK
  <1>2. CASE /\ dir.aside = None /\ dir.live # None
             /\ Rename(SetAside)
             /\ at' = "swap" /\ request' = [request EXCEPT !.backup = TRUE]
             /\ UNCHANGED <<refused, served, faults>>
    <2>1. served => Admitted(SetAside.aside)
      BY <1>2, SetAsideHolds, AdmittedIsBundle DEF IInv, ServedHeld, Possible
    <2>2. /\ dir' \in Directories /\ unsynced' \subseteq Directories
          /\ ever' \subseteq Trees /\ EverHeld' /\ ServedHeld'
      BY <1>1, <1>2, <2>1, SetAsideHolds, RenameKeeps DEF IInv, Fixed
    <2>3. TypeOK'
      BY <1>1, <1>2, <2>2 DEF IInv, TypeOK, Fixed
    <2>4. dir'.live = None /\ dir'.aside # None /\ (served => Admitted(dir'.aside))
      BY <1>2, <2>1, SetAsideHolds DEF IInv, Rename
    <2>5. Admitted(request.want) /\ request'.want = request.want
      BY <1>1, <1>2 DEF IInv, WantAdmitted, TypeOK
    <2> QED
      BY <1>1, <1>2, <2>2, <2>3, <2>4, <2>5 DEF IInv, Fixed, ServedAside, LiveEmpty,
         LiveVerified, WantAdmitted, AsideThere, IdleBackup, AsideHandled, Admitted, Loads
  <1>3. CASE dir.aside = None /\ dir.live = None /\ Unmoved /\ Goto("swap") /\ UNCHANGED faults
    <2>1. ~served
      BY <1>3, AdmittedIsBundle DEF IInv, ServedHeld, Possible
    <2>2. TypeOK' /\ EverHeld' /\ ServedHeld'
      BY <1>1, <1>3, UnmovedGoto
    <2>3. ~request.backup
      BY <1>1 DEF IInv, IdleBackup
    <2> QED
      BY <1>1, <1>3, <2>1, <2>2, <2>3, GotoRest DEF Unmoved
  <1>4. CASE Unmoved /\ Return(FALSE) /\ UNCHANGED faults
    BY <1>1, <1>4, ReturnStep
  <1> QED
    BY <1>2, <1>3, <1>4 DEF PublishCandidate

LEMMA SwapInStep == IInv /\ SwapIn => IInv'
  <1> SUFFICES ASSUME IInv, SwapIn PROVE IInv'
    OBVIOUS
  <1>1. /\ at = "swap" /\ Fixed /\ dir.live = None
        /\ Admitted(request.want) /\ request.want \in Bundles
        /\ (served => Admitted(dir.aside))
        /\ (request.backup => dir.aside # None)
    BY AdmittedIsBundle DEF SwapIn, IInv, LiveEmpty, WantAdmitted, ServedAside, AsideThere
  <1>2. CASE Rename(Swapped) /\ Goto("sync swap") /\ UNCHANGED faults
    <2>1. TypeOK' /\ EverHeld' /\ ServedHeld'
      BY <1>1, <1>2, SwapHolds, RenameGoto DEF IInv
    <2>2. dir'.aside = dir.aside
      BY <1>1, <1>2, SwapHolds DEF IInv, Rename
    <2> QED
      BY <1>1, <1>2, <2>1, <2>2, GotoRest
  <1>3. CASE FailsTo("undo")
    BY <1>1, <1>3, FailsToUndo
  <1> QED
    BY <1>2, <1>3 DEF SwapIn, Swapped

LEMMA SyncSwapStep == IInv /\ SyncSwap => IInv'
  <1> SUFFICES ASSUME IInv, SyncSwap PROVE IInv'
    OBVIOUS
  <1>1. at = "sync swap" /\ Fixed
    BY DEF SyncSwap
  <1>2. CASE Synced /\ Goto("verify") /\ UNCHANGED faults
    <2>1. TypeOK' /\ EverHeld' /\ ServedHeld'
      BY <1>1, <1>2, SyncedGoto
    <2> QED
      BY <1>1, <1>2, <2>1, GotoRest DEF Synced, Durable, IInv, ServedAside, AsideThere
  <1>3. CASE FailsTo("undo")
    BY <1>1, <1>3, FailsToUndo
  <1> QED
    BY <1>2, <1>3 DEF SyncSwap

LEMMA VerifyStep == IInv /\ Verify => IInv'
  <1> SUFFICES ASSUME IInv, Verify PROVE IInv'
    OBVIOUS
  <1>1. at = "verify" /\ Fixed /\ (UNCHANGED faults => faults' \in 0..MaxFaults)
    BY DEF Verify, IInv, TypeOK
  <1>2. CASE Admitted(dir.live) /\ Unmoved /\ UNCHANGED faults /\ request.backup /\ Goto("finalize")
    <2>1. TypeOK' /\ EverHeld' /\ ServedHeld'
      BY <1>1, <1>2, UnmovedGoto
    <2> QED
      BY <1>1, <1>2, <2>1, GotoRest DEF Unmoved, IInv, ServedAside, AsideThere
  <1>3. CASE Admitted(dir.live) /\ Unmoved /\ UNCHANGED faults /\ Installed
    BY <1>1, <1>3, InstalledStep
  <1>4. CASE FailsTo("undo")
    BY <1>1, <1>4, FailsToUndo
  <1> QED
    BY <1>2, <1>3, <1>4 DEF Verify

LEMMA FinalizeStep == IInv /\ Finalize => IInv'
  <1> SUFFICES ASSUME IInv, Finalize PROVE IInv'
    OBVIOUS
  <1>1. at = "finalize" /\ Fixed /\ Admitted(dir.live) /\ dir.aside # None
    BY DEF Finalize, IInv, LiveVerified, AsideThere
  <1>2. CASE Rename(Retire) /\ Goto("sync history") /\ UNCHANGED faults
    <2>1. TypeOK' /\ EverHeld' /\ ServedHeld'
      BY <1>1, <1>2, RetireHolds, RenameGoto DEF IInv
    <2>2. dir'.live = dir.live
      BY <1>1, <1>2, RetireHolds DEF IInv, Rename
    <2> QED
      BY <1>1, <1>2, <2>1, <2>2, GotoRest
  <1>3. CASE FailsTo("undo")
    BY <1>1, <1>3, FailsToUndo
  <1> QED
    BY <1>2, <1>3 DEF Finalize

LEMMA SyncHistoryStep == IInv /\ SyncHistory => IInv'
  <1> SUFFICES ASSUME IInv, SyncHistory PROVE IInv'
    OBVIOUS
  <1>1. at = "sync history" /\ Fixed /\ Admitted(dir.live)
    BY DEF SyncHistory, IInv, LiveVerified
  <1>2. CASE Synced /\ Installed /\ UNCHANGED faults
    <2>1. served' \in BOOLEAN /\ Leave(FALSE) /\ Durable(dir)
          /\ faults' \in 0..MaxFaults
      BY <1>2 DEF Installed, Synced, IInv, TypeOK
    <2> QED
      BY <1>1, <2>1, DurableReturn DEF Possible
  <1>3. CASE FailsOut
    BY <1>1, <1>3, FailsOutStep
  <1> QED
    BY <1>2, <1>3 DEF SyncHistory

LEMMA QuarantineNewStep == IInv /\ QuarantineNew => IInv'
  <1> SUFFICES ASSUME IInv, QuarantineNew PROVE IInv'
    OBVIOUS
  <1>1. /\ at = "undo" /\ Fixed /\ (UNCHANGED faults => faults' \in 0..MaxFaults)
        /\ (served => Admitted(dir.aside))
        /\ (request.backup => dir.aside # None)
    BY DEF QuarantineNew, IInv, ServedAside, AsideThere, TypeOK
  <1>2. CASE dir.live # None /\ Rename(Reject) /\ Goto("undo old") /\ UNCHANGED faults
    <2>1. TypeOK' /\ EverHeld' /\ ServedHeld'
      BY <1>1, <1>2, RejectHolds, RenameGoto DEF IInv
    <2>2. dir'.live = None /\ dir'.aside = dir.aside
      BY <1>2, RejectHolds DEF IInv, Rename
    <2> QED
      BY <1>1, <1>2, <2>1, <2>2, GotoRest
  <1>3. CASE dir.live = None /\ Unmoved /\ Goto("undo old") /\ UNCHANGED faults
    <2>1. TypeOK' /\ EverHeld' /\ ServedHeld'
      BY <1>1, <1>3, UnmovedGoto
    <2> QED
      BY <1>1, <1>3, <2>1, GotoRest DEF Unmoved
  <1>4. CASE FailsOut
    BY <1>1, <1>4, FailsOutStep
  <1> QED
    BY <1>2, <1>3, <1>4 DEF QuarantineNew

LEMMA UndoOldStep == IInv /\ UndoOld => IInv'
  <1> SUFFICES ASSUME IInv, UndoOld PROVE IInv'
    OBVIOUS
  <1>1. /\ at = "undo old" /\ Fixed /\ dir.live = None
        /\ (UNCHANGED faults => faults' \in 0..MaxFaults)
        /\ (served => Admitted(dir.aside))
    BY DEF UndoOld, IInv, LiveEmpty, ServedAside, TypeOK
  <1>2. CASE Rename(BringBack) /\ Goto("sync undo") /\ UNCHANGED faults
    <2>1. TypeOK' /\ EverHeld' /\ ServedHeld'
      BY <1>1, <1>2, BringBackHolds, RenameGoto DEF IInv
    <2> QED
      BY <1>1, <1>2, <2>1, GotoRest
  <1>3. CASE Unmoved /\ Return(FALSE) /\ UNCHANGED faults
    BY <1>1, <1>3, ReturnStep
  <1>4. CASE FailsOut
    BY <1>1, <1>4, FailsOutStep
  <1> QED
    BY <1>2, <1>3, <1>4 DEF UndoOld

LEMMA SyncUndoStep == IInv /\ SyncUndo => IInv'
  <1> SUFFICES ASSUME IInv, SyncUndo PROVE IInv'
    OBVIOUS
  <1>1. at = "sync undo" /\ Fixed
    BY DEF SyncUndo
  <1>2. CASE Synced /\ Return(FALSE) /\ UNCHANGED faults
    <2>1. served' \in BOOLEAN /\ Leave(FALSE) /\ Durable(dir) /\ UNCHANGED served
          /\ faults' \in 0..MaxFaults
      BY <1>2 DEF Return, Synced, IInv, TypeOK
    <2> QED
      BY <1>1, <2>1, DurableReturn DEF Possible
  <1>3. CASE FailsOut
    BY <1>1, <1>3, FailsOutStep
  <1> QED
    BY <1>2, <1>3 DEF SyncUndo

LEMMA KillStep == IInv /\ Kill => IInv'
  BY FailsOutStep DEF Kill, FailsOut

LEMMA PowerLossStep == IInv /\ PowerLoss => IInv'
  <1> SUFFICES ASSUME IInv, PowerLoss PROVE IInv'
    OBVIOUS
  <1>1. PICK d \in unsynced : Durable(d)
    BY DEF PowerLoss
  <1>2. Leave(FALSE) /\ Fixed /\ UNCHANGED served /\ served' \in BOOLEAN
    BY DEF PowerLoss, Return, IInv, TypeOK
  <1>3. faults' \in 0..MaxFaults
    BY FaultBounded DEF PowerLoss, IInv
  <1> QED
    BY <1>1, <1>2, <1>3, DurableReturn DEF Possible

LEMMA UpgradeStep == ASSUME IInv, NEW r \in Releases, Upgrade(r) PROVE IInv'
  <1>1. TypeOK'
    BY DEF IInv, TypeOK, Upgrade
  <1>2. EverHeld'
    BY DEF IInv, EverHeld, Upgrade, Possible, Held
  <1>3. ServedHeld'
    BY DEF Upgrade, ServedHeld, Possible, Admitted, Loads
  <1> QED
    BY <1>1, <1>2, <1>3 DEF IInv, Upgrade, ServedAside, LiveEmpty, LiveVerified,
       WantAdmitted, AsideThere, IdleBackup, AsideHandled

LEMMA NextIInv == IInv /\ [Next]_vars => IInv'
  <1> SUFFICES ASSUME IInv, [Next]_vars PROVE IInv'
    OBVIOUS
  <1>1. CASE UNCHANGED vars
    <2>1. EverHeld' /\ ServedHeld'
      BY <1>1, UnmovedKeeps DEF vars, Unmoved, IInv, TypeOK
    <2>2. TypeOK'
      BY <1>1 DEF vars, IInv, TypeOK
    <2> QED
      BY <1>1, <2>1, <2>2 DEF vars, IInv, ServedAside, LiveEmpty, LiveVerified,
         WantAdmitted, AsideThere, IdleBackup, AsideHandled, Admitted, Loads
  <1>2. ASSUME NEW b \in Bundles, RequestOnline(b) \/ RequestOffline(b) PROVE IInv'
    BY <1>2, RequestStep DEF RequestOnline, RequestOffline, Sources
  <1>3. CASE DownloadCandidate \/ CopyCandidate
    BY <1>3, StageStep DEF DownloadCandidate, CopyCandidate
  <1>4. CASE Next
    BY <1>2, <1>3, <1>4, LookAsideStep, RecoverMissingStep, RecoverPublishedStep,
       RecoverUnadmittedStep, BringBackOldStep, SyncRecoveryStep, ReuseStep,
       PublishCandidateStep, SwapInStep, SyncSwapStep, VerifyStep,
       FinalizeStep, SyncHistoryStep, QuarantineNewStep, UndoOldStep, SyncUndoStep,
       KillStep, PowerLossStep, UpgradeStep DEF Next
  <1> QED
    BY <1>1, <1>4

LEMMA AlwaysIInv == Spec => []IInv
  BY InitIInv, NextIInv, PTL DEF Spec

-----------------------------------------------------------------------------
(* The theorems *)

\* The variables of the installer keep their types.
THEOREM InstallerTypes == Spec => []TypeOK
  BY AlwaysIInv, PTL DEF IInv

\* Once an admitted bundle has been installed under the running release, one
\* is at the destination or in the active backup, through failed renames and
\* syncs, kills and power losses (publishSemanticBundleReplacement and its
\* recovery).
THEOREM BundleAlwaysSurvives == Spec => []BundleSurvives
  <1>1. IInv => BundleSurvives
    BY DEF IInv, ServedHeld, Possible, BundleSurvives
  <1> QED
    BY <1>1, AlwaysIInv, PTL

\* No tree that was durably at the destination is ever destroyed.
THEOREM TreesAreKept == Spec => []NoTreeDestroyed
  <1>1. IInv => NoTreeDestroyed
    BY DEF IInv, EverHeld, Possible, Held, NoTreeDestroyed
  <1> QED
    BY <1>1, AlwaysIInv, PTL

\* A request that has passed recovery finds an admitted bundle at the
\* destination if one had been installed
\* (recoverSemanticBundleInstallWithValidator).
THEOREM RecoveryServes == Spec => []RecoveredServes
  <1>1. IInv => RecoveredServes
    <2> SUFFICES ASSUME IInv, served, at \in {"reuse", "stage", "publish"}
                 PROVE  Admitted(dir.live)
      BY DEF RecoveredServes
    <2>1. dir.aside = None /\ ~Admitted(dir.aside)
      BY AdmittedIsBundle DEF IInv, AsideHandled
    <2> QED
      BY <2>1 DEF IInv, ServedHeld, Possible
  <1> QED
    BY <1>1, AlwaysIInv, PTL
=============================================================================

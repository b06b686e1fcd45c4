----------------------- MODULE SemanticSearchProofs -----------------------
(***************************************************************************)
(* Proofs about SemanticWorker and SearchIndex, the processes and the      *)
(* generations of the semantic lane.                                       *)
(*                                                                         *)
(* SemanticWorker: for every set of daemons, call slots and bundles, on    *)
(* hosts with and without a sandbox, and for every number of calls, lapses *)
(* and replacements of the bundle.                                         *)
(*                                                                         *)
(* SearchIndex: for every set of sources, notes, rebuilding clients and    *)
(* queries, and for every number of scans, generations, restarts and       *)
(* replaced libraries.                                                     *)
(***************************************************************************)
EXTENDS SemanticWorker, SearchIndex, TLAPS

(* SemanticWorker *)

\* A worker in use is registered, or an Invalidate is about to close it.
UsedIsKnown ==
  \A c \in Calls :
    InUse(c) => Registered(c) \/ \E e \in Actors : c \in closing[e]

\* A factory's workers, and those an Invalidate closes, are of its daemon.
OwnWorkers ==
  /\ \A d \in Daemons : \A c \in workers[d] : DaemonOf[c] = d
  /\ \A e \in Actors : \A c \in closing[e] : DaemonOf[c] = HomeOf(e)

\* Workers stay registered with an invalid factory only until the Invalidate
\* that set its flag takes them.
FlaggedTakes ==
  \A d \in Daemons :
    invalid[d] /\ workers[d] # {} => \E e \in Actors : HomeOf(e) = d /\ inv[e] = "flagged"

\* A daemon that has not taken its lease has no call.
OffIsIdle == \A c \in Calls : mode[DaemonOf[c]] = "off" => pc[c] = "idle"

\* A session runs the profile its call admitted.
RunsAdmitted ==
  \A c \in Calls :
    pc[c] \in {"register", "embed", "await", "replied", "unregister", "close"}
      => loaded[c] = want[c]

\* Vectors that are computed or answered are of the manifest.
SentIsOfManifest ==
  \A c \in Calls :
    /\ answered[c] => pc[c] \in {"unregister", "close"}
    /\ pc[c] \in {"await", "replied"} \/ answered[c] => want[c] = manifest[DaemonOf[c]]

Bound == OffIsIdle /\ RunsAdmitted /\ SentIsOfManifest

IInv == TypeOK /\ OwnWorkers /\ UsedIsKnown /\ FlaggedTakes /\ Bound

-----------------------------------------------------------------------------
(* Types *)

\* Every actor belongs to one daemon; daemons and calls are told apart.
LEMMA Homes ==
    /\ \A c \in Calls : c \in Actors /\ HomeOf(c) = DaemonOf[c] /\ DaemonOf[c] \in Daemons
    /\ \A d \in Daemons : d \in Actors /\ HomeOf(d) = d /\ d \notin Calls /\ d \in Attempt
    /\ \A e \in Actors : HomeOf(e) \in Daemons
  BY DaemonOfAssumption, ActorsAssumption, DaemonsAssumption DEF Actors, HomeOf

\* The operations on the lease keep it a row.
LEMMA Rows ==
    ASSUME row \in FenceRows
    PROVE  /\ row.token \in Nat /\ row.token + 1 \in Nat
           /\ Lapsed(row) \in FenceRows /\ Extended(row, TRUE) \in FenceRows
           /\ \A a \in Attempt, l \in BOOLEAN : Granted(row, a, l) \in FenceRows
<1>1. Lapsed(row) \in FenceRows /\ Extended(row, TRUE) \in FenceRows /\ row.token \in Nat
  BY DEF Lapsed, Extended, FenceRows
<1>2. ASSUME NEW a \in Attempt, NEW l \in BOOLEAN PROVE Granted(row, a, l) \in FenceRows
  <2>1. row.token + 1 \in Nat
    BY <1>1
  <2> QED  BY <2>1 DEF Granted, FenceRows
<1>3. row.token + 1 \in Nat
  BY <1>1
<1> QED  BY <1>1, <1>2, <1>3

\* A renewal that fails leaves a row.
LEMMA RefusedRow ==
    ASSUME row \in FenceRows, NEW d \in Daemons, NEW done, RenewFails(d, done)
    PROVE  row' \in FenceRows
  BY Rows, Homes DEF RenewFails

\* Marking the factory invalid changes its flags and nothing else.
LEMMA FlagTypes ==
    ASSUME TypeOK, NEW e \in Actors, Flag(e)
    PROVE  /\ invalid' \in [Daemons -> BOOLEAN] /\ ready' \in [Daemons -> BOOLEAN]
           /\ inv' \in [Actors -> {"no", "flagged", "taken"}]
           /\ UNCHANGED <<workers, closing>>
  BY Homes DEF Flag, TypeOK

\* What a call's return does to the types.
LEMMA ReturnTypes ==
    ASSUME TypeOK, NEW c \in Calls, NEW ok, Return(c, ok)
    PROVE  /\ row' \in FenceRows /\ mode' \in [Daemons -> Modes]
           /\ keeper' \in [Daemons -> {"off", "running", "failing"}]
           /\ pc' \in [Calls -> Points]
           /\ cancelled' \in [Calls -> BOOLEAN] /\ answered' \in [Calls -> BOOLEAN]
           /\ want' \in [Calls -> Trees] /\ loaded' \in [Calls -> Trees]
           /\ session' \in [Calls -> {"open", "closed"}]
<1>1. row' \in FenceRows
  BY Rows DEF Return, TypeOK
<1>2. mode' \in [Daemons -> Modes] /\ keeper' \in [Daemons -> {"off", "running", "failing"}]
  BY Homes DEF Return, TypeOK, Modes
<1>3. pc' \in [Calls -> Points]
  BY DEF Return, Goto, TypeOK, Points
<1> QED  BY <1>1, <1>2, <1>3 DEF Return, TypeOK, Trees

\* The initial states have the types.
LEMMA InitTypes == Init => TypeOK
<1> SUFFICES ASSUME Init PROVE TypeOK
  OBVIOUS
<1>1. sandboxed \in BOOLEAN
  BY SwitchesAssumption DEF Init
<1>2. row \in FenceRows
  BY DEF Init, NoRow, FenceRows
<1>3. used \in [replaced: 0..MaxReplaced, calls: 0..MaxCalls, lapses: 0..MaxLapses]
  BY BoundsAssumption DEF Init
<1> QED
  BY <1>1, <1>2, <1>3, InstalledAssumption DEF Init, TypeOK, Trees, Modes, Points

\* The facts about the counters and constants that the types rest on.
LEMMA UsedTypes ==
    ASSUME TypeOK
    PROVE  /\ used.calls < MaxCalls =>
                [used EXCEPT !.calls = @ + 1]
                  \in [replaced: 0..MaxReplaced, calls: 0..MaxCalls, lapses: 0..MaxLapses]
           /\ used.lapses < MaxLapses =>
                [used EXCEPT !.lapses = @ + 1]
                  \in [replaced: 0..MaxReplaced, calls: 0..MaxCalls, lapses: 0..MaxLapses]
           /\ used.replaced < MaxReplaced =>
                [used EXCEPT !.replaced = @ + 1]
                  \in [replaced: 0..MaxReplaced, calls: 0..MaxCalls, lapses: 0..MaxLapses]
  BY BoundsAssumption DEF TypeOK

\* Every step keeps the types, action by action.
LEMMA TypeStep ==
    ASSUME TypeOK, Next
    PROVE  TypeOK'
<1>c. ASSUME NEW c \in Calls,
             Begin(c) \/ Cancel(c) \/ CallStep(c) \/ WorkerStep(c) \/ MonitorStep(c)
      PROVE  TypeOK'
  <2>1. CASE Begin(c)
    BY UsedTypes, <2>1 DEF Begin, At, Goto, Move, daemon, factory, fencing, TypeOK, Points
  <2>2. CASE Cancel(c)
    BY <2>2 DEF Cancel, At, Goto, Move, env, daemon, factory, fencing, TypeOK, Points
  <2>3. CASE Check(c)
    BY <2>3 DEF Check, Move, At, Goto, env, daemon, factory, fencing, TypeOK, Points
  <2>4. CASE CheckRefuses(c)
    BY ReturnTypes, <2>4 DEF CheckRefuses, env, factory, fencing, TypeOK
  <2>5. CASE Renew(c)
    BY Rows, Homes, <2>5 DEF
      Renew, Move, At, Goto, RenewOK, env, daemon, factory, fencing, TypeOK, Points, Modes
  <2>6. CASE RenewRefused(c)
    BY RefusedRow, FlagTypes, Homes, <2>6 DEF
      RenewRefused, At, Goto, Move, env, daemon, TypeOK, Points
  <2>7. CASE RefusedReturns(c)
    BY ReturnTypes, <2>7 DEF RefusedReturns, Finished, Invalidated, env, factory, TypeOK
  <2>8. CASE LoadBundle(c)
    BY <2>8 DEF LoadBundle, Move, At, Goto, env, daemon, factory, fencing, TypeOK, Points, Trees
  <2>9. CASE Admit(c)
    BY <2>9 DEF Admit, Move, At, Goto, env, daemon, factory, fencing, TypeOK, Points
  <2>10. CASE StartFails(c)
    BY ReturnTypes, <2>10 DEF StartFails, ChildTree, env, factory, fencing, TypeOK
  <2>11. CASE HandshakeTimeout(c)
    BY ReturnTypes, <2>11 DEF HandshakeTimeout, env, factory, fencing, TypeOK
  <2>12. CASE Register(c)
    BY Homes, <2>12 DEF Register, Move, At, Goto, env, daemon, fencing, TypeOK, Points
  <2>13. CASE RegisterFails(c)
    BY ReturnTypes, <2>13 DEF RegisterFails, env, factory, fencing, TypeOK
  <2>14. CASE Request(c)
    BY <2>14 DEF Request, Move, At, Goto, env, daemon, factory, fencing, TypeOK, Points
  <2>15. CASE RequestFails(c)
    BY <2>15 DEF RequestFails, Move, At, Goto, env, daemon, factory, fencing, TypeOK, Points
  <2>16. CASE TakeReply(c)
    BY Homes, <2>16 DEF TakeReply, Move, At, Goto, env, daemon, fencing, TypeOK, Points
  <2>17. CASE TransportFails(c)
    BY <2>17 DEF TransportFails, Move, At, Goto, env, daemon, factory, fencing, TypeOK, Points
  <2>18. CASE Unregister(c)
    BY Homes, <2>18 DEF Unregister, Move, At, Goto, env, daemon, fencing, TypeOK, Points
  <2>19. CASE CloseSession(c)
    BY ReturnTypes, <2>19 DEF CloseSession, env, factory, fencing, TypeOK
  <2>20. CASE ChildAdmits(c)
    BY <2>20 DEF
      ChildAdmits, Move, At, Goto, ChildTree, env, daemon, factory, fencing, TypeOK, Points
  <2>21. CASE ChildStarts(c)
    BY <2>21 DEF
      ChildStarts, Move, At, Goto, ChildTree, env, daemon, factory, fencing, TypeOK,
      Points, Trees
  <2>22. CASE Reply(c)
    BY <2>22 DEF Reply, Move, At, Goto, env, daemon, factory, fencing, TypeOK, Points
  <2>23. CASE ChildDies(c)
    BY <2>23 DEF ChildDies, env, daemon, factory, fencing, TypeOK
  <2>24. CASE MonitorTick(c)
    BY Homes, <2>24 DEF MonitorTick, env, daemon, factory, fencing, TypeOK
  <2>25. CASE MonitorRenews(c)
    BY Rows, Homes, <2>25 DEF MonitorRenews, RenewOK, env, daemon, factory, fencing, TypeOK
  <2>26. CASE MonitorRefused(c)
    BY RefusedRow, FlagTypes, Homes, <2>26 DEF MonitorRefused, env, daemon, TypeOK
  <2>27. CASE MonitorCloses(c)
    BY Homes, <2>27 DEF MonitorCloses, Finished, Invalidated, env, daemon, factory, TypeOK
  <2>28. CASE MonitorEnds(c)
    BY Homes, <2>28 DEF MonitorEnds, env, daemon, factory, fencing, TypeOK
  <2> QED
    BY <1>c, <2>1, <2>2, <2>3, <2>4, <2>5, <2>6, <2>7, <2>8, <2>9, <2>10, <2>11, <2>12, <2>13, <2>14,
      <2>15, <2>16, <2>17, <2>18, <2>19, <2>20, <2>21, <2>22, <2>23, <2>24, <2>25, <2>26, <2>27, <2>28 DEF
      CallStep, WorkerStep, MonitorStep
<1>d. ASSUME NEW d \in Daemons,
             \/ Configure(d) \/ ConfigureFails(d) \/ KeeperStep(d)
             \/ Stop(d) \/ ReleaseStep(d) \/ Exit(d)
      PROVE  TypeOK'
  <2>1. CASE Configure(d)
    BY Rows, Homes, <2>1 DEF Configure, env, factory, call, fencing, TypeOK, Modes, Trees
  <2>2. CASE ConfigureFails(d)
    BY Homes, <2>2 DEF ConfigureFails, env, factory, call, fencing, TypeOK, Modes
  <2>3. CASE KeeperRenews(d)
    BY Rows, Homes, <2>3 DEF KeeperRenews, RenewOK, env, daemon, factory, call, fencing, TypeOK
  <2>4. CASE KeeperRefused(d)
    BY RefusedRow, FlagTypes, Homes, <2>4 DEF KeeperRefused, env, call, TypeOK
  <2>5. CASE KeeperEnds(d)
    BY Homes, <2>5 DEF KeeperEnds, Finished, Invalidated, env, factory, call, fencing, TypeOK
  <2>6. CASE Stop(d)
    BY Homes, <2>6 DEF Stop, env, factory, call, fencing, TypeOK, Modes
  <2>7. CASE ReleaseInvalidates(d)
    BY Homes, <2>7 DEF ReleaseInvalidates, Flag, env, call, TypeOK, Modes
  <2>8. CASE Release(d)
    BY Rows, Homes, <2>8 DEF Release, Finished, Invalidated, env, factory, call, TypeOK, Modes
  <2>9. CASE Exit(d)
    BY Homes, <2>9 DEF Exit, env, TypeOK, Modes, Points, Trees
  <2> QED
    BY <1>d, <2>1, <2>2, <2>3, <2>4, <2>5, <2>6, <2>7, <2>8, <2>9 DEF KeeperStep, ReleaseStep
<1>e. ASSUME NEW e \in Actors, InvalidateStep(e)
      PROVE  TypeOK'
  <2>1. CASE Take(e)
    BY Homes, <2>1 DEF Take, env, daemon, call, TypeOK
  <2>2. ASSUME NEW c \in Calls, CloseTaken(e, c)
       PROVE  TypeOK'
    BY <2>2 DEF CloseTaken, env, daemon, factory, TypeOK
  <2> QED  BY <1>e, <2>1, <2>2 DEF InvalidateStep
<1>l. ASSUME Lapse
     PROVE  TypeOK'
  BY Rows, UsedTypes, <1>l DEF Lapse, daemon, factory, call, fencing, TypeOK
<1>t. ASSUME NEW a \in Attempt, TakeOver(a)
     PROVE  TypeOK'
  BY Rows, Homes, <1>t DEF TakeOver, env, daemon, factory, call, fencing, TypeOK
<1>r. ASSUME NEW t \in Trees, ReplaceTree(t)
     PROVE  TypeOK'
  BY UsedTypes, <1>r DEF ReplaceTree, daemon, factory, call, fencing, TypeOK
<1> QED  BY <1>c, <1>d, <1>e, <1>l, <1>t, <1>r DEF Next

-----------------------------------------------------------------------------
(* Invalidation *)

\* No call begins to use a worker.
NoNewUse == \A c \in Calls : InUse(c)' => InUse(c)

Registers == \E c \in Calls : Register(c)

Unregisters ==
  \E c \in Calls :
    /\ ~InUse(c)'
    /\ workers' = [workers EXCEPT ![DaemonOf[c]] = @ \ {c}]
    /\ UNCHANGED <<invalid, inv, closing>>

Takes == \E e \in Actors : Take(e)

Closes == \E e \in Actors, c \in Calls : CloseTaken(e, c)

Finishes == \E e \in Actors : Invalidated(e) /\ Finished(e) /\ UNCHANGED <<invalid, workers>>

Flags == \E e \in Actors : Flag(e)

Exits == \E d \in Daemons : Exit(d)

\* What a step may do to the invalidation.
Kind ==
  \/ Registers
  \/ /\ NoNewUse
     /\ \/ UNCHANGED <<invalid, workers, inv, closing>>
        \/ Unregisters \/ Takes \/ Closes \/ Finishes \/ Flags \/ Exits

\* What a step does to workers, lists and flags: one of nine kinds.
LEMMA Kinds ==
    ASSUME TypeOK, Next
    PROVE  Kind
<1>c. ASSUME NEW c \in Calls,
             Begin(c) \/ Cancel(c) \/ CallStep(c) \/ WorkerStep(c) \/ MonitorStep(c)
      PROVE  Kind
  <2>1. CASE Begin(c)
    BY <2>1 DEF Begin, At, Goto, Move, factory, fencing, TypeOK, Kind, NoNewUse, InUse
  <2>2. CASE Cancel(c)
    BY <2>2 DEF Cancel, At, Goto, Move, factory, fencing, TypeOK, Kind, NoNewUse, InUse
  <2>3. CASE Check(c)
    BY <2>3 DEF Check, Move, At, Goto, factory, fencing, TypeOK, Kind, NoNewUse, InUse
  <2>4. CASE CheckRefuses(c)
    BY <2>4 DEF
      CheckRefuses, At, Goto, Move, Return, factory, fencing, TypeOK, Kind, NoNewUse, InUse
  <2>5. CASE Renew(c)
    BY <2>5 DEF Renew, Move, At, Goto, factory, fencing, TypeOK, Kind, NoNewUse, InUse
  <2>6. CASE RenewRefused(c)
    BY Homes, <2>6 DEF RenewRefused, At, Goto, Move, TypeOK, Kind, NoNewUse, InUse, Flags
  <2>7. CASE RefusedReturns(c)
    BY Homes, <2>7 DEF
      RefusedReturns, At, Goto, Move, Return, factory, TypeOK, Kind, NoNewUse, InUse,
      Finishes
  <2>8. CASE LoadBundle(c)
    BY <2>8 DEF LoadBundle, Move, At, Goto, factory, fencing, TypeOK, Kind, NoNewUse, InUse
  <2>9. CASE Admit(c)
    BY <2>9 DEF Admit, Move, At, Goto, factory, fencing, TypeOK, Kind, NoNewUse, InUse
  <2>10. CASE StartFails(c)
    BY <2>10 DEF
      StartFails, At, Goto, Move, Return, factory, fencing, TypeOK, Kind, NoNewUse, InUse
  <2>11. CASE HandshakeTimeout(c)
    BY <2>11 DEF
      HandshakeTimeout, At, Goto, Move, Return, factory, fencing, TypeOK, Kind, NoNewUse,
      InUse
  <2>12. CASE Register(c)
    BY Homes, <2>12 DEF
      Register, Move, At, Goto, fencing, TypeOK, Kind, NoNewUse, InUse, Registers
  <2>13. CASE RegisterFails(c)
    BY <2>13 DEF
      RegisterFails, At, Goto, Move, Return, factory, fencing, TypeOK, Kind, NoNewUse, InUse
  <2>14. CASE Request(c)
    BY <2>14 DEF Request, Move, At, Goto, factory, fencing, TypeOK, Kind, NoNewUse, InUse
  <2>15. CASE RequestFails(c)
    BY <2>15 DEF RequestFails, Move, At, Goto, factory, fencing, TypeOK, Kind, NoNewUse, InUse
  <2>16. CASE TakeReply(c)
    BY <2>16 DEF TakeReply, Move, At, Goto, fencing, TypeOK, Kind, NoNewUse, InUse
  <2>17. CASE TransportFails(c)
    BY <2>17 DEF TransportFails, Move, At, Goto, factory, fencing, TypeOK, Kind, NoNewUse, InUse
  <2>18. CASE Unregister(c)
    BY Homes, <2>18 DEF
      Unregister, Move, At, Goto, fencing, TypeOK, Kind, NoNewUse, InUse, Unregisters
  <2>19. CASE CloseSession(c)
    BY <2>19 DEF
      CloseSession, At, Goto, Move, Return, factory, fencing, TypeOK, Kind, NoNewUse, InUse
  <2>20. CASE ChildAdmits(c)
    BY <2>20 DEF ChildAdmits, Move, At, Goto, factory, fencing, TypeOK, Kind, NoNewUse, InUse
  <2>21. CASE ChildStarts(c)
    BY <2>21 DEF ChildStarts, Move, At, Goto, factory, fencing, TypeOK, Kind, NoNewUse, InUse
  <2>22. CASE Reply(c)
    BY <2>22 DEF Reply, Move, At, Goto, factory, fencing, TypeOK, Kind, NoNewUse, InUse
  <2>23. CASE ChildDies(c)
    BY <2>23 DEF ChildDies, factory, fencing, TypeOK, Kind, NoNewUse, InUse
  <2>24. CASE MonitorTick(c)
    BY <2>24 DEF MonitorTick, factory, fencing, TypeOK, Kind, NoNewUse, InUse
  <2>25. CASE MonitorRenews(c)
    BY <2>25 DEF MonitorRenews, factory, fencing, TypeOK, Kind, NoNewUse, InUse
  <2>26. CASE MonitorRefused(c)
    BY Homes, <2>26 DEF MonitorRefused, TypeOK, Kind, NoNewUse, InUse, Flags
  <2>27. CASE MonitorCloses(c)
    BY Homes, <2>27 DEF MonitorCloses, factory, TypeOK, Kind, NoNewUse, InUse, Finishes
  <2>28. CASE MonitorEnds(c)
    BY <2>28 DEF MonitorEnds, factory, fencing, TypeOK, Kind, NoNewUse, InUse
  <2> QED
    BY <1>c, <2>1, <2>2, <2>3, <2>4, <2>5, <2>6, <2>7, <2>8, <2>9, <2>10, <2>11, <2>12, <2>13, <2>14,
      <2>15, <2>16, <2>17, <2>18, <2>19, <2>20, <2>21, <2>22, <2>23, <2>24, <2>25, <2>26, <2>27, <2>28 DEF
      CallStep, WorkerStep, MonitorStep
<1>d. ASSUME NEW d \in Daemons,
             \/ Configure(d) \/ ConfigureFails(d) \/ KeeperStep(d)
             \/ Stop(d) \/ ReleaseStep(d) \/ Exit(d)
      PROVE  Kind
  <2>1. CASE Configure(d)
    BY <2>1 DEF Configure, factory, call, fencing, TypeOK, Kind, NoNewUse, InUse
  <2>2. CASE ConfigureFails(d)
    BY <2>2 DEF ConfigureFails, factory, call, fencing, TypeOK, Kind, NoNewUse, InUse
  <2>3. CASE KeeperRenews(d)
    BY <2>3 DEF KeeperRenews, factory, call, fencing, TypeOK, Kind, NoNewUse, InUse
  <2>4. CASE KeeperRefused(d)
    BY Homes, <2>4 DEF KeeperRefused, call, TypeOK, Kind, NoNewUse, InUse, Flags
  <2>5. CASE KeeperEnds(d)
    BY Homes, <2>5 DEF
      KeeperEnds, factory, call, fencing, TypeOK, Kind, NoNewUse, InUse, Finishes
  <2>6. CASE Stop(d)
    BY <2>6 DEF Stop, factory, call, fencing, TypeOK, Kind, NoNewUse, InUse
  <2>7. CASE ReleaseInvalidates(d)
    BY Homes, <2>7 DEF ReleaseInvalidates, call, TypeOK, Kind, NoNewUse, InUse, Flags
  <2>8. CASE Release(d)
    BY Homes, <2>8 DEF Release, factory, call, TypeOK, Kind, NoNewUse, InUse, Finishes
  <2>9. CASE Exit(d)
    BY Homes, <2>9 DEF Exit, TypeOK, Kind, NoNewUse, InUse, Exits
  <2> QED
    BY <1>d, <2>1, <2>2, <2>3, <2>4, <2>5, <2>6, <2>7, <2>8, <2>9 DEF KeeperStep, ReleaseStep
<1>e. ASSUME NEW e \in Actors, InvalidateStep(e)
      PROVE  Kind
  <2>1. CASE Take(e)
    BY Homes, <2>1 DEF Take, call, TypeOK, Kind, NoNewUse, InUse, Takes
  <2>2. ASSUME NEW c \in Calls, CloseTaken(e, c)
       PROVE  Kind
    BY Homes, <2>2 DEF CloseTaken, factory, TypeOK, Kind, NoNewUse, InUse, Closes
  <2> QED  BY <1>e, <2>1, <2>2 DEF InvalidateStep
<1>l. ASSUME Lapse
     PROVE  Kind
  BY <1>l DEF Lapse, factory, call, fencing, TypeOK, Kind, NoNewUse, InUse
<1>t. ASSUME NEW a \in Attempt, TakeOver(a)
     PROVE  Kind
  BY <1>t DEF TakeOver, factory, call, fencing, TypeOK, Kind, NoNewUse, InUse
<1>r. ASSUME NEW t \in Trees, ReplaceTree(t)
     PROVE  Kind
  BY <1>r DEF ReplaceTree, factory, call, fencing, TypeOK, Kind, NoNewUse, InUse
<1> QED  BY <1>c, <1>d, <1>e, <1>l, <1>t, <1>r DEF Next

\* Workers and lists stay with their daemon.
LEMMA OwnStep ==
    ASSUME TypeOK, OwnWorkers, Kind
    PROVE  OwnWorkers'
<1>1. CASE Registers
  BY <1>1, Homes DEF Registers, Register, fencing, TypeOK, OwnWorkers
<1>2. CASE UNCHANGED <<invalid, workers, inv, closing>>
  BY <1>2 DEF OwnWorkers
<1>3. CASE Unregisters
  BY <1>3, Homes DEF Unregisters, TypeOK, OwnWorkers
<1>4. CASE Takes
  BY <1>4, Homes DEF Takes, Take, TypeOK, OwnWorkers
<1>5. CASE Closes
  BY <1>5, Homes DEF Closes, CloseTaken, factory, TypeOK, OwnWorkers
<1>6. CASE Finishes \/ Flags
  BY <1>6 DEF Finishes, Finished, Flags, Flag, OwnWorkers
<1>7. CASE Exits
  BY <1>7, Homes DEF Exits, Exit, TypeOK, OwnWorkers
<1> QED  BY <1>1, <1>2, <1>3, <1>4, <1>5, <1>6, <1>7 DEF Kind

\* A worker stays known: registration makes it so, Take moves it to the list
\* of the Invalidate, and it leaves that list closed.
LEMMA KnownStep ==
    ASSUME TypeOK, OwnWorkers, UsedIsKnown, Kind
    PROVE  UsedIsKnown'
<1>1. CASE Registers
  <2> PICK r \in Calls : Register(r)
    BY <1>1 DEF Registers
  <2>1. UNCHANGED closing /\ workers' = [workers EXCEPT ![DaemonOf[r]] = @ \cup {r}]
    BY DEF Register, fencing
  <2>2. \A c \in Calls : Registered(c) => Registered(c)'
    BY <2>1, Homes DEF TypeOK, Registered
  <2>3. Registered(r)'
    BY <2>1, Homes DEF TypeOK, Registered
  <2>4. \A c \in Calls : c # r => InUse(c)' = InUse(c)
    BY DEF Register, Move, At, Goto, TypeOK, InUse
  <2> QED  BY <2>1, <2>2, <2>3, <2>4 DEF UsedIsKnown
<1>2. CASE NoNewUse /\ UNCHANGED <<invalid, workers, inv, closing>>
  BY <1>2 DEF NoNewUse, UsedIsKnown, Registered
<1>3. CASE NoNewUse /\ Unregisters
  <2> PICK u \in Calls : /\ ~InUse(u)'
                         /\ workers' = [workers EXCEPT ![DaemonOf[u]] = @ \ {u}]
                         /\ UNCHANGED closing
    BY <1>3 DEF Unregisters
  <2>1. \A c \in Calls : c # u /\ Registered(c) => Registered(c)'
    BY Homes DEF TypeOK, Registered
  <2> QED  BY <1>3, <2>1 DEF NoNewUse, UsedIsKnown
<1>4. CASE NoNewUse /\ Takes
  <2> PICK e \in Actors : Take(e)
    BY <1>4 DEF Takes
  <2>1. \A c \in Calls : Registered(c) => Registered(c)' \/ c \in closing'[e]
    BY Homes DEF Take, TypeOK, Registered
  <2>2. \A f \in Actors : closing[f] \subseteq closing'[f]
    BY DEF Take, TypeOK
  <2> QED  BY <1>4, <2>1, <2>2 DEF NoNewUse, UsedIsKnown
<1>5. CASE NoNewUse /\ Closes
  <2> PICK e \in Actors, k \in Calls : CloseTaken(e, k)
    BY <1>5 DEF Closes
  <2>1. ~InUse(k)'
    BY DEF CloseTaken, TypeOK, InUse
  <2>2. \A f \in Actors, c \in Calls : c # k /\ c \in closing[f] => c \in closing'[f]
    BY DEF CloseTaken, TypeOK
  <2>3. \A c \in Calls : Registered(c) => Registered(c)'
    BY DEF CloseTaken, factory, Registered
  <2> QED  BY <1>5, <2>1, <2>2, <2>3 DEF NoNewUse, UsedIsKnown
<1>6. CASE NoNewUse /\ (Finishes \/ Flags)
  BY <1>6 DEF NoNewUse, UsedIsKnown, Registered, Finishes, Finished, Flags, Flag
<1>7. CASE NoNewUse /\ Exits
  <2> PICK d \in Daemons : Exit(d)
    BY <1>7 DEF Exits
  <2>1. \A c \in Calls : DaemonOf[c] = d => ~InUse(c)'
    BY DEF Exit, TypeOK, InUse
  <2>2. \A c \in Calls : DaemonOf[c] # d /\ Registered(c) => Registered(c)'
    BY Homes DEF Exit, TypeOK, Registered
  <2>3. \A e \in Actors : HomeOf(e) # d => closing'[e] = closing[e]
    BY DEF Exit, TypeOK
  <2>4. \A c \in Calls, e \in Actors : c \in closing[e] => HomeOf(e) = DaemonOf[c]
    BY DEF OwnWorkers
  <2> QED  BY <1>7, <2>1, <2>2, <2>3, <2>4 DEF NoNewUse, UsedIsKnown
<1> QED  BY <1>1, <1>2, <1>3, <1>4, <1>5, <1>6, <1>7 DEF Kind

\* The flag of an invalid factory with workers is answered for: workers are
\* registered only while it is valid, and Take leaves none.
LEMMA FlagStep ==
    ASSUME TypeOK, FlaggedTakes, Kind
    PROVE  FlaggedTakes'
<1> SUFFICES ASSUME NEW d \in Daemons, invalid'[d], workers'[d] # {}
             PROVE  \E e \in Actors : HomeOf(e) = d /\ inv'[e] = "flagged"
  BY DEF FlaggedTakes
<1>1. CASE Registers
  <2> PICK r \in Calls : Register(r)
    BY <1>1 DEF Registers
  <2>1. invalid' = invalid /\ inv' = inv /\ DaemonOf[r] # d
    BY DEF Register, fencing
  <2>2. workers'[d] = workers[d]
    BY <2>1 DEF Register, TypeOK
  <2> QED  BY <2>1, <2>2 DEF FlaggedTakes
<1>2. CASE UNCHANGED <<invalid, workers, inv, closing>>
  BY <1>2 DEF FlaggedTakes
<1>3. CASE Unregisters
  <2>1. workers[d] # {} /\ UNCHANGED <<invalid, inv>>
    BY <1>3, Homes DEF Unregisters, TypeOK
  <2> QED  BY <2>1 DEF FlaggedTakes
<1>4. CASE Takes
  <2> PICK e \in Actors : Take(e)
    BY <1>4 DEF Takes
  <2>1. HomeOf(e) # d /\ workers'[d] = workers[d] /\ invalid' = invalid
    BY Homes DEF Take, TypeOK
  <2>2. \A f \in Actors : f # e => inv'[f] = inv[f]
    BY DEF Take, TypeOK
  <2> QED  BY <2>1, <2>2 DEF FlaggedTakes
<1>5. CASE Closes
  BY <1>5 DEF Closes, CloseTaken, factory, FlaggedTakes
<1>6. CASE Finishes
  <2> PICK e \in Actors : Invalidated(e) /\ Finished(e) /\ UNCHANGED <<invalid, workers>>
    BY <1>6 DEF Finishes
  <2>1. inv[e] # "flagged"
    BY DEF Invalidated
  <2>2. \A f \in Actors : f # e => inv'[f] = inv[f]
    BY DEF Finished, TypeOK
  <2> QED  BY <2>1, <2>2 DEF FlaggedTakes
<1>7. CASE Flags
  <2> PICK e \in Actors : Flag(e)
    BY <1>7 DEF Flags
  <2>1. inv'[e] = "flagged" /\ \A f \in Actors : f # e => inv'[f] = inv[f]
    BY DEF Flag, TypeOK
  <2>2. CASE HomeOf(e) = d
    BY <2>1, <2>2
  <2>3. CASE HomeOf(e) # d
    <3>1. invalid[d] /\ workers[d] # {}
      BY <2>3, Homes DEF Flag, TypeOK
    <3> QED  BY <3>1, <2>1 DEF FlaggedTakes
  <2> QED  BY <2>2, <2>3
<1>8. CASE Exits
  <2> PICK x \in Daemons : Exit(x)
    BY <1>8 DEF Exits
  <2>1. x # d /\ invalid[d] /\ workers[d] # {}
    BY DEF Exit, TypeOK
  <2>2. \A f \in Actors : HomeOf(f) = d => inv'[f] = inv[f]
    BY <2>1 DEF Exit, TypeOK
  <2> QED  BY <2>1, <2>2 DEF FlaggedTakes
<1> QED  BY <1>1, <1>2, <1>3, <1>4, <1>5, <1>6, <1>7, <1>8 DEF Kind

-----------------------------------------------------------------------------
(* The manifest *)

\* What a call runs and sends stays of the manifest it is bound to.
LEMMA BoundStep ==
    ASSUME TypeOK, Bound, Next
    PROVE  Bound'
<1>c. ASSUME NEW c \in Calls,
             Begin(c) \/ Cancel(c) \/ CallStep(c) \/ WorkerStep(c) \/ MonitorStep(c)
      PROVE  Bound'
  <2>1. CASE Begin(c)
    BY Homes, <2>1 DEF
      Begin, At, Goto, Move, daemon, TypeOK, Bound, OffIsIdle, RunsAdmitted,
      SentIsOfManifest
  <2>2. CASE Cancel(c)
    BY Homes, <2>2 DEF
      Cancel, At, Goto, Move, env, daemon, TypeOK, Bound, OffIsIdle, RunsAdmitted,
      SentIsOfManifest
  <2>3. CASE Check(c)
    BY Homes, <2>3 DEF
      Check, Move, At, Goto, env, daemon, TypeOK, Bound, OffIsIdle, RunsAdmitted,
      SentIsOfManifest
  <2>4. CASE CheckRefuses(c)
    BY Homes, <2>4 DEF
      CheckRefuses, At, Goto, Move, Return, env, TypeOK, Bound, OffIsIdle, RunsAdmitted,
      SentIsOfManifest
  <2>5. CASE Renew(c)
    BY Homes, <2>5 DEF
      Renew, Move, At, Goto, env, daemon, TypeOK, Bound, OffIsIdle, RunsAdmitted,
      SentIsOfManifest
  <2>6. CASE RenewRefused(c)
    BY Homes, <2>6 DEF
      RenewRefused, At, Goto, Move, env, daemon, TypeOK, Bound, OffIsIdle, RunsAdmitted,
      SentIsOfManifest
  <2>7. CASE RefusedReturns(c)
    BY Homes, <2>7 DEF
      RefusedReturns, At, Goto, Move, Return, env, TypeOK, Bound, OffIsIdle, RunsAdmitted,
      SentIsOfManifest
  <2>8. CASE LoadBundle(c)
    BY Homes, <2>8 DEF
      LoadBundle, Move, At, Goto, env, daemon, TypeOK, Bound, OffIsIdle, RunsAdmitted,
      SentIsOfManifest
  <2>9. CASE Admit(c)
    BY Homes, <2>9 DEF
      Admit, Move, At, Goto, env, daemon, TypeOK, Bound, OffIsIdle, RunsAdmitted,
      SentIsOfManifest
  <2>10. CASE StartFails(c)
    BY Homes, <2>10 DEF
      StartFails, At, Goto, Move, Return, ChildTree, env, TypeOK, Bound, OffIsIdle,
      RunsAdmitted, SentIsOfManifest
  <2>11. CASE HandshakeTimeout(c)
    BY Homes, <2>11 DEF
      HandshakeTimeout, At, Goto, Move, Return, env, TypeOK, Bound, OffIsIdle,
      RunsAdmitted, SentIsOfManifest
  <2>12. CASE Register(c)
    BY Homes, <2>12 DEF
      Register, Move, At, Goto, env, daemon, TypeOK, Bound, OffIsIdle, RunsAdmitted,
      SentIsOfManifest
  <2>13. CASE RegisterFails(c)
    BY Homes, <2>13 DEF
      RegisterFails, At, Goto, Move, Return, env, TypeOK, Bound, OffIsIdle, RunsAdmitted,
      SentIsOfManifest
  <2>14. CASE Request(c)
    BY Homes, <2>14 DEF
      Request, Move, At, Goto, env, daemon, TypeOK, Bound, OffIsIdle, RunsAdmitted,
      SentIsOfManifest
  <2>15. CASE RequestFails(c)
    BY Homes, <2>15 DEF
      RequestFails, Move, At, Goto, env, daemon, TypeOK, Bound, OffIsIdle, RunsAdmitted,
      SentIsOfManifest
  <2>16. CASE TakeReply(c)
    BY Homes, <2>16 DEF
      TakeReply, Move, At, Goto, env, daemon, TypeOK, Bound, OffIsIdle, RunsAdmitted,
      SentIsOfManifest
  <2>17. CASE TransportFails(c)
    BY Homes, <2>17 DEF
      TransportFails, Move, At, Goto, env, daemon, TypeOK, Bound, OffIsIdle, RunsAdmitted,
      SentIsOfManifest
  <2>18. CASE Unregister(c)
    BY Homes, <2>18 DEF
      Unregister, Move, At, Goto, env, daemon, TypeOK, Bound, OffIsIdle, RunsAdmitted,
      SentIsOfManifest
  <2>19. CASE CloseSession(c)
    BY Homes, <2>19 DEF
      CloseSession, At, Goto, Move, Return, env, TypeOK, Bound, OffIsIdle, RunsAdmitted,
      SentIsOfManifest
  <2>20. CASE ChildAdmits(c)
    BY Homes, <2>20 DEF
      ChildAdmits, Move, At, Goto, ChildTree, env, daemon, TypeOK, Bound, OffIsIdle,
      RunsAdmitted, SentIsOfManifest
  <2>21. CASE ChildStarts(c)
    BY Homes, <2>21 DEF
      ChildStarts, Move, At, Goto, ChildTree, env, daemon, TypeOK, Bound, OffIsIdle,
      RunsAdmitted, SentIsOfManifest
  <2>22. CASE Reply(c)
    BY Homes, <2>22 DEF
      Reply, Move, At, Goto, env, daemon, TypeOK, Bound, OffIsIdle, RunsAdmitted,
      SentIsOfManifest
  <2>23. CASE ChildDies(c)
    BY Homes, <2>23 DEF
      ChildDies, env, daemon, TypeOK, Bound, OffIsIdle, RunsAdmitted, SentIsOfManifest
  <2>24. CASE MonitorTick(c)
    BY Homes, <2>24 DEF
      MonitorTick, env, daemon, TypeOK, Bound, OffIsIdle, RunsAdmitted, SentIsOfManifest
  <2>25. CASE MonitorRenews(c)
    BY Homes, <2>25 DEF
      MonitorRenews, env, daemon, TypeOK, Bound, OffIsIdle, RunsAdmitted, SentIsOfManifest
  <2>26. CASE MonitorRefused(c)
    BY Homes, <2>26 DEF
      MonitorRefused, env, daemon, TypeOK, Bound, OffIsIdle, RunsAdmitted, SentIsOfManifest
  <2>27. CASE MonitorCloses(c)
    BY Homes, <2>27 DEF
      MonitorCloses, env, daemon, TypeOK, Bound, OffIsIdle, RunsAdmitted, SentIsOfManifest
  <2>28. CASE MonitorEnds(c)
    BY Homes, <2>28 DEF
      MonitorEnds, env, daemon, TypeOK, Bound, OffIsIdle, RunsAdmitted, SentIsOfManifest
  <2> QED
    BY <1>c, <2>1, <2>2, <2>3, <2>4, <2>5, <2>6, <2>7, <2>8, <2>9, <2>10, <2>11, <2>12, <2>13, <2>14,
      <2>15, <2>16, <2>17, <2>18, <2>19, <2>20, <2>21, <2>22, <2>23, <2>24, <2>25, <2>26, <2>27, <2>28 DEF
      CallStep, WorkerStep, MonitorStep
<1>d. ASSUME NEW d \in Daemons,
             \/ Configure(d) \/ ConfigureFails(d) \/ KeeperStep(d)
             \/ Stop(d) \/ ReleaseStep(d) \/ Exit(d)
      PROVE  Bound'
  <2>1. CASE Configure(d)
    BY Homes, <2>1 DEF
      Configure, env, call, TypeOK, Bound, OffIsIdle, RunsAdmitted, SentIsOfManifest
  <2>2. CASE ConfigureFails(d)
    BY Homes, <2>2 DEF
      ConfigureFails, env, call, TypeOK, Bound, OffIsIdle, RunsAdmitted, SentIsOfManifest
  <2>3. CASE KeeperRenews(d)
    BY Homes, <2>3 DEF
      KeeperRenews, env, daemon, call, TypeOK, Bound, OffIsIdle, RunsAdmitted,
      SentIsOfManifest
  <2>4. CASE KeeperRefused(d)
    BY Homes, <2>4 DEF
      KeeperRefused, env, call, TypeOK, Bound, OffIsIdle, RunsAdmitted, SentIsOfManifest
  <2>5. CASE KeeperEnds(d)
    BY Homes, <2>5 DEF
      KeeperEnds, env, call, TypeOK, Bound, OffIsIdle, RunsAdmitted, SentIsOfManifest
  <2>6. CASE Stop(d)
    BY Homes, <2>6 DEF Stop, env, call, TypeOK, Bound, OffIsIdle, RunsAdmitted, SentIsOfManifest
  <2>7. CASE ReleaseInvalidates(d)
    BY Homes, <2>7 DEF
      ReleaseInvalidates, env, call, TypeOK, Bound, OffIsIdle, RunsAdmitted,
      SentIsOfManifest
  <2>8. CASE Release(d)
    BY Homes, <2>8 DEF
      Release, env, call, TypeOK, Bound, OffIsIdle, RunsAdmitted, SentIsOfManifest
  <2>9. CASE Exit(d)
    BY Homes, <2>9 DEF Exit, env, TypeOK, Bound, OffIsIdle, RunsAdmitted, SentIsOfManifest
  <2> QED
    BY <1>d, <2>1, <2>2, <2>3, <2>4, <2>5, <2>6, <2>7, <2>8, <2>9 DEF KeeperStep, ReleaseStep
<1>e. ASSUME NEW e \in Actors, InvalidateStep(e)
      PROVE  Bound'
  <2>1. CASE Take(e)
    BY Homes, <2>1 DEF
      Take, env, daemon, call, TypeOK, Bound, OffIsIdle, RunsAdmitted, SentIsOfManifest
  <2>2. ASSUME NEW c \in Calls, CloseTaken(e, c)
       PROVE  Bound'
    BY Homes, <2>2 DEF
      CloseTaken, env, daemon, TypeOK, Bound, OffIsIdle, RunsAdmitted, SentIsOfManifest
  <2> QED  BY <1>e, <2>1, <2>2 DEF InvalidateStep
<1>l. ASSUME Lapse
     PROVE  Bound'
  BY Homes, <1>l DEF
    Lapse, daemon, call, TypeOK, Bound, OffIsIdle, RunsAdmitted, SentIsOfManifest
<1>t. ASSUME NEW a \in Attempt, TakeOver(a)
     PROVE  Bound'
  BY Homes, <1>t DEF
    TakeOver, env, daemon, call, TypeOK, Bound, OffIsIdle, RunsAdmitted, SentIsOfManifest
<1>r. ASSUME NEW t \in Trees, ReplaceTree(t)
     PROVE  Bound'
  BY Homes, <1>r DEF
    ReplaceTree, daemon, call, TypeOK, Bound, OffIsIdle, RunsAdmitted, SentIsOfManifest
<1> QED  BY <1>c, <1>d, <1>e, <1>l, <1>t, <1>r DEF Next

-----------------------------------------------------------------------------
(* The theorems *)

\* The invariant holds initially.
LEMMA InitInv == Init => IInv
<1> SUFFICES ASSUME Init PROVE IInv
  OBVIOUS
<1>1. TypeOK
  BY InitTypes
<1>2. OwnWorkers
  BY Homes DEF Init, OwnWorkers
<1>3. UsedIsKnown /\ FlaggedTakes
  BY DEF Init, UsedIsKnown, InUse, FlaggedTakes
<1>4. Bound
  BY DEF Init, Bound, OffIsIdle, RunsAdmitted, SentIsOfManifest
<1> QED  BY <1>1, <1>2, <1>3, <1>4 DEF IInv

\* Every step keeps the invariant.
LEMMA StepInv == IInv /\ [Next]_vars => IInv'
<1> SUFFICES ASSUME IInv, [Next]_vars PROVE IInv'
  OBVIOUS
<1>1. CASE Next
  <2>1. Kind
    BY <1>1, Kinds DEF IInv
  <2> QED  BY <1>1, <2>1, TypeStep, OwnStep, KnownStep, FlagStep, BoundStep DEF IInv
<1>2. CASE UNCHANGED vars
  <2> USE <1>2 DEF vars, env, daemon, factory, call, fencing
  <2>1. TypeOK'
    BY DEF IInv, TypeOK
  <2>2. OwnWorkers' /\ UsedIsKnown' /\ FlaggedTakes'
    BY DEF IInv, OwnWorkers, UsedIsKnown, InUse, Registered, FlaggedTakes
  <2>3. Bound'
    BY DEF IInv, Bound, OffIsIdle, RunsAdmitted, SentIsOfManifest
  <2> QED  BY <2>1, <2>2, <2>3 DEF IInv
<1> QED  BY <1>1, <1>2

\* The invariant holds in every reachable state.
LEMMA Invariance == Spec => []IInv
  BY InitInv, StepInv, PTL DEF Spec

\* The types hold at every state.
THEOREM WorkerTypes == Spec => []TypeOK
<1>1. IInv => TypeOK
  BY DEF IInv
<1> QED  BY <1>1, Invariance, PTL

\* Whatever the installer does to the bundle while calls start their workers,
\* vectors are computed by the bundle of the daemon's manifest
\* (onnx_semantic_provider.go:53, onnx_runtime_adapter.go:106).
THEOREM VectorsAreOfTheManifest == Spec => []VectorsOfTheManifest
<1>1. IInv => VectorsOfTheManifest
  BY DEF IInv, Bound, RunsAdmitted, SentIsOfManifest, VectorsOfTheManifest
<1> QED  BY <1>1, Invariance, PTL

\* However many calls, monitors and keepalives invalidate a factory at once,
\* a worker in use afterwards is on the list of one still at work
\* (onnx_provider_factory.go:114-134, :151-160).
THEOREM InvalidationIsComplete == Spec => []InvalidStopsWorkers
<1>1. IInv => InvalidStopsWorkers
  <2> SUFFICES ASSUME IInv, NEW c \in Calls, invalid[DaemonOf[c]], InUse(c)
               PROVE  \E e \in Actors :
                        \/ HomeOf(e) = DaemonOf[c] /\ inv[e] = "flagged" /\ Registered(c)
                        \/ c \in closing[e]
    BY DEF InvalidStopsWorkers
  <2>1. CASE Registered(c)
    <3>1. DaemonOf[c] \in Daemons /\ workers[DaemonOf[c]] # {}
      BY <2>1, Homes DEF Registered
    <3> QED  BY <3>1, <2>1 DEF IInv, FlaggedTakes
  <2>2. CASE ~Registered(c)
    BY <2>2 DEF IInv, UsedIsKnown
  <2> QED  BY <2>1, <2>2
<1> QED  BY <1>1, Invariance, PTL

-----------------------------------------------------------------------------
(* SearchIndex *)

Dimensions == {Lexical, Semantic}
RebuildPC == {"entries", "facts", "build", "semantic", "vectors", "admit", "unlock"}
Drafting == {"facts", "build", "semantic", "vectors", "admit"}
Pairing == {"semantic", "vectors", "admit"}
ClientPC == RebuildPC \cup {"idle", "scanning", "latest", "wait", "latch"}
QueryPC == {"idle", "feed", "verify", "hits", "answered"}

Generation == [dim: Dimensions, root: Root, roots: SUBSET Root, feed: SUBSET Root,
               notes: SUBSET Notes, library: Nat]
ClientState == [pc: ClientPC, root: Root \cup {NoRoot}, scope: SUBSET Root,
                feed: SUBSET Root, notes: SUBSET Notes, failed: BOOLEAN]
QueryState == [pc: QueryPC, gen: Nat, pinned: BOOLEAN, rows: Nat, due: Nat,
               gone: SUBSET Notes, hits: SUBSET Notes]

CatalogTypes ==
  /\ scans \in [Sources -> 0..MaxScans]
  /\ pubs \in Seq(Root) /\ bare \subseteq Published
  /\ notes \in [Notes -> {"absent", "live", "deleted"}]

ProcessTypes ==
  /\ library \in Nat /\ bound \in Nat /\ restarts \in Nat
  /\ library > 0 /\ bound > 0 /\ bound <= library
  /\ library + restarts <= MaxFaults + 1
  /\ started \in BOOLEAN /\ mu \in Clients \cup {Nobody}
  /\ failed \in BOOLEAN /\ unavailable \in BOOLEAN /\ indexReady \in BOOLEAN

Types ==
  /\ CatalogTypes /\ ProcessTypes
  /\ gens \in Seq(Generation) /\ inherited \in Nat /\ inherited <= Len(gens)
  /\ client \in [Clients -> ClientState] /\ query \in [Queriers -> QueryState]

\* Of two roots of one source in S, there is only one.
OneToASource(S) == \A m, n \in S : m[1] = n[1] => m = n

\* S has, of every source of R, a root that is as new.
Covers(S, R) == \A r \in R : \E n \in S : n[1] = r[1] /\ n[2] >= r[2]

\* A dimension that has generations has a last one.
HasLatest(dim) == Of(dim) # {} => \E i \in Of(dim) : \A j \in Of(dim) : j <= i

\* The latest roots are the maxima that ListLatestNamespaceRoots selects; and
\* whatever was indexed, was published.
Indexed ==
  /\ Covers(LatestRoots, Published)
  /\ \A i \in DOMAIN gens : gens[i].roots \subseteq Published
  /\ GenerationIsOneFeed
  /\ GenerationsNeverRegress
  /\ HasLatest(Lexical) /\ HasLatest(Semantic)
  /\ verified \subseteq Of(Semantic) /\ passed \subseteq Of(Semantic)

\* The latest semantic generation is one this process has verified.
Evident ==
  /\ LatestIndexGeneration(Semantic) \in passed
  /\ gens[LatestIndexGeneration(Semantic)].library = bound

\* Generation i was built from what the rebuild of c has read.
IsOf(i, c) ==
  /\ gens[i].root = client[c].root /\ gens[i].roots = client[c].scope
  /\ gens[i].feed = client[c].feed /\ gens[i].notes = client[c].notes

\* A rebuild holds the mutex, and what it has read covers every generation
\* there is: nobody else inserts one.
Rebuilds(c) ==
  /\ client[c].pc \in RebuildPC =>
       /\ mu = c
       /\ client[c].scope \subseteq Published
       /\ OneToASource(client[c].scope)
       /\ \A i \in DOMAIN gens : Covers(client[c].scope, gens[i].roots)
  /\ client[c].pc \in {"scanning", "wait"} \cup RebuildPC => client[c].root \in Root
  /\ client[c].pc \in Drafting =>
       /\ client[c].feed \subseteq client[c].scope /\ client[c].root \in client[c].scope
       /\ \A r \in client[c].scope \ client[c].feed : Emptied(r)
  /\ client[c].pc \in Pairing => Of(Lexical) # {} /\ IsOf(LatestIndexGeneration(Lexical), c)
  /\ client[c].pc = "admit" => Of(Semantic) # {} /\ IsOf(LatestIndexGeneration(Semantic), c)
  /\ client[c].pc \in {"vectors", "admit"} => ~indexReady
  /\ client[c].pc = "admit" => Evident
  /\ ~started => client[c].pc = "idle"

\* Between the rebuilds of this process, unless the semantic half of the last
\* one failed, the latest generations of the two dimensions are of one feed.
Paired ==
  /\ LatestIndexGeneration(Lexical) > inherited
  /\ ~unavailable
  /\ \A c \in Clients : client[c].pc \notin Pairing
  => /\ Of(Semantic) # {}
     /\ SameFeed(LatestIndexGeneration(Lexical), LatestIndexGeneration(Semantic))

\* The feed the query was compared with was the latest while it ran.
Fed(q) ==
  \E i \in Of(Lexical) :
    /\ gens[i].root = gens[query[q].gen].root
    /\ \A j \in Of(Lexical) : i < j => j > query[q].rows

Queries(q) ==
  /\ query[q].pc = "idle" => query[q].gen = 0
  /\ query[q].pc # "idle" => query[q].gen \in Of(Semantic) /\ query[q].rows <= Len(gens)
  /\ query[q].pc # "idle" /\ ~query[q].pinned /\ query[q].due # 0 =>
       query[q].due \in DOMAIN gens /\ SameFeed(query[q].due, query[q].gen)
  /\ \A n \in query[q].gone : notes[n] = "deleted"
  /\ query[q].hits \cap query[q].gone = {}
  /\ query[q].pc \in {"verify", "hits", "answered"} /\ ~query[q].pinned => Fed(q)

IndexInv ==
  /\ Types
  /\ Indexed
  /\ indexReady => Evident
  /\ Paired
  /\ \A c \in Clients : Rebuilds(c)
  /\ \A q \in Queriers : Queries(q)

-----------------------------------------------------------------------------
(* Generations *)

LEMMA LatestIs ==
    ASSUME NEW dim, HasLatest(dim), gens \in Seq(Generation)
    PROVE  /\ Of(dim) = {} <=> LatestIndexGeneration(dim) = 0
           /\ Of(dim) # {} =>
                /\ LatestIndexGeneration(dim) \in Of(dim)
                /\ \A j \in Of(dim) : j <= LatestIndexGeneration(dim)
<1>1. Of(dim) \subseteq DOMAIN gens /\ 0 \notin DOMAIN gens
  BY DEF Of
<1>2. CASE Of(dim) = {}
  BY <1>2 DEF LatestIndexGeneration
<1>3. CASE Of(dim) # {}
  <2>1. \E i \in Of(dim) : \A j \in Of(dim) : j <= i
    BY <1>3 DEF HasLatest
  <2>2. /\ LatestIndexGeneration(dim) \in Of(dim)
        /\ \A j \in Of(dim) : j <= LatestIndexGeneration(dim)
    BY <1>3, <2>1 DEF LatestIndexGeneration
  <2> QED  BY <1>1, <1>3, <2>2
<1> QED  BY <1>2, <1>3

\* A generation is added.
LEMMA Added ==
    ASSUME gens \in Seq(Generation), NEW g \in Generation, gens' = Append(gens, g)
    PROVE  /\ gens' \in Seq(Generation) /\ Len(gens') = Len(gens) + 1 /\ Len(gens) \in Nat
           /\ DOMAIN gens' = DOMAIN gens \cup {Len(gens) + 1}
           /\ \A i \in DOMAIN gens : gens'[i] = gens[i] /\ i < Len(gens) + 1 /\ i \in Nat
           /\ gens'[Len(gens) + 1] = g
           /\ \A dim : Of(dim)' = IF g.dim = dim THEN Of(dim) \cup {Len(gens) + 1}
                                                  ELSE Of(dim)
<1>1. /\ gens' \in Seq(Generation) /\ Len(gens') = Len(gens) + 1 /\ Len(gens) \in Nat
      /\ DOMAIN gens' = 1..(Len(gens) + 1) /\ DOMAIN gens = 1..Len(gens)
      /\ \A i \in DOMAIN gens : gens'[i] = gens[i]
      /\ gens'[Len(gens) + 1] = g
  OBVIOUS
<1>2. DOMAIN gens' = DOMAIN gens \cup {Len(gens) + 1}
  BY <1>1
<1>3. \A i \in DOMAIN gens : gens'[i] = gens[i] /\ i < Len(gens) + 1 /\ i \in Nat
  BY <1>1
<1>4. ASSUME NEW dim
      PROVE  Of(dim)' = IF g.dim = dim THEN Of(dim) \cup {Len(gens) + 1} ELSE Of(dim)
  BY <1>1, <1>2, <1>3 DEF Of
<1> QED  BY <1>1, <1>2, <1>3, <1>4

LEMMA AddedLatest ==
    ASSUME gens \in Seq(Generation), NEW g \in Generation, gens' = Append(gens, g),
           NEW dim, HasLatest(dim)
    PROVE  /\ HasLatest(dim)'
           /\ LatestIndexGeneration(dim)' =
                IF g.dim = dim THEN Len(gens) + 1 ELSE LatestIndexGeneration(dim)
<1>1. Of(dim) \subseteq DOMAIN gens
  BY DEF Of
<1>2. CASE g.dim = dim
  <2>1. /\ Len(gens) + 1 \in Of(dim)'
        /\ \A j \in Of(dim)' : j <= Len(gens) + 1
    BY <1>1, <1>2, Added
  <2>2. HasLatest(dim)'
    BY <2>1 DEF HasLatest
  <2>3. Of(dim)' \subseteq Nat /\ Len(gens) + 1 \in Nat
    BY <1>1, <1>2, Added
  <2>4. \A i \in Of(dim)' : (\A j \in Of(dim)' : j <= i) => i = Len(gens) + 1
    BY <2>1, <2>3
  <2>5. LatestIndexGeneration(dim)' = Len(gens) + 1
    BY <2>1, <2>4 DEF LatestIndexGeneration
  <2> QED  BY <1>2, <2>2, <2>5
<1>3. CASE g.dim # dim
  <2>1. Of(dim)' = Of(dim)
    BY <1>3, Added
  <2> QED  BY <1>3, <2>1 DEF HasLatest, LatestIndexGeneration
<1> QED  BY <1>2, <1>3

-----------------------------------------------------------------------------
(* Roots *)

LEMMA PublishedRoots ==
    ASSUME pubs \in Seq(Root)
    PROVE  /\ Published \subseteq Root /\ LatestRoots \subseteq Published
           /\ OneToASource(LatestRoots)
<1>1. Published \subseteq Root
  BY DEF Published
<1>2. LatestRoots \subseteq Published
  BY DEF LatestRoots
<1>3. ASSUME NEW m \in LatestRoots, NEW n \in LatestRoots, m[1] = n[1]
      PROVE  m = n
  <2>1. m[2] <= n[2] /\ n[2] <= m[2]
    BY <1>3 DEF LatestRoots
  <2>2. m \in Sources \X (1..MaxScans) /\ n \in Sources \X (1..MaxScans)
    BY <1>1, <1>2 DEF Root
  <2>3. m[2] \in Int /\ n[2] \in Int
    BY <2>2, SearchAssumption
  <2> QED  BY <1>3, <2>1, <2>2, <2>3
<1> QED  BY <1>1, <1>2, <1>3 DEF OneToASource

\* A root of the scope that has no entries among those of the scope is of a
\* source that was published empty.
LEMMA EntriesOfTheScope ==
    ASSUME Covers(LatestRoots, Published),
           NEW S \in SUBSET Published, OneToASource(S), LatestEntries \subseteq S,
           NEW r \in S \ LatestEntries
    PROVE  Emptied(r)
<1>1. PICK n \in LatestRoots : n[1] = r[1] /\ n[2] >= r[2]
  BY DEF Covers
<1>2. CASE n \in bare
  BY <1>1, <1>2 DEF Emptied
<1>3. CASE n \notin bare
  <2>1. n \in LatestEntries
    BY <1>3 DEF LatestEntries
  <2>2. n = r
    BY <1>1, <2>1 DEF OneToASource
  <2> QED  BY <2>1, <2>2
<1> QED  BY <1>2, <1>3

LEMMA CoversPublished ==
    ASSUME pubs \in Seq(Root), NEW r \in Root, pubs' = Append(pubs, r),
           Covers(LatestRoots, Published)
    PROVE  /\ Published' = Published \cup {r} /\ pubs' \in Seq(Root)
           /\ Covers(LatestRoots, Published)'
<1>1. Published' = Published \cup {r} /\ pubs' \in Seq(Root)
  BY DEF Published
<1>2. \A n \in Published' : n[2] \in Int
  BY <1>1, PublishedRoots, SearchAssumption DEF Root
<1>3. ASSUME NEW p \in Published'
      PROVE  \E n \in LatestRoots' : n[1] = p[1] /\ n[2] >= p[2]
  <2>1. CASE \E n \in LatestRoots : n[1] = r[1] /\ n[2] >= r[2]
    <3>1. LatestRoots \subseteq LatestRoots'
      BY <1>1, <1>2, <2>1, PublishedRoots DEF LatestRoots
    <3> QED  BY <1>1, <1>3, <2>1, <3>1 DEF Covers
  <2>2. CASE ~\E n \in LatestRoots : n[1] = r[1] /\ n[2] >= r[2]
    <3>1. \A n \in Published : n[1] = r[1] => n[2] < r[2]
      <4> SUFFICES ASSUME NEW n \in Published, n[1] = r[1]
                   PROVE  n[2] < r[2]
        OBVIOUS
      <4>1. PICK m \in LatestRoots : m[1] = n[1] /\ m[2] >= n[2]
        BY DEF Covers
      <4>2. ~(m[2] >= r[2]) /\ m \in Published'
        BY <1>1, <2>2, <4>1, PublishedRoots
      <4> QED  BY <1>1, <1>2, <4>1, <4>2
    <3>2. r \in LatestRoots'
      BY <1>1, <1>2, <3>1 DEF LatestRoots
    <3>3. CASE p[1] = r[1]
      BY <1>1, <1>2, <1>3, <3>1, <3>2, <3>3
    <3>4. CASE p[1] # r[1]
      <4>1. PICK n \in LatestRoots : n[1] = p[1] /\ n[2] >= p[2]
        BY <1>1, <1>3, <3>4 DEF Covers
      <4>2. n \in LatestRoots'
        BY <1>1, <3>4, <4>1 DEF LatestRoots
      <4> QED  BY <4>1, <4>2
    <3> QED  BY <3>3, <3>4
  <2> QED  BY <2>1, <2>2
<1> QED  BY <1>1, <1>3 DEF Covers

-----------------------------------------------------------------------------
(* Steps of one client, and of one query *)

\* The client's next state is x, and the others' are as they were.
Goes(c, x) ==
  /\ client' \in [Clients -> ClientState] /\ client'[c] = x
  /\ \A d \in Clients \ {c} : client'[d] = client[d]

LEMMA ClientGoes ==
    ASSUME Types, NEW c \in Clients, NEW x \in ClientState,
           client' = [client EXCEPT ![c] = x]
    PROVE  Goes(c, x)
  BY DEF Types, Goes

LEMMA StepGoes ==
    ASSUME Types, NEW c \in Clients, NEW from, NEW to \in ClientPC, Step(c, from, to)
    PROVE  /\ client[c].pc = from
           /\ Goes(c, [client[c] EXCEPT !.pc = to])
<1>1. client[c] \in ClientState
  BY DEF Types
<1>2. [client[c] EXCEPT !.pc = to] \in ClientState
  BY <1>1 DEF ClientState
<1>3. client' = [client EXCEPT ![c] = [client[c] EXCEPT !.pc = to]]
  BY DEF Step
<1> QED  BY <1>2, <1>3, ClientGoes DEF Step, InPhase

LEMMA RebuildsBeside ==
    ASSUME IndexInv, NEW c \in Clients, client'[c] = client[c],
           Published \subseteq Published', bare \subseteq bare', started => started',
           client[c].pc \in RebuildPC =>
             /\ mu' = mu /\ gens' = gens /\ bound' = bound
             /\ passed \subseteq passed' /\ (indexReady' => indexReady)
    PROVE  Rebuilds(c)'
<1>1. Rebuilds(c)
  BY DEF IndexInv
<1>2. CASE client[c].pc \in RebuildPC
  <2>1. \A dim : /\ Of(dim)' = Of(dim)
                 /\ LatestIndexGeneration(dim)' = LatestIndexGeneration(dim)
    <3>1. gens' = gens
      BY <1>2
    <3> QED  BY <3>1 DEF LatestIndexGeneration, Of
  <2>4. Evident => Evident'
    BY <1>2, <2>1 DEF Evident
  <2>2. /\ IsOf(LatestIndexGeneration(Lexical), c) => IsOf(LatestIndexGeneration(Lexical), c)'
        /\ IsOf(LatestIndexGeneration(Semantic), c) => IsOf(LatestIndexGeneration(Semantic), c)'
    BY <1>2, <2>1 DEF IsOf
  <2>3. \A r : Emptied(r) => Emptied(r)'
    BY DEF Emptied
  <2> QED  BY <1>1, <1>2, <2>1, <2>2, <2>3, <2>4 DEF Rebuilds
<1>3. CASE client[c].pc \notin RebuildPC
  BY <1>1, <1>3 DEF Rebuilds, RebuildPC, Drafting, Pairing
<1> QED  BY <1>2, <1>3

\* The generations are as they were, or one is added.
Grows == gens' = gens \/ \E g \in Generation : gens' = Append(gens, g)

LEMMA GensGrow ==
    ASSUME gens \in Seq(Generation), Grows
    PROVE  /\ gens' \in Seq(Generation) /\ Len(gens') >= Len(gens) /\ Len(gens) \in Nat
           /\ Len(gens') \in Nat
           /\ \A i \in DOMAIN gens : i \in DOMAIN gens' /\ gens'[i] = gens[i]
           /\ \A dim : Of(dim) \subseteq Of(dim)'
           /\ \A dim : \A j \in Of(dim)' : j \in Of(dim) \/ j > Len(gens)
<1>1. CASE gens' = gens
  BY <1>1 DEF Of
<1>2. CASE \E g \in Generation : gens' = Append(gens, g)
  <2>1. PICK g \in Generation : gens' = Append(gens, g)
    BY <1>2
  <2>2. /\ gens' \in Seq(Generation) /\ Len(gens') = Len(gens) + 1 /\ Len(gens) \in Nat
        /\ DOMAIN gens' = DOMAIN gens \cup {Len(gens) + 1}
        /\ \A i \in DOMAIN gens : gens'[i] = gens[i]
    BY <2>1, Added
  <2>3. ASSUME NEW dim
        PROVE  Of(dim)' = Of(dim) \/ Of(dim)' = Of(dim) \cup {Len(gens) + 1}
    BY <2>1, Added
  <2> QED  BY <2>2, <2>3
<1> QED  BY <1>1, <1>2 DEF Grows

LEMMA QueriesBeside ==
    ASSUME IndexInv, NEW q \in Queriers, query'[q] = query[q], Grows,
           \A n \in Notes : notes[n] = "deleted" => notes'[n] = "deleted"
    PROVE  Queries(q)'
<1>1. Queries(q) /\ gens \in Seq(Generation) /\ query[q] \in QueryState
  BY DEF IndexInv, Types
<1>2. query[q].rows \in Nat /\ query[q].gen \in Nat /\ query[q].gone \subseteq Notes
  BY <1>1 DEF QueryState
<1>3. Of(Semantic) \subseteq DOMAIN gens /\ Of(Lexical) \subseteq DOMAIN gens
  BY DEF Of
<1>4. /\ query[q].pc # "idle" => query[q].gen \in Of(Semantic)' /\ query[q].rows <= Len(gens')
      /\ query[q].pc # "idle" /\ ~query[q].pinned /\ query[q].due # 0 =>
           query[q].due \in DOMAIN gens' /\ SameFeed(query[q].due, query[q].gen)'
      /\ \A n \in query[q].gone : notes'[n] = "deleted"
  <2>1. query[q].pc # "idle" => query[q].gen \in Of(Semantic)' /\ query[q].rows <= Len(gens')
    BY <1>1, <1>2, GensGrow DEF Queries
  <2>2. ASSUME query[q].pc # "idle", ~query[q].pinned, query[q].due # 0
        PROVE  query[q].due \in DOMAIN gens' /\ SameFeed(query[q].due, query[q].gen)'
    <3>1. /\ query[q].due \in DOMAIN gens /\ SameFeed(query[q].due, query[q].gen)
          /\ query[q].gen \in DOMAIN gens
      BY <1>1, <1>3, <2>2 DEF Queries
    <3>2. /\ query[q].due \in DOMAIN gens'
          /\ gens'[query[q].due] = gens[query[q].due] /\ gens'[query[q].gen] = gens[query[q].gen]
      BY <1>1, <3>1, GensGrow
    <3> QED  BY <3>1, <3>2 DEF SameFeed
  <2>3. \A n \in query[q].gone : notes'[n] = "deleted"
    BY <1>1, <1>2 DEF Queries
  <2> QED  BY <2>1, <2>2, <2>3
<1>5. ASSUME query[q].pc # "idle", Fed(q)
      PROVE  Fed(q)'
  <2>1. PICK i \in Of(Lexical) :
          /\ gens[i].root = gens[query[q].gen].root
          /\ \A j \in Of(Lexical) : i < j => j > query[q].rows
    BY <1>5 DEF Fed
  <2>2. gens'[i] = gens[i] /\ gens'[query[q].gen] = gens[query[q].gen] /\ i \in Of(Lexical)'
    BY <1>1, <1>3, <1>5, GensGrow DEF Queries
  <2>3. query[q].rows <= Len(gens) /\ Len(gens) \in Nat
    BY <1>1, <1>5, GensGrow DEF Queries
  <2>4. ASSUME NEW j \in Of(Lexical)', i < j
        PROVE  j > query[q].rows
    <3>1. j \in Of(Lexical) \/ j > Len(gens)
      BY <1>1, GensGrow
    <3>2. j \in Nat
      BY <1>1, GensGrow DEF Of
    <3> QED  BY <1>2, <2>1, <2>3, <2>4, <3>1, <3>2
  <2> QED  BY <2>1, <2>2, <2>4 DEF Fed
<1>6. query[q].pc \in {"verify", "hits", "answered"} /\ ~query[q].pinned => Fed(q)'
  BY <1>1, <1>5 DEF Queries
<1> QED  BY <1>1, <1>4, <1>6 DEF Queries

LEMMA IndexedSame ==
    ASSUME Indexed, UNCHANGED <<pubs, gens>>, bare \subseteq bare',
           verified' \subseteq Of(Semantic), passed' \subseteq Of(Semantic)
    PROVE  Indexed'
<1>1. \A dim : Of(dim)' = Of(dim)
  BY DEF Of
<1>2. Published' = Published /\ LatestRoots' = LatestRoots
  BY DEF Published, LatestRoots
<1>3. GenerationIsOneFeed'
  <2>1. \A r : Emptied(r) => Emptied(r)'
    BY DEF Emptied
  <2> QED  BY <2>1 DEF Indexed, GenerationIsOneFeed
<1> QED  BY <1>1, <1>2, <1>3 DEF Indexed, Covers, GenerationsNeverRegress, HasLatest

LEMMA PairedSame ==
    ASSUME Paired, UNCHANGED <<gens, inherited, unavailable>>,
           (\A c \in Clients : client'[c].pc \notin Pairing) =>
             \A c \in Clients : client[c].pc \notin Pairing
    PROVE  Paired'
<1>1. \A dim : /\ Of(dim)' = Of(dim)
               /\ LatestIndexGeneration(dim)' = LatestIndexGeneration(dim)
  BY DEF Of, LatestIndexGeneration
<1> QED  BY <1>1 DEF Paired, SameFeed

\* A step of a client that leaves generations, evidence and queries alone.
LEMMA ClientStep ==
    ASSUME IndexInv, NEW c \in Clients, CatalogTypes', Goes(c, client'[c]), Rebuilds(c)',
           client[c].pc \notin Pairing,
           UNCHANGED <<pubs, bare, gens, process, failed, health, query>>,
           mu' = mu \/ (mu' \in Clients \cup {Nobody} /\ mu \in {Nobody, c}),
           \A n \in Notes : notes[n] = "deleted" => notes'[n] = "deleted"
    PROVE  IndexInv'
<1>1. Types'
  BY DEF IndexInv, Types, ProcessTypes, process, health, Goes
<1>2. Indexed'
  BY IndexedSame DEF IndexInv, Indexed, health
<1>3. (indexReady => Evident)'
  BY DEF IndexInv, Evident, LatestIndexGeneration, Of, process, health
<1>4. ASSUME NEW d \in Clients
      PROVE  Rebuilds(d)'
  <2>1. CASE d = c
    BY <2>1
  <2>2. CASE d # c
    <3>1. client'[d] = client[d]
      BY <2>2 DEF Goes
    <3>2. client[d].pc \in RebuildPC => mu = d
      BY DEF IndexInv, Rebuilds
    <3>3. client[d].pc \in RebuildPC => mu' = mu
      BY <2>2, <3>2, NobodyAssumption
    <3> QED  BY <2>2, <3>1, <3>2, <3>3, RebuildsBeside DEF process, health, Published
  <2> QED  BY <2>1, <2>2
<1>5. \A q \in Queriers : Queries(q)'
  BY QueriesBeside DEF Grows
<1>6. Paired'
  BY PairedSame DEF IndexInv, Goes, process, health
<1> QED  BY <1>1, <1>2, <1>3, <1>4, <1>5, <1>6 DEF IndexInv

-----------------------------------------------------------------------------
(* What calls Rebuild *)

LEMMA BeginScanHolds ==
    ASSUME IndexInv, NEW c \in Clients, NEW s \in Sources, BeginScan(c, s)
    PROVE  IndexInv'
<1>1. Types /\ Rebuilds(c)
  BY DEF IndexInv
<1> DEFINE r == <<s, scans[s] + 1>>
           x == [Quiet EXCEPT !.pc = "scanning", !.root = r]
<1>2. scans[s] \in 0..MaxScans /\ scans[s] < MaxScans
  BY <1>1 DEF BeginScan, Types, CatalogTypes
<1>3. r \in Root
  BY <1>2, SearchAssumption DEF Root
<1>4. x \in ClientState
  BY <1>3 DEF Quiet, ClientState, ClientPC
<1>5. client' = [client EXCEPT ![c] = x]
  BY DEF BeginScan
<1>6. Goes(c, x)
  BY <1>1, <1>4, <1>5, ClientGoes
<1>7. scans' = [scans EXCEPT ![s] = scans[s] + 1]
  BY DEF BeginScan
<1>8. CatalogTypes'
  BY <1>1, <1>2, <1>7, SearchAssumption DEF BeginScan, index, Types, CatalogTypes, Published
<1>9. x.pc = "scanning" /\ x.root = r
  BY DEF Quiet
<1>10. Rebuilds(c)'
  BY <1>3, <1>6, <1>9 DEF Goes, Rebuilds, RebuildPC, Drafting, Pairing, BeginScan, index, process
<1>11. client[c].pc \notin Pairing
  BY DEF BeginScan, InPhase, Pairing
<1> QED  BY <1>6, <1>8, <1>10, <1>11, ClientStep DEF BeginScan, index, Goes

LEMMA WriteHolds ==
    ASSUME IndexInv, NEW c \in Clients, NEW n \in Notes,
           WriteNote(c, n) \/ DeleteNote(c, n)
    PROVE  IndexInv'
<1>1. Types /\ Rebuilds(c)
  BY DEF IndexInv
<1>2. client[c].pc = "idle" /\ Goes(c, [client[c] EXCEPT !.pc = "latest"]) /\ started
  BY <1>1, StepGoes DEF WriteNote, DeleteNote, ClientPC
<1>3. client'[c].pc = "latest" /\ client'[c].root = client[c].root
  BY <1>1, <1>2 DEF Goes, Types, ClientState
<1>4. /\ notes' \in [Notes -> {"absent", "live", "deleted"}]
      /\ \A m \in Notes : notes[m] = "deleted" => notes'[m] = "deleted"
  BY <1>1 DEF WriteNote, DeleteNote, Types, CatalogTypes
<1>5. UNCHANGED <<scans, pubs, bare, gens, process, mu, failed, health, query>>
  BY DEF WriteNote, DeleteNote, index
<1>6. CatalogTypes'
  <2>1. Published' = Published /\ bare' = bare
    BY <1>5 DEF Published
  <2> QED  BY <1>1, <1>4, <1>5, <2>1 DEF Types, CatalogTypes
<1>7. Rebuilds(c)'
  BY <1>2, <1>3, <1>5 DEF Rebuilds, RebuildPC, Drafting, Pairing, process
<1>8. Goes(c, client'[c])
  BY <1>2 DEF Goes
<1> QED  BY <1>2, <1>4, <1>5, <1>6, <1>7, <1>8, ClientStep DEF Pairing

LEMMA SearchRebuildHolds ==
    ASSUME IndexInv, NEW c \in Clients, SearchRebuild(c)
    PROVE  IndexInv'
<1>1. Types /\ Rebuilds(c)
  BY DEF IndexInv
<1>2. client[c].pc = "idle" /\ Goes(c, [client[c] EXCEPT !.pc = "latest"]) /\ started
  BY <1>1, StepGoes DEF SearchRebuild, ClientPC
<1>3. client'[c].pc = "latest" /\ Goes(c, client'[c])
  BY <1>1, <1>2 DEF Goes, Types, ClientState
<1>4. UNCHANGED <<catalog, gens, process, mu, failed, health, query>>
  BY DEF SearchRebuild, index
<1>5. CatalogTypes' /\ notes' = notes /\ pubs' = pubs /\ bare' = bare
  BY <1>1, <1>4 DEF Types, CatalogTypes, Published, catalog
<1>6. Rebuilds(c)'
  BY <1>2, <1>3, <1>4 DEF Rebuilds, RebuildPC, Drafting, Pairing, process
<1> QED  BY <1>2, <1>3, <1>4, <1>5, <1>6, ClientStep DEF Pairing

LEMMA RebuildLatestHolds ==
    ASSUME IndexInv, NEW c \in Clients, RebuildLatest(c)
    PROVE  IndexInv'
<1>1. Types /\ Rebuilds(c)
  BY DEF IndexInv
<1>2. /\ client[c].pc = "latest"
      /\ UNCHANGED <<catalog, gens, process, mu, failed, health, query>>
  BY DEF RebuildLatest, index, InPhase
<1>3. started
  BY <1>1, <1>2 DEF Rebuilds
<1>4. PICK x \in ClientState :
        /\ client' = [client EXCEPT ![c] = x]
        /\ x.pc = "idle" \/ (x.pc = "wait" /\ x.root \in Root)
  <2>1. CASE pubs = <<>>
    <3>1. Quiet \in ClientState /\ Quiet.pc = "idle"
      BY DEF Quiet, ClientState, ClientPC
    <3> QED  BY <2>1, <3>1 DEF RebuildLatest
  <2>2. CASE pubs # <<>>
    <3>1. LatestPublication \in Root
      BY <1>1, <2>2 DEF LatestPublication, Last, Types, CatalogTypes
    <3> DEFINE y == [client[c] EXCEPT !.pc = "wait", !.root = LatestPublication]
    <3>2. y \in ClientState /\ y.pc = "wait" /\ y.root \in Root
      BY <1>1, <3>1 DEF Types, ClientState, ClientPC
    <3>3. client' = [client EXCEPT ![c] = y]
      BY <2>2 DEF RebuildLatest
    <3> QED  BY <3>2, <3>3
  <2> QED  BY <2>1, <2>2
<1>5. Goes(c, x) /\ client'[c] = x
  BY <1>1, <1>4, ClientGoes DEF Goes
<1>6. CatalogTypes' /\ notes' = notes /\ pubs' = pubs /\ bare' = bare
  BY <1>1, <1>2 DEF Types, CatalogTypes, Published, catalog
<1>7. Rebuilds(c)'
  BY <1>2, <1>3, <1>4, <1>5 DEF Rebuilds, RebuildPC, Drafting, Pairing, process
<1> QED  BY <1>2, <1>5, <1>6, <1>7, ClientStep DEF Pairing

LEMMA PublishHolds ==
    ASSUME IndexInv, NEW c \in Clients, Publish(c)
    PROVE  IndexInv'
<1>1. Types /\ Rebuilds(c) /\ Indexed
  BY DEF IndexInv
<1>2. client[c].pc = "scanning" /\ Goes(c, [client[c] EXCEPT !.pc = "wait"])
  BY <1>1, StepGoes DEF Publish, ClientPC
<1>3. /\ client'[c].pc = "wait" /\ client'[c].root = client[c].root
      /\ Goes(c, client'[c])
  BY <1>1, <1>2 DEF Goes, Types, ClientState
<1>4. client[c].root \in Root /\ started
  BY <1>1, <1>2 DEF Rebuilds
<1>5. /\ pubs' = Append(pubs, client[c].root)
      /\ bare' \in {bare, bare \cup {client[c].root}}
      /\ UNCHANGED <<scans, notes, gens, process, mu, failed, health, query>>
  BY DEF Publish, index
<1>6. /\ Published' = Published \cup {client[c].root} /\ pubs' \in Seq(Root)
      /\ Covers(LatestRoots, Published)'
  BY <1>1, <1>4, <1>5, CoversPublished DEF Types, CatalogTypes, Indexed
<1>7. Types'
  BY <1>1, <1>3, <1>5, <1>6 DEF Types, CatalogTypes, ProcessTypes, process, health, Goes
<1>8. \A dim : Of(dim)' = Of(dim)
  BY <1>5 DEF Of
<1>14. GenerationIsOneFeed'
  <2>1. \A r : Emptied(r) => Emptied(r)'
    BY <1>5 DEF Emptied
  <2> QED  BY <1>1, <1>5, <2>1 DEF Indexed, GenerationIsOneFeed
<1>9. Indexed'
  BY <1>1, <1>5, <1>6, <1>8, <1>14 DEF Indexed, Covers, GenerationsNeverRegress, HasLatest, health
<1>15. Paired'
  BY <1>2, <1>3, <1>5, PairedSame DEF IndexInv, Pairing, Goes, process, health
<1>10. (indexReady => Evident)'
  BY <1>5 DEF IndexInv, Evident, LatestIndexGeneration, Of, process, health
<1>11. Rebuilds(c)'
  BY <1>3, <1>4, <1>5 DEF Rebuilds, RebuildPC, Drafting, Pairing, process
<1>12. \A d \in Clients \ {c} : Rebuilds(d)'
  BY <1>3, <1>5, <1>6, RebuildsBeside DEF process, health, Goes
<1>13. \A q \in Queriers : Queries(q)'
  BY <1>5, QueriesBeside DEF Grows
<1> QED  BY <1>7, <1>9, <1>10, <1>11, <1>12, <1>13, <1>15 DEF IndexInv

-----------------------------------------------------------------------------
(* Indexer.Rebuild *)

LEMMA LockRebuildHolds ==
    ASSUME IndexInv, NEW c \in Clients, LockRebuild(c)
    PROVE  IndexInv'
<1>1. Types /\ Rebuilds(c) /\ Indexed
  BY DEF IndexInv
<1>2. /\ client[c].pc = "wait" /\ mu = Nobody /\ mu' = c
      /\ UNCHANGED <<catalog, gens, process, failed, health, query>>
  BY DEF LockRebuild, InPhase
<1> DEFINE x == [client[c] EXCEPT !.pc = "entries", !.scope = LatestRoots]
<1>3. LatestRoots \subseteq Published /\ Published \subseteq Root /\ OneToASource(LatestRoots)
  BY <1>1, PublishedRoots DEF Types, CatalogTypes
<1>4. /\ x \in ClientState /\ x.pc = "entries" /\ x.scope = LatestRoots
      /\ x.root = client[c].root
  BY <1>1, <1>3 DEF Types, ClientState, ClientPC, RebuildPC
<1>5. client' = [client EXCEPT ![c] = x]
  BY DEF LockRebuild
<1>6. Goes(c, x) /\ client'[c] = x
  BY <1>1, <1>4, <1>5, ClientGoes DEF Goes
<1>7. \A i \in DOMAIN gens : Covers(LatestRoots, gens[i].roots)
  BY <1>1 DEF Indexed, Covers
<1>8. Published' = Published /\ CatalogTypes' /\ notes' = notes /\ pubs' = pubs
       /\ bare' = bare
  BY <1>1, <1>2 DEF Types, CatalogTypes, catalog, Published
<1> HIDE DEF x
<1>9. /\ client'[c].pc = "entries" /\ client'[c].scope = LatestRoots
      /\ client'[c].root = client[c].root
  BY <1>4, <1>6
<1>10. client[c].root \in Root /\ started
  BY <1>1, <1>2 DEF Rebuilds
<1>11. Rebuilds(c)'
  BY <1>2, <1>3, <1>7, <1>8, <1>9, <1>10 DEF Rebuilds, Drafting, Pairing, process
<1> QED  BY <1>2, <1>6, <1>8, <1>11, ClientStep DEF Pairing

LEMMA ReadEntriesHolds ==
    ASSUME IndexInv, NEW c \in Clients, ReadEntries(c)
    PROVE  IndexInv'
<1>1. Types /\ Rebuilds(c) /\ Indexed
  BY DEF IndexInv
<1>2. /\ client[c].pc = "entries"
      /\ UNCHANGED <<catalog, gens, process, mu, failed, health, query>>
  BY DEF ReadEntries, InPhase, index
<1>3. LatestRoots \subseteq Root
  BY <1>1, PublishedRoots DEF Types, CatalogTypes
<1> DEFINE ok == InScope(client[c].root, client[c].scope, LatestEntries)
           x == [client[c] EXCEPT !.feed = LatestEntries,
                   !.pc = IF ok THEN "facts" ELSE "unlock", !.failed = ~ok]
<1>4. client' = [client EXCEPT ![c] = x]
  BY DEF ReadEntries
<1>5. ok \in BOOLEAN
  BY DEF InScope
<1>6. client[c] \in ClientState
  BY <1>1 DEF Types
<1>7. x \in ClientState
  BY <1>3, <1>5, <1>6 DEF ClientState, ClientPC, RebuildPC, LatestEntries
<1>8. /\ x.pc = (IF ok THEN "facts" ELSE "unlock") /\ x.feed = LatestEntries
      /\ x.scope = client[c].scope /\ x.root = client[c].root
  BY <1>6 DEF ClientState
<1>9. Goes(c, x) /\ client'[c] = x
  BY <1>1, <1>4, <1>7, ClientGoes DEF Goes
<1>10. ok => /\ LatestEntries \subseteq client[c].scope /\ client[c].root \in client[c].scope
             /\ \A r \in client[c].scope \ LatestEntries : Emptied(r)
  <2>1. /\ Covers(LatestRoots, Published) /\ client[c].scope \subseteq Published
        /\ OneToASource(client[c].scope)
    BY <1>1, <1>2 DEF Rebuilds, RebuildPC, Indexed
  <2> QED  BY <2>1, EntriesOfTheScope DEF InScope
<1> HIDE DEF x, ok
<1>11. Published' = Published /\ CatalogTypes' /\ notes' = notes /\ pubs' = pubs
       /\ bare' = bare
  BY <1>1, <1>2 DEF Types, CatalogTypes, catalog, Published
<1>12. /\ client'[c].pc \in {"facts", "unlock"}
       /\ client'[c].pc = "facts" =>
            /\ client'[c].feed \subseteq client[c].scope /\ client[c].root \in client[c].scope
            /\ \A r \in client[c].scope \ client'[c].feed : Emptied(r)
       /\ client'[c].scope = client[c].scope /\ client'[c].root = client[c].root
  BY <1>8, <1>9, <1>10
<1>14. \A r : Emptied(r)' = Emptied(r)
  BY <1>11 DEF Emptied
<1>13. Rebuilds(c)'
  BY <1>1, <1>2, <1>11, <1>12, <1>14 DEF Rebuilds, RebuildPC, Drafting, Pairing, process
<1> QED  BY <1>2, <1>9, <1>11, <1>13, ClientStep DEF Pairing

LEMMA ReadFactsHolds ==
    ASSUME IndexInv, NEW c \in Clients, ReadFacts(c)
    PROVE  IndexInv'
<1>1. Types /\ Rebuilds(c)
  BY DEF IndexInv
<1>2. /\ client[c].pc = "facts"
      /\ UNCHANGED <<catalog, gens, process, mu, failed, health, query>>
  BY DEF ReadFacts, InPhase, index
<1> DEFINE x == [client[c] EXCEPT !.pc = "build",
                   !.notes = LiveNotes \cap OnSubjects(client[c].feed)]
<1>3. /\ x \in ClientState /\ x.pc = "build" /\ x.feed = client[c].feed
      /\ x.scope = client[c].scope /\ x.root = client[c].root
  BY <1>1 DEF Types, ClientState, ClientPC, RebuildPC, LiveNotes
<1>4. client' = [client EXCEPT ![c] = x]
  BY DEF ReadFacts
<1>5. Goes(c, x) /\ client'[c] = x
  BY <1>1, <1>3, <1>4, ClientGoes DEF Goes
<1> HIDE DEF x
<1>6. Published' = Published /\ CatalogTypes' /\ notes' = notes /\ pubs' = pubs
       /\ bare' = bare
  BY <1>1, <1>2 DEF Types, CatalogTypes, catalog, Published
<1>8. \A r : Emptied(r)' = Emptied(r)
  BY <1>6 DEF Emptied
<1>7. Rebuilds(c)'
  BY <1>1, <1>2, <1>3, <1>5, <1>6, <1>8 DEF Rebuilds, RebuildPC, Drafting, Pairing, process
<1> QED  BY <1>2, <1>5, <1>6, <1>7, ClientStep DEF Pairing

\* A step of the rebuild that holds the mutex.
LEMMA RebuildStep ==
    ASSUME IndexInv, NEW c \in Clients, client[c].pc \in RebuildPC, Goes(c, client'[c]),
           UNCHANGED <<catalog, process, query>>, mu' \in {c, Nobody},
           Rebuilds(c)', Grows, Indexed', (indexReady => Evident)', Paired',
           failed' \in BOOLEAN, unavailable' \in BOOLEAN, indexReady' \in BOOLEAN
    PROVE  IndexInv'
<1>1. /\ Types /\ gens' \in Seq(Generation) /\ mu = c
      /\ Len(gens') >= Len(gens) /\ Len(gens) \in Nat /\ Len(gens') \in Nat
  BY GensGrow DEF IndexInv, Types, Rebuilds
<1>2. Types'
  <2>1. inherited' \in Nat /\ inherited' <= Len(gens')
    BY <1>1 DEF Types, process
  <2> QED  BY <1>1, <2>1 DEF Types, CatalogTypes, ProcessTypes, Published, catalog, process, Goes
<1>3. ASSUME NEW d \in Clients \ {c}
      PROVE  Rebuilds(d)'
  <2>1. client[d].pc \notin RebuildPC /\ client'[d] = client[d]
    BY <1>1 DEF IndexInv, Rebuilds, Goes
  <2> QED  BY <2>1, RebuildsBeside DEF catalog, process, Published
<1>4. \A q \in Queriers : Queries(q)'
  BY QueriesBeside DEF catalog
<1> QED  BY <1>2, <1>3, <1>4 DEF IndexInv

\* The generation that a rebuild inserts is of one feed, and covers those that
\* are there.
LEMMA Inserted ==
    ASSUME IndexInv, NEW c \in Clients, client[c].pc \in Drafting, NEW dim \in Dimensions,
           InsertGeneration(dim, client[c]), pubs' = pubs, bare' = bare
    PROVE  /\ Grows
           /\ \A i \in DOMAIN gens' : Covers(client[c].scope, gens'[i].roots)
           /\ verified' \subseteq Of(Semantic)' /\ passed' \subseteq Of(Semantic)' => Indexed'
           /\ \A e \in Dimensions : LatestIndexGeneration(e)' =
                IF e = dim THEN Len(gens) + 1 ELSE LatestIndexGeneration(e)
           /\ Len(gens) + 1 \in DOMAIN gens' /\ gens'[Len(gens) + 1].library = bound
           /\ gens'[Len(gens) + 1].root = client[c].root
           /\ gens'[Len(gens) + 1].roots = client[c].scope
           /\ gens'[Len(gens) + 1].feed = client[c].feed
           /\ gens'[Len(gens) + 1].notes = client[c].notes
           /\ \A i \in DOMAIN gens : gens'[i] = gens[i]
           /\ \A e : Of(e)' = IF e = dim THEN Of(e) \cup {Len(gens) + 1} ELSE Of(e)
<1>1. /\ Types /\ Indexed /\ Rebuilds(c)
      /\ client[c] \in ClientState /\ client[c].pc \in RebuildPC
  BY DEF IndexInv, Types, Drafting, RebuildPC
<1> DEFINE S == client[c].scope
           g == [dim |-> dim, root |-> client[c].root, roots |-> client[c].scope,
                 feed |-> client[c].feed, notes |-> client[c].notes, library |-> bound]
<1>2. /\ client[c].root \in Root /\ client[c].feed \subseteq S /\ client[c].root \in S
      /\ \A r \in S \ client[c].feed : Emptied(r)
  BY <1>1 DEF Rebuilds
<1>3. /\ g \in Generation /\ g.dim = dim /\ g.roots = S /\ g.feed = client[c].feed
      /\ g.root = client[c].root /\ g.notes = client[c].notes /\ g.library = bound
  BY <1>1, <1>2 DEF Generation, ClientState, Types, ProcessTypes
<1>4. gens' = Append(gens, g)
  BY DEF InsertGeneration
<1>5. /\ S \subseteq Published /\ OneToASource(S)
      /\ \A i \in DOMAIN gens : Covers(S, gens[i].roots)
  BY <1>1 DEF Rebuilds
<1>6. Published \subseteq Root
  BY <1>1, PublishedRoots DEF Types, CatalogTypes
<1> HIDE DEF g
<1>7. Grows
  BY <1>3, <1>4 DEF Grows
<1> DEFINE k == Len(gens) + 1
<1>8. /\ k \in DOMAIN gens' /\ DOMAIN gens' = DOMAIN gens \cup {k} /\ gens'[k] = g
      /\ \A i \in DOMAIN gens : gens'[i] = gens[i] /\ i < k /\ i \in Nat
      /\ k \in Nat
      /\ \A e : Of(e)' = IF e = dim THEN Of(e) \cup {k} ELSE Of(e)
  BY <1>1, <1>3, <1>4, Added DEF Types
<1>9. \A e \in Dimensions : HasLatest(e)' /\
        LatestIndexGeneration(e)' = IF e = dim THEN k ELSE LatestIndexGeneration(e)
  <2> SUFFICES ASSUME NEW e \in Dimensions
               PROVE  HasLatest(e)' /\
                      LatestIndexGeneration(e)' =
                        IF e = dim THEN k ELSE LatestIndexGeneration(e)
    OBVIOUS
  <2>1. HasLatest(e)
    BY <1>1 DEF Indexed, Dimensions
  <2> QED  BY <1>1, <1>3, <1>4, <2>1, AddedLatest DEF Types
<1> HIDE DEF k
<1>10. \A r \in S : r \in Sources \X (1..MaxScans)
  BY <1>5, <1>6 DEF Root
<1>11. Covers(S, S)
  <2>1. \A r \in S : r[2] >= r[2]
    BY <1>10, SearchAssumption
  <2> QED  BY <2>1 DEF Covers
<1>12. \A i \in DOMAIN gens' : Covers(S, gens'[i].roots)
  BY <1>3, <1>5, <1>8, <1>11
<1>13. Published' = Published /\ Covers(LatestRoots, Published)'
  BY <1>1 DEF Published, LatestRoots, Indexed, Covers
<1>14. \A i \in DOMAIN gens' : gens'[i].roots \subseteq Published'
  BY <1>1, <1>3, <1>5, <1>8, <1>13 DEF Indexed
<1>15. GenerationIsOneFeed'
  <2> SUFFICES ASSUME NEW i \in DOMAIN gens'
               PROVE  /\ gens'[i].feed \cup {gens'[i].root} \subseteq gens'[i].roots
                      /\ \A r1, r2 \in gens'[i].roots : r1[1] = r2[1] => r1 = r2
                      /\ \A r \in gens'[i].roots \ gens'[i].feed : Emptied(r)'
    BY DEF GenerationIsOneFeed
  <2>3. \A r : Emptied(r)' = Emptied(r)
    BY DEF Emptied
  <2>1. CASE i \in DOMAIN gens
    BY <1>1, <1>8, <2>1, <2>3 DEF Indexed, GenerationIsOneFeed
  <2>2. CASE i = k
    BY <1>2, <1>3, <1>5, <1>8, <2>2, <2>3 DEF OneToASource
  <2> QED  BY <1>8, <2>1, <2>2
<1>16. GenerationsNeverRegress'
  <2> SUFFICES ASSUME NEW i \in DOMAIN gens', NEW j \in DOMAIN gens', i < j,
                      gens'[i].dim = gens'[j].dim
               PROVE  \A r \in gens'[i].roots :
                        \E n \in gens'[j].roots : n[1] = r[1] /\ n[2] >= r[2]
    BY DEF GenerationsNeverRegress
  <2>1. CASE j = k
    BY <1>3, <1>8, <1>12, <2>1 DEF Covers
  <2>2. CASE j \in DOMAIN gens
    <3>1. i \in DOMAIN gens
      BY <1>8, <2>2
    <3> QED  BY <1>1, <1>8, <2>2, <3>1 DEF Indexed, GenerationsNeverRegress
  <2> QED  BY <1>8, <2>1, <2>2
<1>17. verified' \subseteq Of(Semantic)' /\ passed' \subseteq Of(Semantic)' => Indexed'
  BY <1>9, <1>13, <1>14, <1>15, <1>16 DEF Indexed, Dimensions
<1> QED  BY <1>3, <1>7, <1>8, <1>9, <1>12, <1>17 DEF k

LEMMA BuildLexicalHolds ==
    ASSUME IndexInv, NEW c \in Clients, BuildLexical(c)
    PROVE  IndexInv'
<1>1. Types /\ Rebuilds(c) /\ Indexed /\ client[c] \in ClientState
  BY DEF IndexInv, Types
<1>2. /\ client[c].pc = "build"
      /\ UNCHANGED <<scans, pubs, bare, notes, catalog, process, mu, failed, health, query>>
  BY DEF BuildLexical, InPhase, catalog
<1>3. Published' = Published /\ CatalogTypes' /\ \A r : Emptied(r)' = Emptied(r)
  BY <1>1, <1>2 DEF Types, CatalogTypes, Published, Emptied
<1>4. CASE /\ InsertGeneration(Lexical, client[c])
           /\ client' = [client EXCEPT ![c].pc = "semantic"]
  <2> DEFINE x == [client[c] EXCEPT !.pc = "semantic"]
  <2>1. /\ x \in ClientState /\ x.pc = "semantic" /\ x.scope = client[c].scope
        /\ x.root = client[c].root /\ x.feed = client[c].feed /\ x.notes = client[c].notes
    BY <1>1 DEF ClientState, ClientPC, RebuildPC
  <2>2. client' = [client EXCEPT ![c] = x]
    BY <1>4
  <2>3. Goes(c, x) /\ client'[c] = x
    BY <1>1, <2>1, <2>2, ClientGoes DEF Goes
  <2> HIDE DEF x
  <2>4. /\ Grows
        /\ \A i \in DOMAIN gens' : Covers(client[c].scope, gens'[i].roots)
        /\ verified' \subseteq Of(Semantic)' /\ passed' \subseteq Of(Semantic)' => Indexed'
        /\ LatestIndexGeneration(Semantic)' = LatestIndexGeneration(Semantic)
        /\ \A i \in DOMAIN gens : gens'[i] = gens[i]
        /\ Of(Semantic)' = Of(Semantic)
        /\ LatestIndexGeneration(Lexical)' = Len(gens) + 1
        /\ Of(Lexical)' = Of(Lexical) \cup {Len(gens) + 1}
        /\ gens'[Len(gens) + 1].root = client[c].root
        /\ gens'[Len(gens) + 1].roots = client[c].scope
        /\ gens'[Len(gens) + 1].feed = client[c].feed
        /\ gens'[Len(gens) + 1].notes = client[c].notes
    BY <1>2, <1>4, Inserted DEF Drafting, Dimensions, Lexical, Semantic
  <2>5. Indexed'
    BY <1>1, <1>2, <2>4 DEF Indexed, health
  <2>6. Evident => Evident'
    BY <1>1, <1>2, <2>4 DEF Evident, Indexed, Of, health, process
  <2>7. (indexReady => Evident)'
    BY <1>2, <2>6 DEF IndexInv, health
  <2>9. (Of(Lexical) # {} /\ IsOf(LatestIndexGeneration(Lexical), c))'
    BY <2>1, <2>3, <2>4 DEF IsOf
  <2>8. Rebuilds(c)'
    BY <1>1, <1>2, <1>3, <2>1, <2>3, <2>4, <2>9
       DEF Rebuilds, RebuildPC, Drafting, Pairing, process
  <2>10. Paired'
    BY <2>1, <2>3 DEF Paired, Pairing
  <2> QED  BY <1>1, <1>2, <2>3, <2>4, <2>5, <2>7, <2>8, <2>10, RebuildStep
              DEF RebuildPC, Rebuilds, Types, ProcessTypes, health
<1>5. CASE client' = [client EXCEPT ![c].pc = "unlock", ![c].failed = TRUE] /\ UNCHANGED gens
  <2> DEFINE x == [client[c] EXCEPT !.pc = "unlock", !.failed = TRUE]
  <2>1. /\ x \in ClientState /\ x.pc = "unlock" /\ x.scope = client[c].scope
        /\ x.root = client[c].root
    BY <1>1 DEF ClientState, ClientPC, RebuildPC
  <2>2. client' = [client EXCEPT ![c] = x]
    BY <1>5
  <2>3. Goes(c, x) /\ client'[c] = x
    BY <1>1, <2>1, <2>2, ClientGoes DEF Goes
  <2> HIDE DEF x
  <2>4. Rebuilds(c)'
    BY <1>1, <1>2, <1>3, <1>5, <2>1, <2>3 DEF Rebuilds, RebuildPC, Drafting, Pairing, process
  <2> QED  BY <1>2, <1>3, <1>5, <2>3, <2>4, ClientStep DEF Pairing
<1> QED  BY <1>4, <1>5 DEF BuildLexical

LEMMA BeginSemanticHolds ==
    ASSUME IndexInv, NEW c \in Clients, BeginSemantic(c)
    PROVE  IndexInv'
<1>1. Types /\ Rebuilds(c) /\ Indexed /\ client[c] \in ClientState
  BY DEF IndexInv, Types
<1>2. /\ client[c].pc = "semantic" /\ indexReady' = FALSE
      /\ UNCHANGED <<catalog, gens, process, mu, failed, unavailable, verified, passed, query>>
  BY DEF BeginSemantic, Step, InPhase
<1>3. Goes(c, [client[c] EXCEPT !.pc = "vectors"])
  BY <1>1, StepGoes DEF BeginSemantic, ClientPC, RebuildPC
<1>4. /\ client'[c].pc = "vectors" /\ client'[c].scope = client[c].scope
      /\ client'[c].root = client[c].root /\ client'[c].feed = client[c].feed
      /\ client'[c].notes = client[c].notes /\ Goes(c, client'[c])
  BY <1>1, <1>3 DEF Goes, ClientState
<1>5. Published' = Published /\ \A r : Emptied(r)' = Emptied(r)
  BY <1>2 DEF Published, catalog, Emptied
<1>8. (Of(Lexical) # {} /\ IsOf(LatestIndexGeneration(Lexical), c))'
  <2>1. Of(Lexical) # {} /\ IsOf(LatestIndexGeneration(Lexical), c)
    BY <1>1, <1>2 DEF Rebuilds, Pairing
  <2>2. /\ Of(Lexical)' = Of(Lexical)
        /\ LatestIndexGeneration(Lexical)' = LatestIndexGeneration(Lexical)
    BY <1>2 DEF Of, LatestIndexGeneration
  <2> QED  BY <1>2, <1>4, <2>1, <2>2 DEF IsOf
<1>9. Paired'
  BY <1>4 DEF Paired, Pairing
<1>6. Rebuilds(c)'
  BY <1>1, <1>2, <1>4, <1>5, <1>8 DEF Rebuilds, RebuildPC, Drafting, Pairing, process
<1>7. Indexed'
  BY <1>1, <1>2, IndexedSame DEF Indexed, catalog
<1> QED  BY <1>1, <1>2, <1>4, <1>6, <1>7, <1>9, RebuildStep
            DEF RebuildPC, Rebuilds, Types, ProcessTypes, Grows

LEMMA BuildSemanticHolds ==
    ASSUME IndexInv, NEW c \in Clients, BuildSemantic(c)
    PROVE  IndexInv'
<1>1. Types /\ Rebuilds(c) /\ Indexed /\ client[c] \in ClientState
  BY DEF IndexInv, Types
<1>2. /\ client[c].pc = "vectors" /\ InsertGeneration(Semantic, client[c])
      /\ passed' = passed \cup {Len(gens) + 1}
      /\ UNCHANGED <<catalog, process, mu, failed, unavailable, indexReady, verified, query>>
      /\ pubs' = pubs /\ bare' = bare /\ bound' = bound /\ started' = started
  BY DEF BuildSemantic, InPhase, catalog, process
<1>3. ~indexReady
  BY <1>1, <1>2 DEF Rebuilds
<1> DEFINE x == [client[c] EXCEPT !.pc = "admit"]
<1>4. /\ x \in ClientState /\ x.pc = "admit" /\ x.scope = client[c].scope
      /\ x.root = client[c].root /\ x.feed = client[c].feed /\ x.notes = client[c].notes
  BY <1>1 DEF ClientState, ClientPC, RebuildPC
<1>5. client' = [client EXCEPT ![c] = x]
  BY DEF BuildSemantic
<1>6. Goes(c, x) /\ client'[c] = x
  BY <1>1, <1>4, <1>5, ClientGoes DEF Goes
<1> HIDE DEF x
<1>7. /\ Grows
      /\ \A i \in DOMAIN gens' : Covers(client[c].scope, gens'[i].roots)
      /\ verified' \subseteq Of(Semantic)' /\ passed' \subseteq Of(Semantic)' => Indexed'
      /\ LatestIndexGeneration(Semantic)' = Len(gens) + 1
      /\ gens'[Len(gens) + 1].library = bound
      /\ Of(Semantic)' = Of(Semantic) \cup {Len(gens) + 1}
      /\ LatestIndexGeneration(Lexical)' = LatestIndexGeneration(Lexical)
      /\ Of(Lexical)' = Of(Lexical)
      /\ gens'[Len(gens) + 1].root = client[c].root
      /\ gens'[Len(gens) + 1].roots = client[c].scope
      /\ gens'[Len(gens) + 1].feed = client[c].feed
      /\ gens'[Len(gens) + 1].notes = client[c].notes
      /\ \A i \in DOMAIN gens : gens'[i] = gens[i]
  BY <1>2, Inserted DEF Drafting, Dimensions, Lexical, Semantic
<1>8. Indexed'
  BY <1>1, <1>2, <1>7 DEF Indexed
<1>9. Evident'
  BY <1>2, <1>7 DEF Evident
<1>10. Published' = Published /\ \A r : Emptied(r)' = Emptied(r)
  BY <1>2 DEF Published, Emptied
<1>12. (Of(Semantic) # {} /\ IsOf(LatestIndexGeneration(Semantic), c))'
  BY <1>4, <1>6, <1>7 DEF IsOf
<1>13. (Of(Lexical) # {} /\ IsOf(LatestIndexGeneration(Lexical), c))'
  <2>1. Of(Lexical) # {} /\ IsOf(LatestIndexGeneration(Lexical), c)
    BY <1>1, <1>2 DEF Rebuilds, Pairing
  <2>2. LatestIndexGeneration(Lexical) \in DOMAIN gens
    BY <1>1, <2>1, LatestIs DEF Of, Indexed, Types
  <2> QED  BY <1>4, <1>6, <1>7, <2>1, <2>2 DEF IsOf
<1>14. Paired'
  BY <1>4, <1>6 DEF Paired, Pairing
<1>11. Rebuilds(c)'
  BY <1>1, <1>2, <1>3, <1>4, <1>6, <1>7, <1>9, <1>10, <1>12, <1>13
     DEF Rebuilds, RebuildPC, Drafting
<1> QED  BY <1>1, <1>2, <1>6, <1>7, <1>8, <1>9, <1>11, <1>14, RebuildStep
            DEF RebuildPC, Rebuilds, Types, ProcessTypes

\* A step that leaves the semantic lane with the rebuild's readiness.
LEMMA SemanticEnds ==
    ASSUME IndexInv, NEW c \in Clients, NEW from \in {"vectors", "admit"},
           Step(c, from, "unlock"),
           UNCHANGED <<catalog, gens, process, mu, failed, passed, query>>,
           verified' \subseteq Of(Semantic), unavailable' \in BOOLEAN, indexReady' \in BOOLEAN,
           indexReady' => Evident, Paired'
    PROVE  IndexInv'
<1>1. Types /\ Rebuilds(c) /\ Indexed /\ client[c] \in ClientState
  BY DEF IndexInv, Types
<1>2. client[c].pc = from /\ Goes(c, [client[c] EXCEPT !.pc = "unlock"])
  BY <1>1, StepGoes DEF ClientPC, RebuildPC
<1>3. /\ client'[c].pc = "unlock" /\ client'[c].scope = client[c].scope
      /\ client'[c].root = client[c].root /\ Goes(c, client'[c])
  BY <1>1, <1>2 DEF Goes, ClientState
<1>4. Published' = Published
  BY DEF Published, catalog
<1>5. Rebuilds(c)'
  BY <1>1, <1>2, <1>3, <1>4 DEF Rebuilds, RebuildPC, Drafting, Pairing, process
<1>6. Indexed'
  BY <1>1, IndexedSame DEF Indexed, catalog
<1>7. (indexReady => Evident)'
  BY DEF Evident, LatestIndexGeneration, Of, process
<1> QED  BY <1>1, <1>2, <1>3, <1>5, <1>6, <1>7, RebuildStep
            DEF RebuildPC, Rebuilds, Types, ProcessTypes, Grows

LEMMA AdmitSemanticHolds ==
    ASSUME IndexInv, NEW c \in Clients, AdmitSemantic(c)
    PROVE  IndexInv'
<1>1. Types /\ Rebuilds(c) /\ Indexed
  BY DEF IndexInv
<1>2. client[c].pc = "admit"
  BY DEF AdmitSemantic, Step, InPhase
<1>3. Evident
  BY <1>1, <1>2 DEF Rebuilds
<1>4. verified' \subseteq Of(Semantic)
  BY <1>1, <1>3 DEF AdmitSemantic, Evident, Indexed
<1>5. /\ Of(Semantic) # {} /\ IsOf(LatestIndexGeneration(Semantic), c)
      /\ IsOf(LatestIndexGeneration(Lexical), c)
  BY <1>1, <1>2 DEF Rebuilds, Pairing
<1>6. SameFeed(LatestIndexGeneration(Lexical), LatestIndexGeneration(Semantic))
  BY <1>5 DEF IsOf, SameFeed
<1>7. gens' = gens /\ \A dim : /\ Of(dim)' = Of(dim)
                               /\ LatestIndexGeneration(dim)' = LatestIndexGeneration(dim)
  BY DEF AdmitSemantic, Of, LatestIndexGeneration
<1>8. Paired'
  BY <1>5, <1>6, <1>7 DEF Paired, SameFeed
<1> QED  BY <1>3, <1>4, <1>8, SemanticEnds DEF AdmitSemantic

LEMMA FailSemanticHolds ==
    ASSUME IndexInv, NEW c \in Clients, FailSemantic(c)
    PROVE  IndexInv'
<1>1. Paired'
  BY DEF FailSemantic, Paired
<1> QED  BY <1>1, SemanticEnds DEF FailSemantic, IndexInv, Indexed

LEMMA UnlockRebuildHolds ==
    ASSUME IndexInv, NEW c \in Clients, UnlockRebuild(c)
    PROVE  IndexInv'
<1>1. Types /\ Rebuilds(c) /\ Indexed
  BY DEF IndexInv
<1>2. /\ client[c].pc = "unlock" /\ mu' = Nobody
      /\ UNCHANGED <<catalog, gens, process, failed, health, query>>
  BY DEF UnlockRebuild, Step, InPhase
<1>3. Goes(c, [client[c] EXCEPT !.pc = "latch"])
  BY <1>1, StepGoes DEF UnlockRebuild, ClientPC
<1>4. client'[c].pc = "latch" /\ Goes(c, client'[c])
  BY <1>1, <1>3 DEF Goes, Types, ClientState
<1>5. Rebuilds(c)'
  BY <1>1, <1>2, <1>4 DEF Rebuilds, RebuildPC, Drafting, Pairing, process
<1>6. Indexed' /\ (indexReady => Evident)'
  BY <1>1, <1>2, IndexedSame DEF IndexInv, Indexed, Evident, LatestIndexGeneration, Of,
     catalog, process, health
<1>7. Paired'
  BY <1>2, <1>4, PairedSame DEF IndexInv, Goes, Pairing, process, health
<1> QED  BY <1>1, <1>2, <1>4, <1>5, <1>6, <1>7, RebuildStep
            DEF RebuildPC, Types, ProcessTypes, Grows, health

LEMMA StoreHealthHolds ==
    ASSUME IndexInv, NEW c \in Clients, StoreHealth(c)
    PROVE  IndexInv'
<1>1. Types /\ Rebuilds(c) /\ Indexed /\ client[c] \in ClientState
  BY DEF IndexInv, Types
<1>2. /\ client[c].pc = "latch" /\ failed' = client[c].failed
      /\ UNCHANGED <<catalog, gens, process, mu, health, query>>
  BY DEF StoreHealth, InPhase
<1>3. client' = [client EXCEPT ![c] = Quiet]
  BY DEF StoreHealth
<1>4. Quiet \in ClientState /\ Quiet.pc = "idle"
  BY DEF Quiet, ClientState, ClientPC
<1>5. Goes(c, Quiet) /\ client'[c].pc = "idle"
  BY <1>1, <1>3, <1>4, ClientGoes DEF Goes
<1>6. failed' \in BOOLEAN
  BY <1>1, <1>2 DEF ClientState
<1>7. Types'
  BY <1>1, <1>2, <1>5, <1>6
     DEF Types, CatalogTypes, ProcessTypes, Published, catalog, process, health, Goes
<1>12. Paired'
  BY <1>2, <1>5, PairedSame DEF IndexInv, Goes, Pairing, process, health
<1>8. Rebuilds(c)'
  BY <1>5 DEF Rebuilds, RebuildPC, Drafting, Pairing
<1>9. Indexed' /\ (indexReady => Evident)'
  BY <1>1, <1>2, IndexedSame DEF IndexInv, Indexed, Evident, LatestIndexGeneration, Of,
     catalog, process, health
<1>10. \A d \in Clients \ {c} : Rebuilds(d)'
  BY <1>2, <1>5, RebuildsBeside DEF Goes, Published, catalog, process, health
<1>11. \A q \in Queriers : Queries(q)'
  BY <1>2, QueriesBeside DEF Grows, catalog
<1> QED  BY <1>7, <1>8, <1>9, <1>10, <1>11, <1>12 DEF IndexInv

-----------------------------------------------------------------------------
(* Steps of a query *)

LEMMA QueryStep ==
    ASSUME IndexInv, NEW q \in Queriers, NEW x \in QueryState,
           query' = [query EXCEPT ![q] = x], Queries(q)',
           UNCHANGED <<catalog, gens, process, mu, failed, client, unavailable>>,
           indexReady' = indexReady \/ indexReady' = FALSE,
           verified' \subseteq Of(Semantic), passed' \subseteq Of(Semantic),
           passed \subseteq passed'
    PROVE  IndexInv'
<1>1. Types /\ Indexed
  BY DEF IndexInv
<1>2. query' \in [Queriers -> QueryState] /\ \A p \in Queriers \ {q} : query'[p] = query[p]
  BY <1>1 DEF Types
<1>3. indexReady' \in BOOLEAN /\ (indexReady' => indexReady)
  <2>1. indexReady \in BOOLEAN
    BY <1>1 DEF Types, ProcessTypes
  <2>2. CASE indexReady' = indexReady
    BY <2>1, <2>2
  <2>3. CASE indexReady' = FALSE
    BY <2>3
  <2> QED  BY <2>2, <2>3
<1>4. Types'
  BY <1>1, <1>2, <1>3 DEF Types, CatalogTypes, ProcessTypes, Published, catalog, process
<1>9. Paired'
  BY PairedSame DEF IndexInv, process
<1>5. Indexed'
  BY <1>1, IndexedSame DEF catalog
<1>6. (indexReady => Evident)'
  BY <1>3 DEF IndexInv, Evident, LatestIndexGeneration, Of, process
<1>7. \A c \in Clients : Rebuilds(c)'
  BY <1>3, RebuildsBeside DEF Published, catalog, process
<1>8. \A p \in Queriers : Queries(p)'
  BY <1>2, QueriesBeside DEF Grows, catalog
<1> QED  BY <1>4, <1>5, <1>6, <1>7, <1>8, <1>9 DEF IndexInv

LEMMA NoQueryRuns ==
    ASSUME NEW q \in Queriers, query'[q] = NoQuery
    PROVE  NoQuery \in QueryState /\ Queries(q)'
  BY DEF NoQuery, QueryState, QueryPC, Queries

LEMMA NoQueryStep ==
    ASSUME IndexInv, NEW q \in Queriers, query' = [query EXCEPT ![q] = NoQuery],
           UNCHANGED <<catalog, gens, process, mu, failed, client, unavailable>>,
           indexReady' = indexReady \/ indexReady' = FALSE,
           verified' \subseteq verified, passed' = passed
    PROVE  IndexInv'
<1>1. query'[q] = NoQuery
  BY DEF IndexInv, Types
<1>2. verified \subseteq Of(Semantic) /\ passed \subseteq Of(Semantic)
  BY DEF IndexInv, Indexed
<1> QED  BY <1>1, <1>2, NoQueryRuns, QueryStep

LEMMA RevokeHolds ==
    ASSUME IndexInv, NEW q \in Queriers, Revoke(q),
           UNCHANGED <<catalog, gens, process, mu, failed, client>>
    PROVE  IndexInv'
  BY NoQueryStep DEF Revoke

LEMMA StartQueryHolds ==
    ASSUME IndexInv, NEW q \in Queriers, NEW g \in DOMAIN gens, NEW p \in BOOLEAN,
           StartQuery(q, g, p)
    PROVE  IndexInv'
<1>1. Types /\ Indexed
  BY DEF IndexInv
<1>9. PICK d : d = Settled
  OBVIOUS
<1> DEFINE x == [pc |-> "feed", gen |-> g, pinned |-> p, rows |-> Len(gens), due |-> d,
                 gone |-> {n \in Notes : notes[n] = "deleted"}, hits |-> {}]
<1>2. /\ g \in Of(Semantic) /\ query' = [query EXCEPT ![q] = x]
      /\ UNCHANGED <<catalog, gens, process, mu, failed, health, client>>
      /\ UNCHANGED <<notes, unavailable, indexReady, verified, passed>>
  BY <1>9 DEF StartQuery, catalog, health
<1>6. /\ Settled \in Nat
      /\ Settled # 0 => /\ Settled \in DOMAIN gens
                        /\ SameFeed(Settled, LatestIndexGeneration(Semantic))
  <2>1. CASE Settled = 0
    BY <2>1
  <2>2. CASE Settled # 0
    <3>1. /\ mu = Nobody /\ ~unavailable /\ LatestIndexGeneration(Lexical) > inherited
          /\ Settled = LatestIndexGeneration(Lexical)
      BY <2>2 DEF Settled
    <3>2. \A c \in Clients : client[c].pc \notin Pairing
      BY <3>1, NobodyAssumption DEF IndexInv, Rebuilds, RebuildPC, Pairing
    <3>3. Settled \in DOMAIN gens
      BY <1>1, <2>2, <3>1, LatestIs DEF Indexed, Types, Of
    <3> QED  BY <1>1, <3>1, <3>2, <3>3 DEF IndexInv, Paired, Types
  <2> QED  BY <2>1, <2>2
<1>3. x \in QueryState /\ query'[q] = x
  BY <1>1, <1>2, <1>6, <1>9 DEF Types, QueryState, QueryPC
<1>4. Of(Semantic)' = Of(Semantic) /\ Len(gens) \in Nat
  BY <1>1, <1>2 DEF Types, Of
<1>7. ~p => g = LatestIndexGeneration(Semantic)
  BY DEF StartQuery
<1>8. ~p /\ d # 0 => d \in DOMAIN gens' /\ SameFeed(d, g)'
  BY <1>2, <1>6, <1>7, <1>9 DEF SameFeed
<1>5. Queries(q)'
  <2>1. /\ query'[q].due = d /\ query'[q].gen = g /\ query'[q].pinned = p
        /\ query'[q].pc = "feed" /\ query'[q].rows = Len(gens) /\ query'[q].hits = {}
        /\ query'[q].gone = {n \in Notes : notes[n] = "deleted"}
    BY <1>3
  <2> QED  BY <1>2, <1>4, <1>8, <2>1 DEF Queries, SameFeed
<1> QED  BY <1>1, <1>2, <1>3, <1>5, QueryStep DEF Indexed

\* What a query keeps while it goes on.
LEMMA QueryGoesOn ==
    ASSUME IndexInv, NEW q \in Queriers, NEW to \in QueryPC \ {"idle"}, query[q].pc # "idle",
           UNCHANGED <<notes, gens>>,
           query' = [query EXCEPT ![q].pc = to],
           to \in {"verify", "hits", "answered"} /\ ~query[q].pinned => Fed(q)
    PROVE  /\ [query[q] EXCEPT !.pc = to] \in QueryState
           /\ query' = [query EXCEPT ![q] = [query[q] EXCEPT !.pc = to]]
           /\ Queries(q)'
<1>1. query[q] \in QueryState /\ Queries(q) /\ query \in [Queriers -> QueryState]
  BY DEF IndexInv, Types
<1>2. [query[q] EXCEPT !.pc = to] \in QueryState
  BY <1>1 DEF QueryState
<1>3. /\ query'[q].pc = to /\ query'[q].gen = query[q].gen /\ query'[q].rows = query[q].rows
      /\ query'[q].gone = query[q].gone /\ query'[q].hits = query[q].hits
      /\ query'[q].pinned = query[q].pinned /\ query'[q].due = query[q].due
  BY <1>1 DEF QueryState
<1>4. /\ Of(Semantic)' = Of(Semantic) /\ (Fed(q) => Fed(q)')
      /\ SameFeed(query[q].due, query[q].gen) => SameFeed(query[q].due, query[q].gen)'
  BY <1>3 DEF Fed, Of, SameFeed
<1>5. Queries(q)'
  BY <1>1, <1>3, <1>4 DEF Queries
<1> QED  BY <1>2, <1>5

LEMMA CheckFeedHolds ==
    ASSUME IndexInv, NEW q \in Queriers, CheckFeed(q)
    PROVE  IndexInv'
<1>1. Types /\ Indexed /\ query[q] \in QueryState /\ Queries(q)
  BY DEF IndexInv, Types
<1>2. /\ query[q].pc = "feed"
      /\ UNCHANGED <<catalog, gens, process, mu, failed, health, client>>
      /\ UNCHANGED <<notes, unavailable, indexReady, verified, passed>>
  BY DEF CheckFeed, catalog, health
<1>3. CASE (query[q].pinned \/ MatchesLatestFeed(query[q].gen)) /\ ~unavailable
  <2>1. query' = [query EXCEPT ![q].pc = "verify"]
    BY <1>3 DEF CheckFeed
  <2>2. MatchesLatestFeed(query[q].gen) => Fed(q)
    <3> SUFFICES ASSUME MatchesLatestFeed(query[q].gen)
                 PROVE  Fed(q)
      OBVIOUS
    <3> DEFINE l == LatestIndexGeneration(Lexical)
    <3>1. l # 0 /\ gens[l].root = gens[query[q].gen].root
      BY DEF MatchesLatestFeed
    <3>2. l \in Of(Lexical) /\ \A j \in Of(Lexical) : j <= l
      BY <1>1, <3>1, LatestIs DEF Indexed, Types
    <3>3. Of(Lexical) \subseteq Nat
      BY <1>1 DEF Of, Types
    <3> HIDE DEF l
    <3>4. \A j \in Of(Lexical) : l < j => j > query[q].rows
      BY <3>2, <3>3
    <3> QED  BY <3>1, <3>2, <3>4 DEF Fed
  <2>3. ~query[q].pinned => Fed(q)
    BY <1>3, <2>2
  <2>4. "verify" \in QueryPC \ {"idle"} /\ query[q].pc # "idle"
    BY <1>2 DEF QueryPC
  <2>5. /\ [query[q] EXCEPT !.pc = "verify"] \in QueryState /\ Queries(q)'
        /\ query' = [query EXCEPT ![q] = [query[q] EXCEPT !.pc = "verify"]]
    BY <1>2, <2>1, <2>3, <2>4, QueryGoesOn
  <2> QED  BY <1>1, <1>2, <2>5, QueryStep DEF Indexed
<1>4. CASE ~((query[q].pinned \/ MatchesLatestFeed(query[q].gen)) /\ ~unavailable)
  <2>1. query' = [query EXCEPT ![q] = NoQuery]
    BY <1>4 DEF CheckFeed
  <2> QED  BY <1>2, <2>1, NoQueryStep
<1> QED  BY <1>3, <1>4

LEMMA EnsureVerifiedHolds ==
    ASSUME IndexInv, NEW q \in Queriers, EnsureVerified(q)
    PROVE  IndexInv'
<1>1. Types /\ Indexed /\ query[q] \in QueryState /\ Queries(q)
  BY DEF IndexInv, Types
<1>2. /\ query[q].pc = "verify" /\ UNCHANGED notes
      /\ UNCHANGED <<catalog, gens, process, mu, failed, client>>
  BY DEF EnsureVerified, catalog
<1>3. CASE /\ verified' = verified \cup {query[q].gen}
           /\ passed' = passed \cup {query[q].gen}
           /\ query' = [query EXCEPT ![q].pc = "hits"]
           /\ UNCHANGED <<indexReady, unavailable>>
  <2>1. query[q].gen \in Of(Semantic) /\ (~query[q].pinned => Fed(q))
    BY <1>1, <1>2 DEF Queries
  <2>2. "hits" \in QueryPC \ {"idle"} /\ query[q].pc # "idle"
    BY <1>2 DEF QueryPC
  <2>3. /\ [query[q] EXCEPT !.pc = "hits"] \in QueryState /\ Queries(q)'
        /\ query' = [query EXCEPT ![q] = [query[q] EXCEPT !.pc = "hits"]]
    BY <1>2, <1>3, <2>1, <2>2, QueryGoesOn
  <2> QED  BY <1>1, <1>2, <1>3, <2>1, <2>3, QueryStep DEF Indexed
<1>4. CASE Revoke(q)
  BY <1>2, <1>4, RevokeHolds
<1> QED  BY <1>3, <1>4 DEF EnsureVerified

LEMMA AnswerQueryHolds ==
    ASSUME IndexInv, NEW q \in Queriers, NEW hits \in SUBSET Notes, AnswerQuery(q, hits)
    PROVE  IndexInv'
<1>1. Types /\ Indexed /\ query[q] \in QueryState /\ Queries(q)
  BY DEF IndexInv, Types
<1>2. /\ query[q].pc = "hits" /\ UNCHANGED notes
      /\ UNCHANGED <<catalog, gens, process, mu, failed, client>>
  BY DEF AnswerQuery, catalog
<1>3. CASE /\ Admitted(hits)
           /\ query' = [query EXCEPT ![q].pc = "answered", ![q].hits = hits]
           /\ UNCHANGED health
  <2> DEFINE x == [query[q] EXCEPT !.pc = "answered", !.hits = hits]
  <2>1. /\ x \in QueryState /\ x.pc = "answered" /\ x.hits = hits /\ x.gen = query[q].gen
        /\ x.rows = query[q].rows /\ x.gone = query[q].gone /\ x.pinned = query[q].pinned
        /\ x.due = query[q].due
    BY <1>1 DEF QueryState, QueryPC
  <2>2. query' = [query EXCEPT ![q] = x]
    BY <1>3
  <2>3. query'[q] = x
    BY <1>1, <2>2 DEF Types
  <2> HIDE DEF x
  <2>4. hits \cap query[q].gone = {}
    BY <1>1, <1>3 DEF Admitted, LiveNotes, Queries
  <2>5. /\ Of(Semantic)' = Of(Semantic) /\ (Fed(q) => Fed(q)')
        /\ SameFeed(query[q].due, query[q].gen) => SameFeed(query[q].due, query[q].gen)'
    BY <1>2, <2>1, <2>3 DEF Fed, Of, SameFeed
  <2>6. Queries(q)'
    BY <1>1, <1>2, <2>1, <2>3, <2>4, <2>5 DEF Queries
  <2> QED  BY <1>1, <1>2, <1>3, <2>1, <2>2, <2>6, QueryStep DEF Indexed, health
<1>4. CASE Revoke(q)
  BY <1>2, <1>4, RevokeHolds
<1> QED  BY <1>3, <1>4 DEF AnswerQuery

LEMMA EndQueryHolds ==
    ASSUME IndexInv, NEW q \in Queriers, EndQuery(q)
    PROVE  IndexInv'
  BY NoQueryStep DEF EndQuery, health

-----------------------------------------------------------------------------
(* What happens around it *)

LEMMA ReplaceLibraryHolds ==
    ASSUME IndexInv, ReplaceLibrary
    PROVE  IndexInv'
<1>1. Types /\ Indexed
  BY DEF IndexInv
<1>2. /\ library' = library + 1 /\ (library - 1) + restarts < MaxFaults
      /\ UNCHANGED <<catalog, gens, bound, inherited, started, restarts, mu, failed, health,
                     client, query>>
  BY DEF ReplaceLibrary, FaultLeft
<1>3. Types'
  BY <1>1, <1>2, SearchAssumption DEF Types, CatalogTypes, ProcessTypes, Published, catalog,
     health
<1>8. Paired'
  BY <1>2, PairedSame DEF IndexInv, health
<1>4. Indexed'
  BY <1>1, <1>2, IndexedSame DEF Indexed, catalog, health
<1>5. (indexReady => Evident)'
  BY <1>2 DEF IndexInv, Evident, LatestIndexGeneration, Of, health
<1>6. \A c \in Clients : Rebuilds(c)'
  BY <1>2, RebuildsBeside DEF Published, catalog, health
<1>7. \A q \in Queriers : Queries(q)'
  BY <1>2, QueriesBeside DEF Grows, catalog
<1> QED  BY <1>3, <1>4, <1>5, <1>6, <1>7, <1>8 DEF IndexInv

LEMMA RestartHolds ==
    ASSUME IndexInv, Restart
    PROVE  IndexInv'
<1>1. Types /\ Indexed
  BY DEF IndexInv
<1>2. /\ restarts' = restarts + 1 /\ (library - 1) + restarts < MaxFaults
      /\ started' = FALSE /\ bound' = library /\ mu' = Nobody /\ failed' = FALSE
      /\ inherited' = Len(gens) /\ unavailable' = FALSE /\ indexReady' = FALSE /\ verified' = {} /\ passed' = {}
      /\ client' = [c \in Clients |-> Quiet] /\ query' = [q \in Queriers |-> NoQuery]
      /\ UNCHANGED <<catalog, gens, library>>
  BY DEF Restart, FaultLeft
<1>3. Quiet \in ClientState /\ NoQuery \in QueryState
  BY DEF Quiet, ClientState, ClientPC, NoQuery, QueryState, QueryPC
<1>4. ProcessTypes'
  <2>1. /\ library \in Nat /\ restarts \in Nat /\ library > 0
        /\ library + restarts <= MaxFaults + 1
    BY <1>1 DEF Types, ProcessTypes
  <2>2. /\ library' = library /\ bound' = library /\ restarts' \in Nat
        /\ library' + restarts' <= MaxFaults + 1
    BY <1>2, <2>1, SearchAssumption
  <2>3. /\ started' \in BOOLEAN /\ mu' \in Clients \cup {Nobody} /\ failed' \in BOOLEAN
        /\ unavailable' \in BOOLEAN /\ indexReady' \in BOOLEAN
    BY <1>2
  <2> QED  BY <2>1, <2>2, <2>3 DEF ProcessTypes
<1>5. Types'
  BY <1>1, <1>2, <1>3, <1>4 DEF Types, CatalogTypes, Published, catalog
<1>9. Paired'
  <2>1. LatestIndexGeneration(Lexical) \in 0..Len(gens)
    BY <1>1, LatestIs DEF Indexed, Types, Of
  <2>2. LatestIndexGeneration(Lexical)' = LatestIndexGeneration(Lexical)
    BY <1>2 DEF LatestIndexGeneration, Of
  <2>3. ~(LatestIndexGeneration(Lexical)' > inherited')
    BY <1>1, <1>2, <2>1, <2>2 DEF Types
  <2> QED  BY <2>3 DEF Paired
<1>6. Indexed'
  BY <1>1, <1>2, IndexedSame DEF catalog
<1>7. \A c \in Clients : Rebuilds(c)'
  BY <1>2 DEF Rebuilds, RebuildPC, Drafting, Pairing, Quiet
<1>8. \A q \in Queriers : Queries(q)'
  BY <1>2, NoQueryRuns
<1> QED  BY <1>2, <1>5, <1>6, <1>7, <1>8, <1>9 DEF IndexInv

LEMMA WarmHolds ==
    ASSUME IndexInv, Warm
    PROVE  IndexInv'
<1>1. Types /\ Indexed /\ ~started
  BY DEF IndexInv, Warm
<1> DEFINE g == LatestIndexGeneration(Semantic)
<1>2. /\ started' = TRUE /\ indexReady' = Warmed /\ unavailable' = unavailable
      /\ verified' = (IF Warmed THEN {g} ELSE {}) /\ passed' = verified'
      /\ UNCHANGED <<catalog, gens, library, bound, inherited, restarts, mu, failed, client,
                     query>>
  BY DEF Warm
<1>3. Warmed \in BOOLEAN
  BY DEF Warmed
<1>4. Types'
  BY <1>1, <1>2, <1>3 DEF Types, CatalogTypes, ProcessTypes, Published, catalog
<1>13. Paired'
  BY <1>2, PairedSame DEF IndexInv
<1>5. Warmed => g \in Of(Semantic) /\ gens[g].library = bound
  BY <1>1, LatestIs DEF Warmed, Opens, Indexed, Types
<1>6. verified' \subseteq Of(Semantic)
  BY <1>2, <1>5
<1>7. Indexed'
  BY <1>1, <1>2, <1>6, IndexedSame DEF catalog
<1>8. g' = g
  BY <1>2 DEF LatestIndexGeneration, Of
<1>9. (indexReady => Evident)'
  BY <1>2, <1>5, <1>8 DEF Evident
<1>10. \A c \in Clients : client[c].pc = "idle"
  BY <1>1 DEF IndexInv, Rebuilds
<1>11. \A c \in Clients : Rebuilds(c)'
  BY <1>2, <1>10, RebuildsBeside DEF Published, catalog, RebuildPC
<1>12. \A q \in Queriers : Queries(q)'
  BY <1>2, QueriesBeside DEF Grows, catalog
<1> QED  BY <1>4, <1>7, <1>9, <1>11, <1>12, <1>13 DEF IndexInv

-----------------------------------------------------------------------------
(* The specification *)

LEMMA IndexInitHolds == IndexInit => IndexInv
<1> SUFFICES ASSUME IndexInit
             PROVE  IndexInv
  OBVIOUS
<1>1. Quiet \in ClientState /\ NoQuery \in QueryState
  BY DEF Quiet, ClientState, ClientPC, NoQuery, QueryState, QueryPC
<1>2. CatalogTypes
  BY SearchAssumption DEF IndexInit, CatalogTypes, Published
<1>3. ProcessTypes
  <2>1. library = 1 /\ bound = 1 /\ restarts = 0 /\ 1 + 0 <= MaxFaults + 1
    BY SearchAssumption DEF IndexInit
  <2>2. /\ started \in BOOLEAN /\ mu \in Clients \cup {Nobody} /\ failed \in BOOLEAN
        /\ unavailable \in BOOLEAN /\ indexReady \in BOOLEAN
    BY DEF IndexInit
  <2> QED  BY <2>1, <2>2 DEF ProcessTypes
<1>4. Types
  BY <1>1, <1>2, <1>3 DEF IndexInit, Types
<1>5. Published = {} /\ \A dim : Of(dim) = {}
  BY DEF IndexInit, Published, Of
<1>6. DOMAIN gens = {} /\ verified = {} /\ passed = {}
  BY DEF IndexInit
<1>7. Indexed
  BY <1>5, <1>6 DEF Indexed, Covers, GenerationIsOneFeed, GenerationsNeverRegress, HasLatest
<1>8. \A c \in Clients : Rebuilds(c)
  BY DEF IndexInit, Rebuilds, Quiet, RebuildPC, Drafting, Pairing
<1>9. \A q \in Queriers : Queries(q)
  BY DEF IndexInit, Queries, NoQuery
<1>10. Paired
  BY <1>5 DEF Paired, LatestIndexGeneration, IndexInit
<1> QED  BY <1>4, <1>7, <1>8, <1>9, <1>10 DEF IndexInv, IndexInit

LEMMA StutterHolds ==
    ASSUME IndexInv, UNCHANGED indexVars
    PROVE  IndexInv'
<1>1. /\ UNCHANGED <<catalog, gens, process, mu, failed, health, client, query>>
      /\ UNCHANGED <<scans, pubs, bare, notes, library, bound, inherited, started, restarts,
                     unavailable, indexReady, verified, passed>>
  BY DEF indexVars, catalog, process, health
<1>2. Types'
  BY <1>1 DEF IndexInv, Types, CatalogTypes, ProcessTypes, Published
<1>7. Paired'
  BY <1>1, PairedSame DEF IndexInv
<1>3. Indexed'
  BY <1>1, IndexedSame DEF IndexInv, Indexed
<1>4. (indexReady => Evident)'
  BY <1>1 DEF IndexInv, Evident, LatestIndexGeneration, Of
<1>5. \A c \in Clients : Rebuilds(c)'
  BY <1>1, RebuildsBeside DEF Published
<1>6. \A q \in Queriers : Queries(q)'
  BY <1>1, QueriesBeside DEF Grows
<1> QED  BY <1>2, <1>3, <1>4, <1>5, <1>6, <1>7 DEF IndexInv

LEMMA IndexNextHolds == IndexInv /\ [IndexNext]_indexVars => IndexInv'
<1> SUFFICES ASSUME IndexInv, [IndexNext]_indexVars
             PROVE  IndexInv'
  OBVIOUS
<1>1. ASSUME NEW c \in Clients, NEW s \in Sources, BeginScan(c, s)
      PROVE  IndexInv'
  BY <1>1, BeginScanHolds
<1>2. ASSUME NEW c \in Clients, Publish(c)
      PROVE  IndexInv'
  BY <1>2, PublishHolds
<1>3. ASSUME NEW c \in Clients, NEW n \in Notes, WriteNote(c, n) \/ DeleteNote(c, n)
      PROVE  IndexInv'
  BY <1>3, WriteHolds
<1>4. ASSUME NEW c \in Clients,
             \/ SearchRebuild(c) \/ RebuildLatest(c)
             \/ LockRebuild(c) \/ ReadEntries(c) \/ ReadFacts(c) \/ BuildLexical(c)
             \/ BeginSemantic(c) \/ BuildSemantic(c) \/ AdmitSemantic(c) \/ FailSemantic(c)
             \/ UnlockRebuild(c) \/ StoreHealth(c)
      PROVE  IndexInv'
  BY <1>4, SearchRebuildHolds, RebuildLatestHolds, LockRebuildHolds, ReadEntriesHolds,
     ReadFactsHolds, BuildLexicalHolds, BeginSemanticHolds, BuildSemanticHolds,
     AdmitSemanticHolds, FailSemanticHolds, UnlockRebuildHolds, StoreHealthHolds
<1>5. ASSUME NEW q \in Queriers, NEW g \in DOMAIN gens, NEW p \in BOOLEAN, StartQuery(q, g, p)
      PROVE  IndexInv'
  BY <1>5, StartQueryHolds
<1>6. ASSUME NEW q \in Queriers, CheckFeed(q) \/ EnsureVerified(q) \/ EndQuery(q)
      PROVE  IndexInv'
  BY <1>6, CheckFeedHolds, EnsureVerifiedHolds, EndQueryHolds
<1>7. ASSUME NEW q \in Queriers, NEW hits \in SUBSET Notes, AnswerQuery(q, hits)
      PROVE  IndexInv'
  BY <1>7, AnswerQueryHolds
<1>8. CASE ReplaceLibrary \/ Restart \/ Warm
  BY <1>8, ReplaceLibraryHolds, RestartHolds, WarmHolds
<1>9. CASE UNCHANGED indexVars
  BY <1>9, StutterHolds
<1> QED  BY <1>1, <1>2, <1>3, <1>4, <1>5, <1>6, <1>7, <1>8, <1>9 DEF IndexNext

\* The inductive invariant of the indexer holds of every reachable state.
THEOREM IndexInvariant == IndexSpec => []IndexInv
  BY IndexInitHolds, IndexNextHolds, PTL DEF IndexSpec

\* Every variable of the indexer keeps to its set (type correctness).
THEOREM IndexTypes == IndexSpec => []IndexTypeOK
<1>1. ASSUME IndexInv
      PROVE  IndexTypeOK
  <2>1. Types /\ Indexed /\ \A q \in Queriers : Queries(q)
    BY <1>1 DEF IndexInv
  <2>2. /\ scans \in [Sources -> 0..MaxScans] /\ Published \subseteq Root
        /\ notes \in [Notes -> {"absent", "live", "deleted"}]
        /\ bare \subseteq Published /\ inherited \in 0..Len(gens)
    BY <2>1, PublishedRoots DEF Types, CatalogTypes
  <2>3. \A i \in DOMAIN gens : gens[i] \in Generation
    BY <2>1 DEF Types
  <2>4. \A i \in DOMAIN gens : /\ gens[i].dim \in {Lexical, Semantic}
                               /\ gens[i].root \in Root /\ gens[i].notes \subseteq Notes
    BY <2>3 DEF Generation, Dimensions
  <2>5. /\ library \in 1..(MaxFaults + 1) /\ bound \in 1..library
        /\ restarts \in 0..MaxFaults
    <3>1. /\ library \in Nat /\ bound \in Nat /\ restarts \in Nat
          /\ library > 0 /\ bound > 0 /\ bound <= library
          /\ library + restarts <= MaxFaults + 1
      BY <2>1 DEF Types, ProcessTypes
    <3> QED  BY <3>1, SearchAssumption
  <2>6. /\ started \in BOOLEAN /\ mu \in Clients \cup {Nobody}
        /\ {failed, unavailable, indexReady} \subseteq BOOLEAN
    BY <2>1 DEF Types, ProcessTypes
  <2>7. ASSUME NEW q \in Queriers
        PROVE  query[q].gen \in 0..Len(gens)
    <3>1. Queries(q) /\ Of(Semantic) \subseteq DOMAIN gens
      BY <2>1 DEF Of
    <3> QED  BY <2>1, <3>1 DEF Queries, Types
  <2> QED  BY <2>1, <2>2, <2>4, <2>5, <2>6, <2>7 DEF IndexTypeOK, Indexed
<1> QED  BY <1>1, IndexInvariant, PTL

\* The entries a generation indexes are those of roots recorded for it, one to
\* a source, however many sources there are and however many ingests publish
\* between the two reads of Rebuild; a root recorded without its entries is of a
\* source that was published empty.
THEOREM GenerationsAreOneFeed == IndexSpec => []GenerationIsOneFeed
<1>1. IndexInv => GenerationIsOneFeed
  BY DEF IndexInv, Indexed
<1> QED  BY <1>1, IndexInvariant, PTL

\* In whatever order any number of concurrent rebuilds finish, a generation
\* covers no older root of a source than an earlier one of its dimension did.
THEOREM GenerationsAdvance == IndexSpec => []GenerationsNeverRegress
<1>1. IndexInv => GenerationsNeverRegress
  BY DEF IndexInv, Indexed
<1> QED  BY <1>1, IndexInvariant, PTL

\* No answer has a note that was tombstoned before its query began.
THEOREM DeletedNotesStayOut == IndexSpec => []DeletedNoteNeverAnswered
<1>1. IndexInv => DeletedNoteNeverAnswered
  BY DEF IndexInv, Queries, DeletedNoteNeverAnswered
<1> QED  BY <1>1, IndexInvariant, PTL

\* A default query that begins when the last rebuild of the process has ended
\* well answers from the entries and notes of its lexical generation; any other
\* one from a primary root that the lexical lane served during the query.
THEOREM AnswersAreOfTheFeed == IndexSpec => []AnswerIsOfTheFeed
<1>1. ASSUME IndexInv, NEW q \in Queriers, query[q].pc = "answered", ~query[q].pinned
      PROVE  /\ query[q].due # 0 => SameFeed(query[q].due, query[q].gen)
             /\ Fed(q)
  BY <1>1 DEF IndexInv, Queries
<1>2. IndexInv => AnswerIsOfTheFeed
  BY <1>1 DEF Fed, AnswerIsOfTheFeed
<1> QED  BY <1>2, IndexInvariant, PTL

\* When the semantic lane is said to be available, this process has verified
\* the latest generation in full and a coverage report would be complete.
THEOREM ReadinessIsEvidence == IndexSpec => []ReadyIsVerified
<1>1. ASSUME IndexInv
      PROVE  ReadyIsVerified
  <2> SUFFICES ASSUME indexReady, ~unavailable, library = bound
               PROVE  /\ LatestIndexGeneration(Semantic) \in passed
                      /\ SemanticCoverageComplete
    BY DEF ReadyIsVerified, SemanticAvailable
  <2>1. Evident /\ passed \subseteq Of(Semantic) /\ gens \in Seq(Generation)
    BY <1>1 DEF IndexInv, Indexed, Types
  <2>2. 0 \notin Of(Semantic)
    BY <2>1 DEF Of
  <2> QED  BY <2>1, <2>2 DEF Evident, SemanticCoverageComplete, Opens
<1> QED  BY <1>1, IndexInvariant, PTL
=============================================================================

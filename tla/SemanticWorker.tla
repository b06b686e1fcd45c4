--------------------------- MODULE SemanticWorker ---------------------------
(***************************************************************************)
(* The semantic embedding workers of the daemon: configureSemanticBinding   *)
(* (main.go) takes a lease of the catalogue for the daemon, probes the      *)
(* provider and keeps the lease alive; every Embed call of the factory      *)
(* validates the lease twice, admits the bundle, starts a worker process    *)
(* of its own, registers it and sends it one request.  Invalidate, which a  *)
(* failed validation, the keepalive, a worker's lease monitor and the       *)
(* shutdown run concurrently with the calls, fails the factory closed and   *)
(* closes the registered workers.                                           *)
(*                                                                         *)
(* A daemon process is one lease attempt: its lease token is drawn once.    *)
(* The lease is the row of FenceRow.  The bundle root is what the installer *)
(* leaves there (BundleInstaller): a tree, or nothing while it replaces it. *)
(* Loading a tree verifies every asset against the descriptor, so a tree    *)
(* is its profile digest.  Closing a session is one step: its closed flag,  *)
(* its connection and its process go together.                              *)
(***************************************************************************)
EXTENDS FenceRow, FiniteSets

CONSTANTS Calls,         \* call slots, used one call at a time
          Daemons,       \* daemon processes with semantic workers
          DaemonOf,      \* the daemon a slot belongs to
          Profiles,      \* the bundles the installer may put at the root
          Installed,     \* those of them that may be there at first
          NoTree,        \* no readable bundle at the root
          SandboxSupport, \* whether hosts may stage the bundle for their workers
          MaxReplaced,   \* bound on the changes of the bundle root
          MaxCalls,      \* bound on the calls begun
          MaxLapses,     \* bound on the lapses of the lease
          StoreErrors    \* whether the catalogue may fail a renewal

ASSUME DaemonsAssumption == Daemons \subseteq Attempt
ASSUME DaemonOfAssumption == DaemonOf \in [Calls -> Daemons]
ASSUME NoTreeAssumption == NoTree \notin Profiles
ASSUME InstalledAssumption == Installed \subseteq Profiles
ASSUME ActorsAssumption == Calls \cap Daemons = {}
ASSUME BoundsAssumption == MaxReplaced \in Nat /\ MaxCalls \in Nat /\ MaxLapses \in Nat
ASSUME SwitchesAssumption == SandboxSupport \subseteq BOOLEAN /\ StoreErrors \in BOOLEAN

Trees == Profiles \cup {NoTree}

\* Who runs Invalidate: a call, or the lease monitor of its worker; the
\* keepalive of a daemon, or the shutdown, which waits for the keepalive.
Actors == Calls \cup Daemons
HomeOf(e) == IF e \in Calls THEN DaemonOf[e] ELSE e

VARIABLES
  tree,       \* what is at the bundle root
  row,        \* the lease row of the domain ":semantic-worker"
  sandboxed,  \* the host has bubblewrap, sandbox.Supported()
  used,       \* the bounded counts: replacements, calls, lapses
  mode,       \* of each daemon: where configureSemanticBinding and run are
  manifest,   \* of each daemon: the bundle its index binding names
  token,      \* of each daemon: the fencing token it keeps
  keeper,     \* of each daemon: its keepSemanticLeaseAlive goroutine
  invalid,    \* of each factory: the flag Invalidate sets
  ready,      \* of each factory: a call has completed
  workers,    \* of each factory: the registered workers
  pc,         \* of each call: where it is
  cancelled,  \* of each call: its context is done
  answered,   \* of each call: it has vectors to return
  want,       \* of each call: the profile StartONNXWorker admitted
  loaded,     \* of each call: the profile its worker process runs
  session,    \* of each call: its worker session
  monitor,    \* of each call: the monitorONNXWorkerLease of its session
  inv,        \* of each actor: how far its Invalidate is
  closing     \* of each actor: the workers its Invalidate took, not yet closed

factory == <<invalid, ready, workers>>
daemon  == <<mode, manifest, token, keeper>>
call    == <<pc, cancelled, answered, want, loaded, session, monitor>>
fencing == <<inv, closing>>
env     == <<tree, sandboxed, used>>
vars    == <<env, row, daemon, factory, call, fencing>>

Modes == {"off", "probing", "serving", "stopping", "releasing", "down", "dead", "unavailable"}
Points == {"idle", "check", "renew", "load", "admit", "recheck", "rerenew", "stage",
           "child", "start", "register", "embed", "await", "replied",
           "unregister", "close", "invalidating"}

TypeOK ==
  /\ tree \in Trees /\ sandboxed \in BOOLEAN /\ row \in FenceRows
  /\ used \in [replaced: 0..MaxReplaced, calls: 0..MaxCalls, lapses: 0..MaxLapses]
  /\ mode \in [Daemons -> Modes] /\ manifest \in [Daemons -> Trees]
  /\ token \in [Daemons -> Nat] /\ keeper \in [Daemons -> {"off", "running", "failing"}]
  /\ invalid \in [Daemons -> BOOLEAN] /\ ready \in [Daemons -> BOOLEAN]
  /\ workers \in [Daemons -> SUBSET Calls]
  /\ pc \in [Calls -> Points]
  /\ cancelled \in [Calls -> BOOLEAN] /\ answered \in [Calls -> BOOLEAN]
  /\ want \in [Calls -> Trees] /\ loaded \in [Calls -> Trees]
  /\ session \in [Calls -> {"open", "closed"}]
  /\ monitor \in [Calls -> {"off", "watching", "renewing", "failing"}]
  /\ inv \in [Actors -> {"no", "flagged", "taken"}]
  /\ closing \in [Actors -> SUBSET Calls]

Init ==
  /\ tree \in Installed /\ sandboxed \in SandboxSupport /\ row = NoRow
  /\ used = [replaced |-> 0, calls |-> 0, lapses |-> 0]
  /\ mode = [d \in Daemons |-> "off"] /\ manifest = [d \in Daemons |-> NoTree]
  /\ token = [d \in Daemons |-> 0] /\ keeper = [d \in Daemons |-> "off"]
  /\ invalid = [d \in Daemons |-> FALSE] /\ ready = [d \in Daemons |-> FALSE]
  /\ workers = [d \in Daemons |-> {}]
  /\ pc = [c \in Calls |-> "idle"]
  /\ cancelled = [c \in Calls |-> FALSE] /\ answered = [c \in Calls |-> FALSE]
  /\ want = [c \in Calls |-> NoTree] /\ loaded = [c \in Calls |-> NoTree]
  /\ session = [c \in Calls |-> "closed"] /\ monitor = [c \in Calls |-> "off"]
  /\ inv = [e \in Actors |-> "no"] /\ closing = [e \in Actors |-> {}]

At(c, p) == pc[c] = p
Goto(c, p) == pc' = [pc EXCEPT ![c] = p]
Move(c, from, to) == At(c, from) /\ Goto(c, to)

-----------------------------------------------------------------------------
(* The lease.                                                               *)

\* PublicationFencer.Acquire at the start of a daemon.
Free == ~row.live

\* renewAndValidateSemanticLease: Acquire with the same lease token, whose
\* answer has to be the token kept, then Validate at the same instant.  The
\* holder of a lapsed row is refused; a lapsed row of another attempt is
\* granted anew, and the changed token is an error.
RenewOK(d) ==
  /\ HeldBy(row, d, token[d])
  /\ row' = Extended(row, TRUE)

RenewFails(d, done) ==
  \/ /\ Free /\ row.holder # d /\ ~done
     /\ row' = Granted(row, d, TRUE)
  \/ /\ IF row.live THEN ~HeldBy(row, d, token[d]) ELSE row.holder = d
     /\ ~done /\ UNCHANGED row
  \/ /\ done \/ StoreErrors
     /\ UNCHANGED row

\* Invalidate, by actor e: the flags, before the workers are taken.
Flag(e) ==
  /\ invalid' = [invalid EXCEPT ![HomeOf(e)] = TRUE]
  /\ ready' = [ready EXCEPT ![HomeOf(e)] = FALSE]
  /\ inv' = [inv EXCEPT ![e] = "flagged"]
  /\ UNCHANGED <<workers, closing>>

\* Under the factory's mutex, every registered worker is taken.
Take(e) ==
  /\ inv[e] = "flagged"
  /\ inv' = [inv EXCEPT ![e] = "taken"]
  /\ closing' = [closing EXCEPT ![e] = @ \cup workers[HomeOf(e)]]
  /\ workers' = [workers EXCEPT ![HomeOf(e)] = {}]
  /\ UNCHANGED <<env, row, daemon, invalid, ready, call>>

\* Then each is closed, outside the mutex.
CloseTaken(e, c) ==
  /\ c \in closing[e]
  /\ closing' = [closing EXCEPT ![e] = @ \ {c}]
  /\ session' = [session EXCEPT ![c] = "closed"]
  /\ UNCHANGED <<env, row, daemon, factory, pc, cancelled, answered, want, loaded, monitor, inv>>

Invalidated(e) == inv[e] = "taken" /\ closing[e] = {}
Finished(e) == inv' = [inv EXCEPT ![e] = "no"] /\ UNCHANGED closing

-----------------------------------------------------------------------------
(* One Embed call.                                                          *)

\* configureSemanticBinding's probe, or a call of the indexer.
Begin(c) ==
  LET d == DaemonOf[c] IN
  /\ At(c, "idle") /\ monitor[c] = "off" /\ used.calls < MaxCalls
  /\ \/ mode[d] = "probing" /\ \A o \in Calls : DaemonOf[o] = d => At(o, "idle")
     \/ mode[d] = "serving"
  /\ used' = [used EXCEPT !.calls = @ + 1]
  /\ Goto(c, "check")
  /\ UNCHANGED <<tree, sandboxed, row, daemon, factory, cancelled, answered, want, loaded, session, monitor,
                 fencing>>

\* The call returns: a failed probe releases the lease and leaves the daemon
\* without the capability, one that succeeds starts the keepalive.
Return(c, ok) ==
  LET d == DaemonOf[c] IN
  /\ Goto(c, "idle")
  /\ cancelled' = [cancelled EXCEPT ![c] = FALSE] /\ answered' = [answered EXCEPT ![c] = FALSE]
  /\ want' = [want EXCEPT ![c] = NoTree] /\ loaded' = [loaded EXCEPT ![c] = NoTree]
  /\ session' = [session EXCEPT ![c] = "closed"]
  /\ IF mode[d] = "probing"
     THEN /\ mode' = [mode EXCEPT ![d] = IF ok THEN "serving" ELSE "unavailable"]
          /\ keeper' = [keeper EXCEPT ![d] = IF ok THEN "running" ELSE "off"]
          /\ row' = IF ~ok /\ HeldBy(row, d, token[d]) THEN Lapsed(row) ELSE row
     ELSE UNCHANGED <<mode, keeper, row>>

\* The client goes away, the probe's 45 s are over, or the daemon shuts down.
Cancel(c) ==
  /\ ~At(c, "idle") /\ ~cancelled[c]
  /\ cancelled' = [cancelled EXCEPT ![c] = TRUE]
  /\ UNCHANGED <<env, row, daemon, factory, pc, answered, want, loaded, session, monitor, fencing>>

\* validateFence reads the flag; a factory already invalid is not touched.
Check(c) ==
  /\ ~invalid[DaemonOf[c]]
  /\ \/ Move(c, "check", "renew")
     \/ ~cancelled[c] /\ Move(c, "recheck", "rerenew")
  /\ UNCHANGED <<env, row, daemon, factory, cancelled, answered, want, loaded, session, monitor, fencing>>

CheckRefuses(c) ==
  /\ \/ At(c, "check") /\ invalid[DaemonOf[c]]
     \/ At(c, "recheck") /\ (invalid[DaemonOf[c]] \/ cancelled[c])
  /\ Return(c, FALSE)
  /\ UNCHANGED <<env, manifest, token, factory, monitor, fencing>>

Renew(c) ==
  /\ ~cancelled[c]
  /\ \/ Move(c, "renew", "load")
     \/ Move(c, "rerenew", IF sandboxed THEN "stage" ELSE "child")
  /\ RenewOK(DaemonOf[c])
  /\ UNCHANGED <<env, daemon, factory, cancelled, answered, want, loaded, session, monitor, fencing>>

RenewRefused(c) ==
  /\ At(c, "renew") \/ At(c, "rerenew")
  /\ RenewFails(DaemonOf[c], cancelled[c])
  /\ Goto(c, "invalidating") /\ Flag(c)
  /\ UNCHANGED <<env, daemon, cancelled, answered, want, loaded, session, monitor>>

RefusedReturns(c) ==
  /\ At(c, "invalidating") /\ Invalidated(c)
  /\ Finished(c) /\ Return(c, FALSE)
  /\ UNCHANGED <<env, manifest, token, factory, monitor>>

\* StartONNXWorker loads the bundle, then admits it again by its profile.
LoadBundle(c) ==
  /\ Move(c, "load", "admit") /\ tree # NoTree
  /\ want' = [want EXCEPT ![c] = tree]
  /\ UNCHANGED <<env, row, daemon, factory, cancelled, answered, loaded, session, monitor, fencing>>

\* LoadONNXWorkerAdmission, and stageONNXBundle's load of what it copies; the
\* copy of each asset is verified against that load, so it is that profile.
Admit(c) ==
  /\ tree = want[c]
  /\ \/ Move(c, "admit", "recheck")
     \/ Move(c, "stage", "child")
  /\ UNCHANGED <<env, row, daemon, factory, cancelled, answered, want, loaded, session, monitor, fencing>>

\* What a worker process finds where it looks for its bundle.
ChildTree(c) == IF sandboxed THEN want[c] ELSE tree

\* RunONNXWorkerProcess admits the bundle for the profile it was started with.
ChildAdmits(c) ==
  /\ ChildTree(c) = want[c] /\ Move(c, "child", "start")
  /\ UNCHANGED <<env, row, daemon, factory, cancelled, answered, want, loaded, session, monitor, fencing>>

\* Mutant: the reload is not compared with the admission.
ChildStartsAnything(c) ==
  /\ ChildTree(c) # NoTree /\ Move(c, "start", "register")
  /\ loaded' = [loaded EXCEPT ![c] = ChildTree(c)]
  /\ session' = [session EXCEPT ![c] = "open"]
  /\ monitor' = [monitor EXCEPT ![c] = "watching"]
  /\ UNCHANGED <<env, row, daemon, factory, cancelled, answered, want, fencing>>

\* NewONNXRuntimeAdapter reloads it, compares, and reads the assets it runs;
\* the handshake binds the session, and the lease monitor is started.
ChildStarts(c) ==
  /\ ChildTree(c) = want[c] /\ Move(c, "start", "register")
  /\ loaded' = [loaded EXCEPT ![c] = ChildTree(c)]
  /\ session' = [session EXCEPT ![c] = "open"]
  /\ monitor' = [monitor EXCEPT ![c] = "watching"]
  /\ UNCHANGED <<env, row, daemon, factory, cancelled, answered, want, fencing>>

\* Any of these fails: the tree is gone or another, the process dies.
StartFails(c) ==
  /\ \/ At(c, "load") /\ tree = NoTree
     \/ (At(c, "admit") \/ At(c, "stage")) /\ tree # want[c]
     \/ (At(c, "child") \/ At(c, "start")) /\ ChildTree(c) # want[c]
  /\ Return(c, FALSE)
  /\ UNCHANGED <<env, manifest, token, factory, monitor, fencing>>

\* The handshake has a deadline, whatever the process does, and a cancelled
\* context kills the process: fail() cleans up, no session exists.
HandshakeTimeout(c) ==
  /\ At(c, "child") \/ At(c, "start")
  /\ Return(c, FALSE)
  /\ UNCHANGED <<env, manifest, token, factory, monitor, fencing>>

\* Mutant: the flag is not looked at again when the worker is registered.
RegisterAlways(c) ==
  LET d == DaemonOf[c] IN
  /\ Move(c, "register", "embed")
  /\ workers' = [workers EXCEPT ![d] = @ \cup {c}]
  /\ UNCHANGED <<env, row, daemon, invalid, ready, cancelled, answered, want, loaded, session,
                 monitor, fencing>>

\* registerWorker: under the mutex, refused once the factory is invalid.
Register(c) ==
  LET d == DaemonOf[c] IN
  /\ ~invalid[d] /\ Move(c, "register", "embed")
  /\ workers' = [workers EXCEPT ![d] = @ \cup {c}]
  /\ UNCHANGED <<env, row, daemon, invalid, ready, cancelled, answered, want, loaded, session,
                 monitor, fencing>>

\* The negotiation wants a live session, the registration a valid factory.
RegisterFails(c) ==
  /\ At(c, "register")
  /\ invalid[DaemonOf[c]] \/ session[c] # "open" \/ cancelled[c]
  /\ Return(c, FALSE)
  /\ UNCHANGED <<env, manifest, token, factory, monitor, fencing>>

\* The provider refuses a request whose manifest is not the worker's; then
\* the request is written to the session.
Request(c) ==
  /\ manifest[DaemonOf[c]] = want[c] /\ ~cancelled[c] /\ session[c] = "open"
  /\ Move(c, "embed", "await")
  /\ UNCHANGED <<env, row, daemon, factory, cancelled, answered, want, loaded, session, monitor, fencing>>

RequestFails(c) ==
  /\ manifest[DaemonOf[c]] # want[c] \/ cancelled[c] \/ session[c] # "open"
  /\ Move(c, "embed", "unregister")
  /\ UNCHANGED <<env, row, daemon, factory, cancelled, answered, want, loaded, session, monitor, fencing>>

\* The worker's answer reaches the transport.
Reply(c) ==
  /\ session[c] = "open" /\ Move(c, "await", "replied")
  /\ UNCHANGED <<env, row, daemon, factory, cancelled, answered, want, loaded, session, monitor, fencing>>

\* The call takes the answer; with the session closed or the context done,
\* the select may as well take that.
TakeReply(c) ==
  /\ Move(c, "replied", "unregister")
  /\ answered' = [answered EXCEPT ![c] = TRUE]
  /\ ready' = [ready EXCEPT ![DaemonOf[c]] = TRUE]
  /\ UNCHANGED <<env, row, daemon, invalid, workers, cancelled, want, loaded, session, monitor, fencing>>

\* Mutant: the transport has no deadline of its own.
TransportEnds(c) ==
  /\ Move(c, "await", "unregister") \/ Move(c, "replied", "unregister")
  /\ cancelled[c] \/ session[c] # "open"
  /\ session' = [session EXCEPT ![c] = "closed"]
  /\ UNCHANGED <<env, row, daemon, factory, cancelled, answered, want, loaded, monitor, fencing>>

\* The context is done, the session ends, or the transport's own deadline
\* passes: the transport closes the session and kills the process.
TransportFails(c) ==
  /\ \/ Move(c, "await", "unregister")
     \/ Move(c, "replied", "unregister") /\ (cancelled[c] \/ session[c] # "open")
  /\ session' = [session EXCEPT ![c] = "closed"]
  /\ UNCHANGED <<env, row, daemon, factory, cancelled, answered, want, loaded, monitor, fencing>>

\* The deferred end of Embed.
Unregister(c) ==
  /\ Move(c, "unregister", "close")
  /\ workers' = [workers EXCEPT ![DaemonOf[c]] = @ \ {c}]
  /\ UNCHANGED <<env, row, daemon, invalid, ready, cancelled, answered, want, loaded, session,
                 monitor, fencing>>

CloseSession(c) ==
  /\ At(c, "close")
  /\ Return(c, answered[c])
  /\ UNCHANGED <<env, manifest, token, factory, monitor, fencing>>

\* The worker process dies.
ChildDies(c) ==
  /\ session[c] = "open"
  /\ session' = [session EXCEPT ![c] = "closed"]
  /\ UNCHANGED <<env, row, daemon, factory, pc, cancelled, answered, want, loaded, monitor, fencing>>

-----------------------------------------------------------------------------
(* monitorONNXWorkerLease.                                                  *)

\* Its tick runs validateFence under a context of its own.
MonitorTick(c) ==
  /\ monitor[c] = "watching" /\ session[c] = "open"
  /\ IF invalid[DaemonOf[c]]
     THEN /\ monitor' = [monitor EXCEPT ![c] = "off"]
          /\ session' = [session EXCEPT ![c] = "closed"]
     ELSE monitor' = [monitor EXCEPT ![c] = "renewing"] /\ UNCHANGED session
  /\ UNCHANGED <<env, row, daemon, factory, pc, cancelled, answered, want, loaded, fencing>>

MonitorRenews(c) ==
  /\ monitor[c] = "renewing" /\ RenewOK(DaemonOf[c])
  /\ monitor' = [monitor EXCEPT ![c] = "watching"]
  /\ UNCHANGED <<env, daemon, factory, pc, cancelled, answered, want, loaded, session, fencing>>

MonitorRefused(c) ==
  /\ monitor[c] = "renewing" /\ RenewFails(DaemonOf[c], FALSE)
  /\ monitor' = [monitor EXCEPT ![c] = "failing"] /\ Flag(c)
  /\ UNCHANGED <<env, daemon, pc, cancelled, answered, want, loaded, session>>

MonitorCloses(c) ==
  /\ monitor[c] = "failing" /\ Invalidated(c) /\ Finished(c)
  /\ monitor' = [monitor EXCEPT ![c] = "off"]
  /\ session' = [session EXCEPT ![c] = "closed"]
  /\ UNCHANGED <<env, row, daemon, factory, pc, cancelled, answered, want, loaded>>

\* The session is closed, or the call's context done, which closes it.
MonitorEnds(c) ==
  /\ monitor[c] = "watching" /\ (session[c] # "open" \/ cancelled[c])
  /\ monitor' = [monitor EXCEPT ![c] = "off"]
  /\ session' = [session EXCEPT ![c] = "closed"]
  /\ UNCHANGED <<env, row, daemon, factory, pc, cancelled, answered, want, loaded, fencing>>

-----------------------------------------------------------------------------
(* The daemon.                                                              *)

\* configureSemanticBinding: the bundle, the lease, the factory.
Configure(d) ==
  /\ mode[d] = "off" /\ tree # NoTree /\ Free
  /\ row' = Granted(row, d, TRUE)
  /\ token' = [token EXCEPT ![d] = row.token + 1]
  /\ manifest' = [manifest EXCEPT ![d] = tree]
  /\ mode' = [mode EXCEPT ![d] = "probing"]
  /\ UNCHANGED <<env, keeper, factory, call, fencing>>

\* Nothing retries it: the daemon runs without the capability.
ConfigureFails(d) ==
  /\ mode[d] = "off" /\ (tree = NoTree \/ row.live)
  /\ mode' = [mode EXCEPT ![d] = "unavailable"]
  /\ UNCHANGED <<env, row, manifest, token, keeper, factory, call, fencing>>

\* A daemon of the same catalogue of which only the lease matters here; it
\* keeps the lease, or has given it up again.
TakeOver(a) ==
  /\ a \notin Daemons /\ Free /\ row.holder # a
  /\ \E kept \in BOOLEAN : row' = Granted(row, a, kept)
  /\ UNCHANGED <<env, daemon, factory, call, fencing>>

\* keepSemanticLeaseAlive, at a third of the lease.
KeeperRenews(d) ==
  /\ keeper[d] = "running" /\ RenewOK(d)
  /\ UNCHANGED <<env, daemon, factory, call, fencing>>

\* Mutant: a renewal that fails is tried again at the next tick.
KeeperRetries(d) ==
  /\ keeper[d] = "running" /\ RenewFails(d, mode[d] = "stopping")
  /\ UNCHANGED <<env, daemon, factory, call, fencing>>

KeeperRefused(d) ==
  /\ keeper[d] = "running" /\ RenewFails(d, mode[d] = "stopping")
  /\ keeper' = [keeper EXCEPT ![d] = "failing"] /\ Flag(d)
  /\ UNCHANGED <<env, mode, manifest, token, call>>

KeeperEnds(d) ==
  /\ \/ keeper[d] = "failing" /\ Invalidated(d) /\ Finished(d)
     \/ keeper[d] = "running" /\ mode[d] = "stopping" /\ UNCHANGED fencing
  /\ keeper' = [keeper EXCEPT ![d] = "off"]
  /\ UNCHANGED <<env, row, mode, manifest, token, factory, call>>

\* The daemon shuts down: release stops the keepalive, waits for it,
\* invalidates the factory, then gives the lease up.
Stop(d) ==
  /\ mode[d] = "serving"
  /\ mode' = [mode EXCEPT ![d] = "stopping"]
  /\ UNCHANGED <<env, row, manifest, token, keeper, factory, call, fencing>>

ReleaseInvalidates(d) ==
  /\ mode[d] = "stopping" /\ keeper[d] = "off"
  /\ mode' = [mode EXCEPT ![d] = "releasing"] /\ Flag(d)
  /\ UNCHANGED <<env, row, manifest, token, keeper, call>>

Release(d) ==
  /\ mode[d] = "releasing" /\ Invalidated(d) /\ Finished(d)
  /\ mode' = [mode EXCEPT ![d] = "down"]
  /\ row' = IF HeldBy(row, d, token[d]) THEN Lapsed(row) ELSE row
  /\ UNCHANGED <<env, manifest, token, keeper, factory, call>>

\* The process ends, after the release or without it; its workers lose
\* their connection.
Exit(d) ==
  LET Reset(f, rest) == [c \in Calls |-> IF DaemonOf[c] = d THEN rest ELSE f[c]] IN
  /\ mode[d] \in {"probing", "serving", "stopping", "releasing", "down"}
  /\ mode' = [mode EXCEPT ![d] = "dead"]
  /\ keeper' = [keeper EXCEPT ![d] = "off"]
  /\ workers' = [workers EXCEPT ![d] = {}]
  /\ invalid' = [invalid EXCEPT ![d] = FALSE] /\ ready' = [ready EXCEPT ![d] = FALSE]
  /\ pc' = Reset(pc, "idle") /\ session' = Reset(session, "closed")
  /\ cancelled' = Reset(cancelled, FALSE) /\ answered' = Reset(answered, FALSE)
  /\ want' = Reset(want, NoTree) /\ loaded' = Reset(loaded, NoTree)
  /\ monitor' = Reset(monitor, "off")
  /\ inv' = [e \in Actors |-> IF HomeOf(e) = d THEN "no" ELSE inv[e]]
  /\ closing' = [e \in Actors |-> IF HomeOf(e) = d THEN {} ELSE closing[e]]
  /\ UNCHANGED <<env, row, manifest, token>>

\* The lease expires: nobody renewed it for five minutes.
Lapse ==
  /\ row.live /\ used.lapses < MaxLapses
  /\ row' = Lapsed(row)
  /\ used' = [used EXCEPT !.lapses = @ + 1]
  /\ UNCHANGED <<tree, sandboxed, daemon, factory, call, fencing>>

\* A bundle installation moves the tree away or puts another in its place.
ReplaceTree(t) ==
  /\ t # tree /\ used.replaced < MaxReplaced
  /\ tree' = t
  /\ used' = [used EXCEPT !.replaced = @ + 1]
  /\ UNCHANGED <<sandboxed, row, daemon, factory, call, fencing>>

CallStep(c) ==
  \/ Check(c) \/ CheckRefuses(c) \/ Renew(c) \/ RenewRefused(c) \/ RefusedReturns(c)
  \/ LoadBundle(c) \/ Admit(c) \/ StartFails(c) \/ HandshakeTimeout(c)
  \/ Register(c) \/ RegisterFails(c) \/ Request(c) \/ RequestFails(c)
  \/ TakeReply(c) \/ TransportFails(c) \/ Unregister(c) \/ CloseSession(c)

WorkerStep(c) == ChildAdmits(c) \/ ChildStarts(c) \/ Reply(c) \/ ChildDies(c)

MonitorStep(c) ==
  MonitorTick(c) \/ MonitorRenews(c) \/ MonitorRefused(c) \/ MonitorCloses(c) \/ MonitorEnds(c)

KeeperStep(d) == KeeperRenews(d) \/ KeeperRefused(d) \/ KeeperEnds(d)

ReleaseStep(d) == ReleaseInvalidates(d) \/ Release(d)

InvalidateStep(e) == Take(e) \/ \E c \in Calls : CloseTaken(e, c)

Next ==
  \/ \E c \in Calls : Begin(c) \/ Cancel(c) \/ CallStep(c) \/ WorkerStep(c) \/ MonitorStep(c)
  \/ \E d \in Daemons : \/ Configure(d) \/ ConfigureFails(d) \/ KeeperStep(d)
                        \/ Stop(d) \/ ReleaseStep(d) \/ Exit(d)
  \/ \E e \in Actors : InvalidateStep(e)
  \/ Lapse \/ \E a \in Attempt : TakeOver(a)
  \/ \E t \in Trees : ReplaceTree(t)

Spec == Init /\ [][Next]_vars

\* The goroutines run; nothing is assumed of the worker processes, of the
\* clients, of the lease's clock or of the installer.
FairSpec ==
  /\ Spec
  /\ \A c \in Calls : WF_vars(CallStep(c)) /\ WF_vars(MonitorStep(c))
  /\ \A d \in Daemons : WF_vars(KeeperStep(d)) /\ WF_vars(ReleaseStep(d))
  /\ \A e \in Actors : WF_vars(InvalidateStep(e))

-----------------------------------------------------------------------------
Registered(c) == c \in workers[DaemonOf[c]]
InUse(c) == pc[c] \in {"embed", "await", "replied"} /\ session[c] = "open"

\* Vectors are only ever computed by the bundle the daemon's index generation
\* is bound to, however the installer replaces the tree between the loads of
\* StartONNXWorker, the copy and the loads of the worker process
\* (onnx_supervisor.go:51, onnx_process_proof.go:420, onnx_semantic_provider.go:53).
VectorsOfTheManifest ==
  \A c \in Calls :
    pc[c] \in {"await", "replied"} \/ answered[c] => loaded[c] = manifest[DaemonOf[c]]

\* A worker in use when its factory is invalid is one that an Invalidate
\* still running will close: none slips between the flag, the taking of the
\* registered workers and registerWorker (onnx_provider_factory.go:114, :151).
InvalidStopsWorkers ==
  \A c \in Calls :
    invalid[DaemonOf[c]] /\ InUse(c) =>
      \E e \in Actors : \/ HomeOf(e) = DaemonOf[c] /\ inv[e] = "flagged" /\ Registered(c)
                        \/ c \in closing[e]

\* A provider is unavailable for want of its lease only when the daemon has
\* lost the lease or is shutting down (onnx_provider_factory.go:112-113,
\* :138 "semantic worker lease is unavailable").
UnavailableLostItsLease ==
  \A d \in Daemons :
    mode[d] = "serving" /\ invalid[d] => ~HeldBy(row, d, token[d])

\* A daemon whose lease was granted to someone else, or anew, stops its
\* workers: the keepalive finds out, and a takeover is never adopted
\* silently (main.go:253-255).
Superseded(d) == mode[d] = "serving" /\ row.token # token[d]

Stopped(d) ==
  \/ mode[d] # "serving"
  \/ /\ invalid[d] /\ keeper[d] = "off"
     /\ \A c \in Calls : DaemonOf[c] = d => ~InUse(c)

SupersededStops == \A d \in Daemons : Superseded(d) ~> Stopped(d)

\* Every Embed call returns, whatever its worker process does
\* (onnx_process_proof.go:662, onnx_worker_transport.go:259).
CallsReturn == \A c \in Calls : ~At(c, "idle") ~> At(c, "idle")
=============================================================================

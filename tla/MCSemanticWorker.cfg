\* A daemon with a probe and a call after it, and another daemon that takes over.
SPECIFICATION FairSpec
CONSTANTS
    d1 = d1
    Attempt = {d1, d2}
    Daemons = {d1}
    NoAttempt = NoAttempt
    Calls = {c1}
    DaemonOf <- FirstDaemon
    Profiles = {p1, p2}
    Installed = {p1}
    NoTree = NoTree
    SandboxSupport = {TRUE, FALSE}
    MaxReplaced = 1
    MaxCalls = 2
    MaxLapses = 1
    StoreErrors = FALSE
INVARIANTS
    VectorsOfTheManifest
    InvalidStopsWorkers
PROPERTIES
    SupersededStops
    CallsReturn
CHECK_DEADLOCK FALSE

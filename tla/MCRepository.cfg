SPECIFICATION Spec
CONSTANTS
    Procs <- MCProcs
    Config <- MCConfig
    Names <- MCNames
    Blobs = {"blob"}
    Records = {"commit"}
    Identities = {"id1", "id2"}
    MaxFaults = 2
INVARIANTS PlacedReceiptIsDurable ReceiptKeepsItsSetting OpenersAgree
CHECK_DEADLOCK FALSE

\* One source scanned twice, one note, two rebuilding goroutines, one querier.
SPECIFICATION IndexSpec
CONSTANTS
    s1 = s1
    Sources = {s1}
    Notes = {n1}
    SourceOf <- Subjects
    Clients = {c1, c2}
    Queriers = {q1}
    MaxScans = 2
    MaxGenerations = 3
    MaxFaults = 2
INVARIANTS
    GenerationIsOneFeed
    GenerationsNeverRegress
    DeletedNoteNeverAnswered
    AnswerIsOfTheFeed
    ReadyIsVerified
SYMMETRY Symmetric
VIEW Decisive
CHECK_DEADLOCK FALSE

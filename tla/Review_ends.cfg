SPECIFICATION Spec
CONSTANTS
    Sessions = {s1}
    Utterances = {"u1", "u2"}
    Calls = {c1, c2}
    Workers = {w1}
    JobIds = {1, 2, 3, 4}
    NoWorker = NoWorker
    MaxJobAttempts = 2
    JobLease = 2
    RetryDelay = 0
    Requests <- MCRequests
    JobTimeout <- MCShortTimeout
    CloseBudget = 0
    MaxFaults = 0
    Pauses = TRUE
    Polled = {s1}
SYMMETRY Twins
INVARIANTS ChargedForWhatIsKept EmptyIsFinal
PROPERTIES ImplementsContract

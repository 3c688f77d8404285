SPECIFICATION FairSpec
CONSTANTS
    Sessions = {s1}
    Utterances = {"u1", "u2"}
    Calls = {c1}
    Workers = {w1, w2}
    JobIds = {1, 2}
    NoWorker = NoWorker
    MaxJobAttempts = 2
    JobLease = 4
    RetryDelay = 1
    Requests <- MCSpokenOnly
    JobTimeout <- MCJobTimeout
    CloseBudget = 1
    MaxFaults = 2
    Pauses = FALSE
    Polled = {}
INVARIANTS LeaseExclusive AttemptsBounded DoneMeansReviewed
PROPERTIES EveryJobSettles AckedSettles

SPECIFICATION FairSpec
CONSTANTS
    Materials = {m1, m2}
    Refiners = {g1, g2}
    MaxRefineAttempts = 2
    Lease = 3
    JobTimeout = 1
    MaxFaults = 2
INVARIANTS OneRefiner CountedIsSaved
PROPERTY ProcessingExits

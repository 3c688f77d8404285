SPECIFICATION Spec
CONSTANTS
    None = None
    DayLength = 1
    MaxNow = 2
    Mixes <- MCMixes
    Me = me
    Guest = guest
    Ids = {1, 2, 3}
    FirstWords <- MCFirstWords
    Words = {"A", "B", "C"}
    Spellings = {1}
    Scenes = {"standup"}
    Sessions = {"s1"}
    StarterSession = "starter"
    Batches <- MCBatches
    Reasons = {"odd"}
    PageSize = 1
    DedupeScanLimit = 5
    Calls = {r1, r2}
    Processes = {app}
    Requests = {today}
    Visits = {r1, r2}
    Titles = {"t1"}
    Quotes <- MCQuotes
    Claims <- MCClaims
    CardsPerDay = 2
    MinBlocks = 1
    MaxBlocksPerCard = 2
    LookbackDays = 1
    MaxCards = 2
    Readers = {r1, r2}
    ReadProcesses = {p1, p2}
    Learners = {me, guest}
    MaxReads = 2
    Emits = {r1, r2}
    Turns = {1, 2}
    Texts <- MCTexts
    HitCandidateCap = 2
    DedupeTTL = 2
    DedupeCapacity = 1
    TokensOf <- MCTokensOf
    AnchorOf <- MCAnchorOf
    LengthOf <- MCLengthOf
    Stores = {"mysql", "memory"}
    SignalLimit = 3
    ReadLimit = 2
    SourceCandidateLimit = 3
    Callers = {r1, r2}
    Payer = me
    Routes <- MCRoutes
    ReviewEndpoint = "ep-review"
    Operations = {"daily.read", "drill.judge", "review.eval"}
    Serves <- MCServes
    Usages <- MCUsages
    ArkPricing <- MCArkPricing
    EndpointToModel <- MCEndpointToModel
    FamilyOf <- MCFamilyOf
    Million = 4
    KeyRank <- MCKeyRank
    MaxSummaryWindow = 2
    MaxSummaryRows = 2
    Speakers = {r1, r2}
    Sentences = {"x", "y"}
    VoiceIds = {"rescue_ladder", "other"}
    LookupVoice <- MCLookupVoice
    ServedSpeakers = {"uranus"}
    PiecesOf <- MCPiecesOf
    VolcTTSMaxAttempts = 2
    FallbackTriggerLimit = 1
    Student = me
    Visitor = guest
    Lists = {l1}
    Reports <- MCReports
    MaxUtterances = 2
    MaxRescueEvents = 2
    MaxLevel = 3
    JobAttempts = 2
    HistoryPage = 1
    MaxSessions = 3
INVARIANTS
    DeltaSyncLosesNothing
    PagesShowEach
    StreakHasItsDays
    ReadGeneratedOnce
    BadgeNotRepeated
    UsesAreEvidenced
    SummaryAddsUp
    OneSentencePerAnswer
    DetailIsNotAhead
SYMMETRY Symmetric
CHECK_DEADLOCK FALSE

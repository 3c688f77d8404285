SPECIFICATION FairSpec
CONSTANTS
    MaxTurns = 1
    MaxRungs = 3
    MaxReplies = 1
    Slots = {r1}
    FrameCount = 1
    Tail = TRUE
    Endings = {"session.end", "gone", "provider_audio_failed"}
    Says = {"complete", "half"}
    After <- MCAfter
INVARIANTS ReportedWasDelivered
PROPERTIES ExitReportComplete SilentUserClimbs
CHECK_DEADLOCK FALSE

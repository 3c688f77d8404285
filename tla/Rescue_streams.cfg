SPECIFICATION Spec
CONSTANTS
    MaxTurns = 2
    MaxRungs = 2
    MaxReplies = 0
    Slots = {r1, r2}
    FrameCount = 2
    Tail = TRUE
    Endings = {}
    Says = {"complete"}
    After <- MCEqual
SYMMETRY Twins
VIEW StreamView
INVARIANTS OneLiveRung TalkOverBounded
CHECK_DEADLOCK FALSE

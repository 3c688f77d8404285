SPECIFICATION Spec
CONSTANTS
    Blocks = {b1}
    Texts = {x1, x2}
    Turns = {t1, t2}
    Checkins = {k1}
    Calls = {c1, c2}
    Rounds = {}
    Store = "memory"
    PromoteStreak = 2
    FailInterval = 0
    TrainingInterval = 1
    AutomatedInterval = 1
    ReviewInterval = 2
    OverdueWindow = 1
    RoundSize = 1
    DailyNewBlockLimit = 1
    DayLength = 1
    MaxTime = 0
    MaxCalls = 3
    MaxFaults = 0
    MaxOthers = 2
    None = none
SYMMETRY Twins
INVARIANTS LadderConsistent StreakBacked
PROPERTY DeletedIsFrozen
CHECK_DEADLOCK FALSE

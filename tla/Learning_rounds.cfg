SPECIFICATION Spec
CONSTANTS
    Blocks = {b1, b2, b3}
    Texts = {x1, x2}
    Turns = {}
    Checkins = {}
    Calls = {c1, c2}
    Rounds = {r1}
    Store = "mysql"
    PromoteStreak = 1
    FailInterval = 0
    TrainingInterval = 1
    AutomatedInterval = 1
    ReviewInterval = 2
    OverdueWindow = 1
    RoundSize = 2
    DailyNewBlockLimit = 1
    DayLength = 2
    MaxTime = 3
    MaxCalls = 2
    MaxFaults = 1
    MaxOthers = 0
    None = none
SYMMETRY Twins
INVARIANT RoundIsFair
CHECK_DEADLOCK FALSE

SPECIFICATION Spec
CONSTANTS
    Wipers <- MCWipers
    Hard <- MCHard
    Calls = {c1, c2}
    Window = 0
    MaxFaults = 2
    MaxCalls = 3
SYMMETRY Twins
PROPERTIES DeletedIsOutOfSight UndeletedIsBack FailureIsCompensated
CHECK_DEADLOCK FALSE

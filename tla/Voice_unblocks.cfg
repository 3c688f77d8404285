\* A silent vendor, two faults, two sockets with one ticket: turns and teardown end.
SPECIFICATION Spec
CONSTANTS
    MaxUtterances = 1
    MaxDuplex = 2
    EventsCap = 1
    ReplyOrder <- MCReplyOrder
    MaxProviders = 2
    Sockets = {s1, s2}
    TurnLimit = 1
    MaxUpsets = 2
PROPERTIES TurnUnblocks TeardownEnds
CHECK_DEADLOCK FALSE

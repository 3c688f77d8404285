\* Two utterances, a fault, an interrupt: one connection of the voice gateway.
SPECIFICATION Spec
CONSTANTS
    MaxUtterances = 2
    MaxDuplex = 2
    EventsCap = 1
    ReplyOrder <- MCReplyOrder
    MaxProviders = 2
    Sockets = {s1}
    TurnLimit = 1
    MaxUpsets = 1
INVARIANTS ReplyArrivesOnce InterruptedAsHeard SavedIsComplete
CHECK_DEADLOCK FALSE

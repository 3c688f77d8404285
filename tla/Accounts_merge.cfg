SPECIFICATION Spec
CONSTANTS
    Users = {u1, u2, u3}
    Devices = {d1}
    Emails = {e1, e2}
    None = none
    Moved <- MCMoved
    OnePerUser = {"reads"}
    Calls = {c1, c2}
    MaxCalls = 3
    MaxFaults = 1
    MaxOthers = 3
SYMMETRY Twins
INVARIANT RowsStayInTheFamily
PROPERTIES MergeIsComplete GuestIsServed
CHECK_DEADLOCK FALSE

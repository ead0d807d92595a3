\* One or two databases, two requests at a time or one.
CONSTANTS
    Name = {1}
    Storage = {s0}
    Caller = {c1, c2}
    OneCaller = {c0}
    TwoStorages = {s1, s2}
    Boot = Boot
    None = None
    Requests <- AllRequests
    Edits = {"add", "delete"}
    MaxRequests = 3
    MaxEdits = 1
    EarlyRequests = FALSE
    Cancels = TRUE
    SlowHandlers = TRUE
SPECIFICATION AllSpec
SYMMETRY Symmetry
INVARIANTS
    AllMountedIsServed
    OnceRegisteredOnce
    SerialServedIsRecorded
    ClosingServesNothing
PROPERTIES
    SerialRemovedIsNotServed
CHECK_DEADLOCK FALSE

CONSTANTS
    Name = {1}
    Storage = {s1}
    Caller = {c1, c2}
    Boot = Boot
    None = None
    Requests = {"reload"}
    Edits = {}
    MaxRequests = 2
    MaxEdits = 0
    EarlyRequests = FALSE
    Cancels = FALSE
    SlowHandlers = FALSE
SPECIFICATION Spec
INVARIANTS
    ServedIsRecorded
CHECK_DEADLOCK FALSE

CONSTANTS
    Name = {1, 2}
    Storage = {s1, s2}
    Caller = {c1}
    Boot = Boot
    None = None
    Requests = {"reloadAll"}
    Edits = {"delete"}
    MaxRequests = 1
    MaxEdits = 2
    EarlyRequests = FALSE
    Cancels = FALSE
    SlowHandlers = FALSE
SPECIFICATION Spec
PROPERTIES
    ReloadAllForgets
CHECK_DEADLOCK FALSE

\* Requests of every kind once the server has started: two of two clients, and
\* a manifest that somebody adds.
CONSTANTS
    Name = {1}
    Storage = {s1}
    Caller = {c1, c2}
    Boot = Boot
    None = None
    Requests = {"create","connect","remove","reload","reloadAll"}
    Edits = {"add"}
    MaxRequests = 2
    MaxEdits = 1
    EarlyRequests = FALSE
    Cancels = TRUE
    SlowHandlers = TRUE
SPECIFICATION LiveSpec
INVARIANTS
    RegistryTypeOK
    NothingLeaks
PROPERTIES
    RequestsEnd
    MountingEnds
CHECK_DEADLOCK FALSE

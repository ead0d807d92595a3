\* The server handles two requests side by side.
CONSTANTS
    Client = {c1, b1}
    Session = {b1}
    Key = {"server.port", "server.cors"}
    CORS = "server.cors"
    InstallId = {i1, i2}
    None = None
    Server = Server
    Concurrent = TRUE
    MaxCommands = 3
    MaxEdits = 0
SPECIFICATION Spec
INVARIANTS
    DisabledStays
CHECK_DEADLOCK FALSE

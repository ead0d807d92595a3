\* Contexts: a command and a console session; Settings: two commands and a
\* session; Telemetry: two events, of every process; Storage: two names, two
\* requests, a link and a relative path to one place.
CONSTANTS
    Id = {"todo", "Todo", "shop"}
    Fold <- MCFold
    Directory = {"home", "plain", "deep", "repo"}
    Parent <- MCParent
    GitRoots = {"repo"}
    UserHome = "home"
    Path = {"/", "/lists"}
    Root = "/"
    Client = {c1, b1}
    Browser = {b1}
    None = None
    Junk = Junk
    Global = Global
    Overlap = FALSE
    Created = TRUE
    Failing = FALSE
    MaxCommands = 2
    SettingsClient = {c1, c2, b1}
    Session = {b1}
    Key = {"server.port", "server.cors"}
    CORS = "server.cors"
    Server = Server
    Concurrent = FALSE
    MaxEdits = 1
    SettingsId = {i1, i2}
    InstallId = {i1}
    EventId = {1, 2}
    ForcedOff = {"cli"}
    MaxBuffered = 1
    QueueSize = 1
    Spelling = {"data", "link", "relative", "home"}
    Real <- MCReal
    Absolute <- MCAbsolute
    Own = {"home"}
    StoredName = {n1, n2}
    Caller = {q1, q2}
    MaxEvents = 1
    Meets = FALSE
SPECIFICATION HomeSpec
SYMMETRY Symmetry
INVARIANTS
    HomeTypeOK
    ContextsForget
    ProjectsKeepContexts
    DecisionsHold
    NothingBeforeConsent
PROPERTIES
    FilesAreKept
CHECK_DEADLOCK FALSE

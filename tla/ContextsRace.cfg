CONSTANTS
    Id = {"todo", "Todo", "shop"}
    Fold <- MCFold
    Directory = {"home", "plain", "deep", "repo"}
    Parent <- MCParent
    GitRoots = {"repo"}
    UserHome = "home"
    Path = {"/", "/lists"}
    Root = "/"
    Client = {c1, b1}
    Browser = {b1}
    None = None
    Junk = Junk
    Global = Global
    Overlap = TRUE
    Created = TRUE
    Failing = FALSE
    MaxCommands = 2
SPECIFICATION Spec
INVARIANTS
    RemovedIsForgotten
CHECK_DEADLOCK FALSE

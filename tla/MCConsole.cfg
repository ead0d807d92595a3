\* Screens: two commands under way, by the options people use together;
\* Skills: two agents and a named folder; Demo: its own id and another one;
\* Data: two commands in two processes; Serve: two databases, three requests;
\* Cloud: two processes, two tokens; PublisherCheck: two commits, two manifests;
\* Client: one command and two servers, on two ports; Rights: two terms, one
\* recordset, two servers; Punycode: texts of a, c, d, -, and of two accented
\* letters and the division sign; Chains: three concepts, one with a values-of.
CONSTANTS
    None = None
    Database = {1}
    Name = {"a"}
    Depth = 2
    MaxPage = 1
    MaxWaiting = 2
    Menus = {
        {"browse", "databases"},
        {"create", "connect", "edit_name", "edit_manifest"},
        {"create", "databases", "edit_name"},
        {"create", "skills", "use"},
        {"databases", "use"},
        {"demo", "explore", "openApp"},
        {"demo", "skills", "installSkill"},
        {"server", "settings", "use_port"}}
    Harness = {h1, h2}
    First = h1
    Folder = {f1}
    Inside = {f1}
    Client = {"cli", "web", "old", "cli22", "web22"}
    Together = {{"cli"}, {"web"}, {"old"}, {"cli22"}, {"web22"}}
    Late = FALSE
    MaxChanges = 1
    Id = {"todo", "todo-demo"}
    DefaultId = "todo"
    Deletes = FALSE
    Eager = FALSE
    Process = {p1, p2}
    MaxId = 2
    MaxRuns = 2
    Limit = 1
    MaxOffset = 1
    MaxText = 4
    MaxDepth = 1
    Mounted = {d1, d2}
    Request = {r1, r2, r3}
    Store = {keyring}
    MaxTokens = 2
    Page = {a, b}
    Overlap = FALSE
    Commit = {c1, c2}
    MaxManifests = 2
    Terminal = {t1}
    Port = {1, 2}
    DefaultPort = 1
    MaxStarts = 2
    Takeover = FALSE
    Term = {free, paid}
    Recordset = {"album"}
    Server = {s1, s2}
    Public = {s1}
    Letter = {97, 99, 100, 45, 252, 224, 247}
    MaxLetters = 5
    Concept = {1, 2, 3}
    Taking = {1}
    Unknown = 0
    MaxChain = 2
SPECIFICATION ConsoleSpec
INVARIANTS
    ConsoleTypeOK
    KeysWaitForOne
    InstallsAsAgreed
    DataIsTold
    NothingIsLeft
CHECK_DEADLOCK FALSE

------------------------------- MODULE Screens -------------------------------
(***************************************************************************)
(* The terminal interface (internal/tui): one model, changed by keys and by  *)
(* the answers of commands that run meanwhile.  An answer is applied to its  *)
(* screen whenever it comes, in any order, whichever screen is shown then.   *)
(*                                                                         *)
(* What the local client answers is chosen here: any of its documents or an  *)
(* error with the next actions it may have.  Texts, layout, help, window     *)
(* sizes and what people type are left out; the consent step of a skill is   *)
(* in Skills, the usage question in Telemetry.                              *)
(***************************************************************************)
EXTENDS Naturals, Sequences, SequencesExt, FiniteSets

CONSTANTS
    Database,     \* ids of databases, numbers, in the order lists have
    Name,         \* names of collections and records
    Depth,        \* bound on the length of a path
    MaxPage,      \* bound on the pages of a collection
    MaxWaiting,   \* bound on the commands under way
    Menus,        \* by instance: the options of Home, and the next actions, people take
    None

\* Who takes the remedy that opens Connect takes the option that does, too.
ASSUME MenusAssumption ==
    /\ \A m \in Menus : "edit_manifest" \in m => "connect" \in m
    /\ None # "connect"

Screen == {"home", "server", "settings", "result", "problem", "create", "databases",
           "browse", "demo", "connect", "skills", "explore"}
Path == UNION {[1 .. n -> Name] : n \in 0 .. Depth}
Database0 == Database \cup {None}
Location == [db : Database0, path : Path, page : 0 .. MaxPage]

\* Commands that read, and commands shown as under way until they answer.
Loads == {"home", "server", "config", "engines", "connectEngines", "databases",
          "browseDatabases", "page", "demo", "skills", "offer", "exploreMenu"}
Operations == {"startServer", "usePort", "stopServer", "openBrowser", "saveConfig", "createDatabase",
               "connectDatabase", "removeDatabase", "reloadDatabase", "useInProject",
               "installDemo", "openDemo", "installSkill", "exploreCLI", "exploreApp"}
Actions == {"browse", "databases", "use", "explore", "openApp", "installSkill", "skills"}
Remedies == {"use_port", "edit_name", "edit_location", "edit_manifest", "databases"}

VARIABLES
    menu,        \* the options and next actions people take
    screen, busy,
    waiting,     \* the commands under way: what they do, and where
    loaded,      \* screens whose document came
    server,      \* the actions the server document offers
    editing,     \* whether a port is being typed
    create, connect,  \* the step of each form, and what was chosen
    databases,   \* the list, its cursor and its view
    browse,      \* where Browse is, and what its page shows
    skills,      \* the consent step, and where it returns
    explore,     \* the view of Explore, and the database of its documents
    result,      \* the next actions of the Result, and their database
    problem,     \* the remedies of the Problem
    problemFrom  \* where its forms return

vars == <<menu, screen, busy, waiting, loaded, server, editing, create, connect, databases,
          browse, skills, explore, result, problem, problemFrom>>

Root == <<>>
Nowhere == [db |-> None, path |-> Root, page |-> 0]
Command(what, at) == [what |-> what, at |-> at]
At(db) == [Nowhere EXCEPT !.db = db]

\* Kind: a path names the root, a collection or a record.
Kind(path) ==
    IF path = Root THEN "root" ELSE IF Len(path) % 2 = 1 THEN "collection" ELSE "record"
Parent(path) == Front(path)

ScreensTypeOK ==
    /\ screen \in Screen /\ busy \in BOOLEAN /\ loaded \subseteq Screen
    /\ Len(waiting) <= MaxWaiting
    /\ \A i \in 1 .. Len(waiting) :
          waiting[i].what \in Loads \cup Operations /\ waiting[i].at \in Location
    /\ server \subseteq {"start", "restart", "stop", "open"} /\ editing \in BOOLEAN
    /\ create \in [step : {"choose", "manifest", "form"}, chosen : {None, "file", "manifest"}]
    /\ connect \in [step : {"choose", "manifest", "form"}, chosen : {None, "file", "manifest"}]
    /\ databases \in [list : SUBSET Database, cursor : 0 .. Cardinality(Database),
                      view : {"list", "details", "confirm"}, keep : BOOLEAN]
    /\ databases.cursor <= Cardinality(databases.list)
    /\ browse \in [view : {"databases", "list", "record"}, at : Location, page : Location,
                   more : BOOLEAN, typing : BOOLEAN, listed : BOOLEAN]
    /\ skills \in [consent : BOOLEAN, back : {"home", "result"}]
    /\ explore \in [view : {"menu", "cli", "app"}, db : Database0]
    /\ result \in [next : SUBSET Actions, db : Database0]
    /\ problem \subseteq Remedies
    /\ problemFrom \in {None, "connect"}

NewForm == [step |-> "choose", chosen |-> None]
NewDatabases == [list |-> {}, cursor |-> 0, view |-> "list", keep |-> TRUE]
NewBrowse(view, db) ==
    [view |-> view, at |-> At(db), page |-> Nowhere, more |-> FALSE, typing |-> FALSE, listed |-> FALSE]

\* New, Init: Home, and its document under way.
Init ==
    /\ menu \in Menus
    /\ screen = "home" /\ busy = FALSE /\ waiting = <<Command("home", Nowhere)>> /\ loaded = {}
    /\ server = {} /\ editing = FALSE /\ create = NewForm /\ connect = NewForm
    /\ databases = NewDatabases /\ browse = NewBrowse("databases", None)
    /\ skills = [consent |-> FALSE, back |-> "home"]
    /\ explore = [view |-> "menu", db |-> None] /\ result = [next |-> {}, db |-> None]
    /\ problem = {} /\ problemFrom = None

-----------------------------------------------------------------------------
(* Commands *)

\* A key starts a command; the model goes on.
Load(what, at) ==
    /\ Len(waiting) < MaxWaiting
    /\ waiting' = Append(waiting, Command(what, at)) /\ UNCHANGED busy

\* busyState: keys do nothing until an answer ends it.
Run(what, at) ==
    /\ Len(waiting) < MaxWaiting
    /\ waiting' = Append(waiting, Command(what, at)) /\ busy' = TRUE

NoCommand == UNCHANGED <<waiting, busy>>
Forms == <<create, connect>>
Lists == <<server, editing, databases, browse, skills, explore>>
Ends == <<result, problem>>

Enter(to) == screen' = to /\ loaded' = loaded \ {to}

EnterHome == Enter("home") /\ Load("home", Nowhere)

\* backHome
BackHome ==
    /\ EnterHome /\ problemFrom' = None
    /\ UNCHANGED <<menu, Forms, Lists, Ends>>

-----------------------------------------------------------------------------
(* Entering screens; each leaves what it does not mention as it was *)

EnterServer ==
    /\ Enter("server") /\ Load("server", Nowhere)
    /\ UNCHANGED <<Forms, Lists>>

EnterSettings ==
    /\ Enter("settings") /\ Load("config", Nowhere)
    /\ editing' = FALSE
    /\ UNCHANGED <<Forms, server, databases, browse, skills, explore>>

\* enterCreate
EnterCreate ==
    /\ Enter("create") /\ Load("engines", Nowhere)
    /\ create' = NewForm
    /\ UNCHANGED <<connect, Lists>>

\* enterConnect
EnterConnect ==
    /\ Enter("connect") /\ Load("connectEngines", Nowhere)
    /\ connect' = NewForm
    /\ UNCHANGED <<create, Lists>>

\* enterConnectManifest
EnterConnectManifest ==
    /\ Enter("connect") /\ Load("connectEngines", Nowhere)
    /\ connect' = [step |-> "manifest", chosen |-> create.chosen]
    /\ UNCHANGED <<create, Lists>>

\* enterDatabases
EnterDatabases ==
    /\ Enter("databases") /\ Load("databases", Nowhere)
    /\ databases' = NewDatabases
    /\ UNCHANGED <<Forms, server, editing, browse, skills, explore>>

\* enterBrowse
EnterBrowse ==
    /\ Enter("browse") /\ Load("browseDatabases", Nowhere)
    /\ browse' = NewBrowse("databases", None)
    /\ UNCHANGED <<Forms, server, editing, databases, skills, explore>>

\* browseDatabase
BrowseDatabase(db) ==
    /\ Enter("browse") /\ Load("page", At(db))
    /\ browse' = NewBrowse("list", db)
    /\ UNCHANGED <<Forms, server, editing, databases, skills, explore>>

\* browseTo
BrowseTo(path, page) ==
    LET at == [browse.at EXCEPT !.path = path, !.page = page] IN
    /\ Enter("browse") /\ Load("page", at)
    /\ browse' = [browse EXCEPT !.at = at, !.typing = FALSE,
                     !.view = IF Kind(path) = "record" THEN "record" ELSE "list"]
    /\ UNCHANGED <<Forms, server, editing, databases, skills, explore>>

\* enterDemo
EnterDemo == Enter("demo") /\ Load("demo", Nowhere) /\ UNCHANGED <<Forms, Lists>>

\* enterSkills
EnterSkills ==
    /\ Enter("skills") /\ Load("skills", Nowhere)
    /\ skills' = [consent |-> FALSE, back |-> "home"]
    /\ UNCHANGED <<Forms, server, editing, databases, browse, explore>>

\* offerSkill
OfferSkill ==
    /\ Enter("skills") /\ Load("offer", Nowhere)
    /\ skills' = [consent |-> FALSE, back |-> "result"]
    /\ UNCHANGED <<Forms, server, editing, databases, browse, explore>>

\* enterExplore, exploreDatabase: of the current database or of this one.
EnterExplore(db) ==
    /\ Enter("explore") /\ Load("exploreMenu", At(db))
    /\ explore' = [view |-> "menu", db |-> None]
    /\ UNCHANGED <<Forms, server, editing, databases, browse, skills>>

-----------------------------------------------------------------------------
(* Keys *)

\* handleKey: none while something is under way.
Key(on) == screen = on /\ ~busy
Entering == UNCHANGED <<menu, Ends, problemFrom>>
Staying == UNCHANGED <<menu, screen, loaded, Ends, problemFrom>>

\* updateHome, screenFor
HomeKey ==
    /\ Key("home") /\ "home" \in loaded /\ Entering
    /\ \/ "server" \in menu /\ EnterServer
       \/ "settings" \in menu /\ EnterSettings
       \/ "create" \in menu /\ EnterCreate
       \/ "connect" \in menu /\ EnterConnect
       \/ "databases" \in menu /\ EnterDatabases
       \/ "browse" \in menu /\ EnterBrowse
       \/ "demo" \in menu /\ EnterDemo
       \/ "skills" \in menu /\ EnterSkills
       \/ "explore" \in menu /\ EnterExplore(None)

\* menu: opening a browser is offered while a server runs.
ServerMenu ==
    server \cup (IF "server" \in loaded /\ "stop" \in server THEN {"open"} ELSE {})

\* updateServer
ServerKey ==
    /\ Key("server") /\ Staying
    /\ \E action \in ServerMenu :
          Run(CASE action \in {"start", "restart"} -> "startServer"
                [] action = "stop" -> "stopServer"
                [] action = "open" -> "openBrowser", Nowhere)
    /\ UNCHANGED <<Forms, Lists>>

\* updateSettings; a port that is not one stays in the field.
SettingsKey ==
    /\ Key("settings") /\ Staying
    /\ \/ editing /\ Run("saveConfig", Nowhere) /\ UNCHANGED editing
       \/ editing' = ~editing /\ NoCommand
    /\ UNCHANGED <<Forms, server, databases, browse, skills, explore>>

\* updateServer, updateSettings, and the Esc of screens that call backHome.
Leave ==
    /\ \/ /\ screen = "server" \/ (screen = "settings" /\ ~editing)
          /\ ~busy /\ EnterHome
          /\ UNCHANGED <<menu, Forms, Lists, Ends, problemFrom>>
       \/ /\ ~busy
          /\ \/ screen \in {"result", "problem", "demo"}
             \/ screen = "create" /\ create.step = "choose"
             \/ screen = "connect" /\ connect.step = "choose"
             \/ screen = "databases" /\ databases.view = "list"
             \/ screen = "browse" /\ browse.view = "databases"
             \/ screen = "skills" /\ ~skills.consent
             \/ screen = "explore" /\ explore.view = "menu"
          /\ BackHome

\* updateCreate: a manifest-only engine has steps, another has a form.
CreateKey ==
    /\ Key("create")
    /\ \/ /\ create.step = "choose" /\ "create" \in loaded
          /\ \E engine \in {"file", "manifest"} :
                create' = [step |-> IF engine = "file" THEN "form" ELSE "manifest", chosen |-> engine]
          /\ NoCommand /\ Staying /\ UNCHANGED <<connect, Lists>>
       \/ /\ create.step # "choose" /\ create' = [create EXCEPT !.step = "choose"]
          /\ NoCommand /\ Staying /\ UNCHANGED <<connect, Lists>>
       \/ create.step = "manifest" /\ "connect" \in menu /\ EnterConnectManifest /\ Entering

\* updateCreateForm
CreateForm ==
    /\ Key("create") /\ create.step = "form" /\ Staying
    /\ Run("createDatabase", Nowhere)
    /\ UNCHANGED <<Forms, Lists>>

\* updateConnect
ConnectKey ==
    /\ Key("connect") /\ Staying
    /\ \/ /\ connect.step = "choose" /\ "connect" \in loaded
          /\ \/ connect' = [step |-> "form", chosen |-> "file"]
             \/ \E engine \in {None, "manifest"} : connect' = [step |-> "manifest", chosen |-> engine]
       \/ connect.step # "choose" /\ connect' = [connect EXCEPT !.step = "choose"]
    /\ NoCommand /\ UNCHANGED <<create, Lists>>

\* updateConnectForm, updateConnectManifest
ConnectForm ==
    /\ Key("connect") /\ connect.step # "choose" /\ Staying
    /\ Run("connectDatabase", Nowhere)
    /\ UNCHANGED <<Forms, Lists>>

-----------------------------------------------------------------------------
(* Databases *)

\* selectedDatabase: the one at the cursor, if any.
Selected == {db \in databases.list : Cardinality({d \in databases.list : d < db}) = databases.cursor}

DatabasesMove(change) ==
    /\ databases' = change
    /\ NoCommand /\ Staying /\ UNCHANGED <<Forms, server, editing, browse, skills, explore>>

\* updateDatabases: the list.
DatabasesList ==
    /\ Key("databases") /\ databases.view = "list"
    /\ \/ \E cursor \in 0 .. Cardinality(databases.list) :
             DatabasesMove([databases EXCEPT !.cursor = cursor])
       \/ /\ "databases" \in loaded /\ databases.cursor < Cardinality(databases.list)
          /\ DatabasesMove([databases EXCEPT !.view = "details"])
       \/ /\ "databases" \in loaded /\ databases.cursor = Cardinality(databases.list)
          /\ "create" \in menu /\ EnterCreate /\ Entering

\* removeSelected, reloadSelected
OnSelected(what) ==
    /\ \E db \in Selected : Run(what, At(db))
    /\ databases' = [databases EXCEPT !.view = "list"]
    /\ Staying /\ UNCHANGED <<Forms, server, editing, browse, skills, explore>>

\* updateDatabases: the details of one.
DatabasesDetails ==
    /\ Key("databases") /\ databases.view = "details"
    /\ \/ DatabasesMove([databases EXCEPT !.view = "list"])
       \/ DatabasesMove([databases EXCEPT !.view = "confirm", !.keep = TRUE])
       \/ "browse" \in menu /\ \E db \in Selected : BrowseDatabase(db) /\ Entering
       \/ \E db \in Selected : Run("useInProject", At(db)) /\ Staying /\ UNCHANGED <<Forms, Lists>>
       \/ OnSelected("reloadDatabase")

\* updateDatabases: the question before a removal.
DatabasesConfirm ==
    /\ Key("databases") /\ databases.view = "confirm"
    /\ \/ DatabasesMove([databases EXCEPT !.keep = ~databases.keep])
       \/ DatabasesMove([databases EXCEPT !.view = "details"])
       \/ OnSelected("removeDatabase")

-----------------------------------------------------------------------------
(* Browse *)

\* updateBrowse: the databases, and a page of collections or records.
BrowseDatabases ==
    /\ Key("browse") /\ browse.view = "databases" /\ "browse" \in loaded /\ browse.listed /\ Entering
    /\ \E db \in Database : BrowseDatabase(db)

BrowseList ==
    /\ Key("browse") /\ browse.view = "list" /\ Entering
    /\ \/ /\ "browse" \in loaded /\ browse.more /\ browse.at.page < MaxPage
          /\ BrowseTo(browse.at.path, browse.at.page + 1)
       \/ "browse" \in loaded /\ browse.at.page > 0 /\ BrowseTo(browse.at.path, browse.at.page - 1)
       \/ /\ "browse" \in loaded /\ Len(browse.page.path) < Depth
          /\ \E name \in Name : BrowseTo(Append(browse.page.path, name), 0)
       \/ browse.at.path = Root /\ EnterBrowse
       \/ browse.at.path # Root /\ BrowseTo(Parent(browse.at.path), 0)

\* updateBrowse: a record, and the name of a collection under it.
BrowseRecord ==
    /\ Key("browse") /\ browse.view = "record"
    /\ \/ ~browse.typing /\ BrowseTo(Parent(browse.at.path), 0) /\ Entering
       \/ /\ browse.typing /\ Len(browse.at.path) < Depth
          /\ \E name \in Name : BrowseTo(Append(browse.at.path, name), 0) /\ Entering
       \/ /\ browse' = [browse EXCEPT !.typing = ~browse.typing]
          /\ NoCommand /\ Staying /\ UNCHANGED <<Forms, server, editing, databases, skills, explore>>

-----------------------------------------------------------------------------
(* Demo, skills, explore *)

\* updateDemo
DemoKey ==
    /\ Key("demo") /\ "demo" \in loaded /\ Staying
    /\ Run("installDemo", Nowhere)
    /\ UNCHANGED <<Forms, Lists>>

\* updateSkills; skillsBack returns where the consent step was opened from.
SkillsKey ==
    /\ Key("skills") /\ "skills" \in loaded
    /\ \/ ~skills.consent /\ skills' = [skills EXCEPT !.consent = TRUE] /\ NoCommand /\ Staying
       \/ skills.consent /\ Run("installSkill", Nowhere) /\ Staying /\ UNCHANGED skills
       \/ /\ skills.consent /\ skills.back = "home"
          /\ skills' = [skills EXCEPT !.consent = FALSE] /\ NoCommand /\ Staying
       \/ /\ skills.consent /\ skills.back = "result"
          /\ screen' = "result" /\ UNCHANGED <<menu, loaded, Ends, problemFrom, skills>> /\ NoCommand
    /\ UNCHANGED <<Forms, server, editing, databases, browse, explore>>

\* updateExplore
ExploreKey ==
    /\ Key("explore") /\ Staying
    /\ \/ /\ explore.view = "menu" /\ "explore" \in loaded
          /\ \/ Run("exploreCLI", At(explore.db)) /\ UNCHANGED explore
             \/ explore' = [explore EXCEPT !.view = "app"] /\ NoCommand
       \/ explore.view # "menu" /\ explore' = [explore EXCEPT !.view = "menu"] /\ NoCommand
       \/ /\ explore.view = "app" /\ explore' = [explore EXCEPT !.view = "menu"]
          /\ Run("exploreCLI", At(explore.db))
       \/ explore.view = "app" /\ Run("exploreApp", Nowhere) /\ UNCHANGED explore
    /\ UNCHANGED <<Forms, server, editing, databases, browse, skills>>

-----------------------------------------------------------------------------
(* Result and Problem *)

\* updateResult: the next actions that have a key.
ResultKey ==
    /\ Key("result")
    /\ \/ "installSkill" \in result.next \cap menu /\ OfferSkill /\ Entering
       \/ "skills" \in result.next \cap menu /\ EnterSkills /\ Entering
       \/ "browse" \in result.next \cap menu /\ BrowseDatabase(result.db) /\ Entering
       \/ "databases" \in result.next \cap menu /\ EnterDatabases /\ Entering
       \/ "explore" \in result.next \cap menu /\ EnterExplore(result.db) /\ Entering
       \/ /\ "use" \in result.next \cap menu /\ Run("useInProject", At(result.db))
          /\ Staying /\ UNCHANGED <<Forms, Lists>>
       \/ /\ "openApp" \in result.next \cap menu /\ Run("openDemo", Nowhere)
          /\ Staying /\ UNCHANGED <<Forms, Lists>>

\* createRemedy
CreateRemedy ==
    /\ screen' = "create" /\ create' = [create EXCEPT !.step = "form"]
    /\ NoCommand /\ UNCHANGED <<loaded, connect, Lists>>

\* connectRemedy
ConnectRemedy(n) ==
    /\ screen' = "connect" /\ NoCommand
    /\ connect' = [connect EXCEPT !.step = IF n = "edit_manifest" THEN "manifest"
                                           ELSE IF @ = "manifest" THEN @ ELSE "form"]
    /\ UNCHANGED <<loaded, create, Lists>>

\* updateProblem
ProblemKey ==
    /\ Key("problem") /\ UNCHANGED <<menu, Ends>>
    /\ \E n \in problem \cap menu :
       LET edit == n \in {"edit_name", "edit_location", "edit_manifest"} IN
       /\ IF n = "use_port"
          THEN /\ Run("usePort", Nowhere)
               /\ UNCHANGED <<screen, loaded, Forms, Lists, problemFrom>>
          ELSE IF problemFrom = "connect" /\ edit
          THEN problemFrom' = None /\ ConnectRemedy(n)
          ELSE /\ UNCHANGED problemFrom
               /\ \/ n = "edit_manifest" /\ EnterConnectManifest
                  \/ /\ n \in {"edit_name", "edit_location"} /\ create.chosen # None
                     /\ CreateRemedy
                  \/ n = "databases" /\ EnterDatabases

-----------------------------------------------------------------------------
(* Answers *)

\* The next actions an error of this command may have.
NextOf(what) ==
    CASE what = "createDatabase" -> {"edit_name", "edit_location", "edit_manifest", "databases"}
      [] what = "connectDatabase" -> {"edit_name", "edit_location", "edit_manifest", "databases"}
      [] what = "installDemo" -> {"edit_name", "databases"}
      [] what \in {"startServer", "usePort"} -> {"use_port"}
      [] what \in {"removeDatabase", "reloadDatabase", "useInProject", "exploreMenu", "exploreCLI"} -> {"databases"}
      [] OTHER -> {}

\* The next actions of a Result.
ResultOf(what) ==
    CASE what \in {"createDatabase", "connectDatabase"} -> {"browse", "use", "skills"}
      [] what = "installDemo" -> {"openApp", "installSkill", "explore"}
      [] what = "useInProject" -> {"browse"}
      [] what \in {"removeDatabase", "reloadDatabase"} -> {"databases"}
      [] what = "installSkill" -> {"openApp", "skills"}
      [] OTHER -> {}

\* asProblem, setError: on the Problem screen, wherever the person is.
Fails(c) ==
    /\ screen' = "problem"
    /\ \E n \in {{}} \cup {{r} : r \in NextOf(c.what)} \cup {NextOf(c.what)} :
          problem' = n
    /\ problemFrom' = IF c.what = "connectDatabase" THEN "connect" ELSE problemFrom
    /\ UNCHANGED <<loaded, Forms, Lists, result>>

Shows(what) == loaded' = loaded \cup {what}

\* Mutant: a shorter list leaves the cursor where it was.
Anywhere(cursor, list) == cursor

\* databasesLoadedMsg: the cursor stays on the list or on its last option.
Within(cursor, list) == IF cursor <= Cardinality(list) THEN cursor ELSE Cardinality(list)

\* A document for the screen that asked, whichever is shown.
LoadAnswers(c) ==
    /\ UNCHANGED <<Forms, Ends, problemFrom>>
    /\ \/ /\ c.what = "home" /\ Shows("home") /\ UNCHANGED <<screen, Lists>>
       \/ /\ c.what = "server" /\ Shows("server")
          /\ \E offers \in {{"start"}, {"restart", "stop"}} : server' = offers
          /\ UNCHANGED <<screen, editing, databases, browse, skills, explore>>
       \/ c.what = "config" /\ Shows("settings") /\ UNCHANGED <<screen, Lists>>
       \/ c.what = "engines" /\ Shows("create") /\ UNCHANGED <<screen, Lists>>
       \/ c.what = "connectEngines" /\ Shows("connect") /\ UNCHANGED <<screen, Lists>>
       \/ /\ c.what = "databases" /\ Shows("databases")
          /\ \E list \in SUBSET Database :
                databases' = [databases EXCEPT !.list = list, !.cursor = Within(@, list)]
          /\ UNCHANGED <<screen, server, editing, browse, skills, explore>>
       \/ /\ c.what = "browseDatabases" /\ Shows("browse")
          /\ browse' = [browse EXCEPT !.listed = TRUE]
          /\ UNCHANGED <<screen, server, editing, databases, skills, explore>>
       \/ /\ c.what \in {"skills", "offer"} /\ Shows("skills")
          /\ skills' = [skills EXCEPT !.consent = @ \/ c.what = "offer"]
          /\ UNCHANGED <<screen, server, editing, databases, browse, explore>>
       \/ /\ c.what = "exploreMenu" /\ Shows("explore")
          /\ \E db \in IF c.at.db = None THEN Database ELSE {c.at.db} :
                explore' = [view |-> "menu", db |-> db]
          /\ UNCHANGED <<screen, server, editing, databases, browse, skills>>

\* Mutant: a page is shown wherever the person went meanwhile.
AnyPage(c) ==
    /\ Shows("browse") /\ \E more \in BOOLEAN : browse' = [browse EXCEPT !.page = c.at, !.more = more]
    /\ UNCHANGED <<screen, Forms, Ends, problemFrom, server, editing, databases, skills, explore>>

\* updateBrowseLoaded: only the path tells whether the person left the page.
PageAnswers(c) ==
    IF c.at.path = browse.at.path
    THEN /\ Shows("browse")
         /\ \E more \in BOOLEAN : browse' = [browse EXCEPT !.page = c.at, !.more = more]
         /\ UNCHANGED <<screen, Forms, Ends, problemFrom, server, editing, databases, skills, explore>>
    ELSE UNCHANGED <<screen, loaded, Forms, Lists, Ends, problemFrom>>

Results(c) ==
    /\ screen' = "result"
    /\ \E db \in IF c.at.db = None THEN Database ELSE {c.at.db} :
          result' = [next |-> ResultOf(c.what), db |-> db]
    /\ UNCHANGED <<loaded, Lists, problem, problemFrom>>

\* demoLoadedMsg: an installed demo goes straight to its Result.
DemoAnswers(c) ==
    \/ Results([c EXCEPT !.what = "installDemo"]) /\ UNCHANGED Forms
    \/ Shows("demo") /\ UNCHANGED <<screen, Forms, Lists, Ends, problemFrom>>

\* serverActionMsg, loginLinkMsg, configSavedMsg, exploreCLIMsg, ...
OperationAnswers(c) ==
    \/ /\ c.what \in {"startServer", "usePort"}
       /\ screen' = "server" /\ Shows("server") /\ server' = {"restart", "stop"}
       /\ UNCHANGED <<Forms, Ends, problemFrom, editing, databases, browse, skills, explore>>
    \/ /\ c.what \in {"createDatabase", "connectDatabase"} /\ Results(c)
       /\ create' = IF c.what = "createDatabase" THEN NewForm ELSE create
       /\ connect' = IF c.what = "connectDatabase" THEN NewForm ELSE connect
    \/ /\ c.what \in {"stopServer", "removeDatabase", "reloadDatabase", "useInProject",
                      "installDemo", "installSkill"}
       /\ Results(c) /\ UNCHANGED Forms
    \/ c.what = "openDemo" /\ screen' = "result" /\ UNCHANGED <<loaded, Forms, Lists, Ends, problemFrom>>
    \/ /\ c.what = "saveConfig" /\ Shows("settings") /\ editing' = FALSE
       /\ UNCHANGED <<screen, Forms, Ends, problemFrom, server, databases, browse, skills, explore>>
    \/ /\ c.what = "exploreCLI" /\ explore' = [explore EXCEPT !.view = "cli"]
       /\ UNCHANGED <<screen, loaded, Forms, Ends, problemFrom, server, editing, databases, browse, skills>>
    \/ /\ c.what \in {"openBrowser", "exploreApp"}
       /\ UNCHANGED <<screen, loaded, Forms, Lists, Ends, problemFrom>>

\* Mutant: whatever answer comes ends what is under way.
AllFree(c) == TRUE

\* The answers that end what is under way.
Frees(c) == c.what \in Operations \/ c.what = "connectEngines"

\* update: an answer comes.
Answer(i) ==
    LET c == waiting[i] IN
    /\ waiting' = RemoveAt(waiting, i)
    /\ \/ /\ Fails(c) /\ c.what \notin {"home", "exploreApp"}
          /\ busy' = (busy /\ ~Frees(c))
       \/ /\ busy' = (busy /\ ~Frees(c))
          /\ \/ c.what = "page" /\ PageAnswers(c)
             \/ c.what = "demo" /\ DemoAnswers(c)
             \/ c.what \in Loads \ {"page", "demo"} /\ LoadAnswers(c)
             \/ c.what \in Operations /\ OperationAnswers(c)
    /\ UNCHANGED menu

Next ==
    \/ HomeKey \/ ServerKey \/ SettingsKey \/ Leave \/ CreateKey \/ CreateForm
    \/ ConnectKey \/ ConnectForm
    \/ DatabasesList \/ DatabasesDetails \/ DatabasesConfirm
    \/ BrowseDatabases \/ BrowseList \/ BrowseRecord
    \/ DemoKey \/ SkillsKey \/ ExploreKey \/ ResultKey \/ ProblemKey
    \/ \E i \in 1 .. Len(waiting) : Answer(i)

Spec == Init /\ [][Next]_vars

-----------------------------------------------------------------------------
(* Properties *)

\* Keys wait while an operation is under way and never for good: its answer is
\* still to come (model.go:89-91).  Two operations run at once only where
\* Connect's engines answer meanwhile (connect.go:98-101).
KeysWaitForOne ==
    LET working == {i \in 1 .. Len(waiting) : waiting[i].what \in Operations} IN
    /\ busy => working # {}
    /\ "connect" \notin menu => Cardinality(working) = (IF busy THEN 1 ELSE 0)
=============================================================================

-------------------------------- MODULE MCHome --------------------------------
(* Small instances, for TLC, of the modules about what OVDB home keeps for   *)
(* its owner: the current database, the settings, usage statistics, and the  *)
(* databases with their storage.  One of them is chosen in the initial state *)
(* and moves; the others stand still.                                        *)
EXTENDS Telemetry, TLC

CONSTANTS
    Id, Fold, Directory, Parent, GitRoots, UserHome, Path, Root, Client, Browser,
    Junk, Global, Overlap, Created, Failing, MaxCommands,
    SettingsClient, Session, Key, CORS, Server, Concurrent, MaxEdits, SettingsId,
    Spelling, Real, Absolute, Own, StoredName, Caller, MaxEvents, Meets

VARIABLES
    ids, stored, pc, command, listed, context, change, remover, ran,
    file, backups, holder, settingsPc, settingsCommand, attempt, next, decided, retired,
    settingsRan, edited,
    thing, theirs, registry, catalogue, staging, lingering, excused, mutex, job, events,
    part  \* the module that moves

X == INSTANCE Contexts
S == INSTANCE Settings WITH Client <- SettingsClient, InstallId <- SettingsId, pc <- settingsPc,
        command <- settingsCommand, ran <- settingsRan

\* Two ids that differ in case only, and another one.
MCFold == [id \in Id |-> IF id = "Todo" THEN "todo" ELSE id]
\* A Git repository and a folder with a folder in it, below the home directory.
MCParent == [d \in Directory |->
    CASE d = "deep" -> "plain" [] d = "repo" -> "plain" [] OTHER -> "home"]

\* A link, and a path of a manifest that lies beside it, lead to the data.
MCReal == [p \in Spelling |-> IF p \in {"link", "relative"} THEN "data" ELSE p]
MCAbsolute == [p \in Spelling |-> IF p = "relative" THEN "link" ELSE p]

D == INSTANCE Storage WITH Name <- StoredName, Path <- Spelling

\* Names of databases and requests are interchangeable in Storage.
Symmetry == Permutations(StoredName) \cup Permutations(Caller)

\* What the modules ask of the constants, and their theorems assume.
ASSUME HomeAssumption ==
    X!ContextsAssumption /\ S!SettingsAssumption /\ TelemetryAssumption /\ D!StorageAssumption

contextsVars == <<ids, stored, pc, command, listed, context, change, remover, ran>>
settingsVars == <<file, backups, holder, settingsPc, settingsCommand, attempt, next, decided,
                  retired, settingsRan, edited>>
storageVars == <<thing, theirs, registry, catalogue, staging, lingering, excused, mutex, job, events>>

HomeInit ==
    /\ part \in {"contexts", "settings", "telemetry", "storage"}
    /\ X!Init /\ S!Init /\ Init /\ D!Init
    /\ part # "contexts" => ids = {} /\ stored = [f \in X!File |-> None]
    \* A file that cannot be read is the global one or one half-way up.
    /\ \A f \in X!File : stored[f] = Junk => f \in {Global, "plain"}
    /\ part # "storage" => \A p \in DOMAIN thing : thing[p] # "no_tables"

HomeNext ==
    /\ \/ part = "contexts" /\ X!Next /\ UNCHANGED <<settingsVars, vars, storageVars>>
       \/ part = "settings" /\ S!Next /\ UNCHANGED <<contextsVars, vars, storageVars>>
       \/ part = "telemetry" /\ Next /\ UNCHANGED <<contextsVars, settingsVars, storageVars>>
       \/ part = "storage" /\ D!Next /\ UNCHANGED <<contextsVars, settingsVars, vars>>
    /\ UNCHANGED part

HomeSpec == HomeInit /\ [][HomeNext]_<<contextsVars, settingsVars, vars, storageVars, part>>

\* Every variable keeps its type, and every buffer and queue its bound.
HomeTypeOK ==
    CASE part = "contexts" -> X!ContextsTypeOK
      [] part = "settings" -> S!SettingsTypeOK
      [] part = "telemetry" -> TelemetryTypeOK
      [] part = "storage" -> D!StorageTypeOK

\* Once a removal has ended no context names its database: RemovedIsForgotten of
\* Contexts, when nothing overlaps a removal (store.go:309-310).
ContextsForget == part = "contexts" => X!RemovedIsForgotten

\* Project contexts apply in their project only: ContextsStayInProjects of
\* Contexts (project.go:45-48, store.go:227-229, 288-290).
ProjectsKeepContexts == part = "contexts" => X!ContextsStayInProjects

\* What people decided and set stays so until they say otherwise, when the
\* server handles one change at a time, and nothing is sent by a process that
\* may not send or under an id that no enable made: DecisionsLast of Settings,
\* SentByConsent of Telemetry (config.go:117-120, consent.go:193-219).
DecisionsHold ==
    /\ part = "settings" => S!DecisionsLast
    /\ part = "telemetry" => SentByConsent

\* The files of a home keep what people chose: a newer choice is not cleared, cd
\* moves only inside the database it found, and a config.yaml that cannot be read
\* is replaced only after it was copied: ChoicesLast and CdMoves of Contexts,
\* UnreadableIsKept of Settings (store.go:309-329, cli/context.go:189-211,
\* telemetry.go:37-40).  What people keep at a place is not touched by what
\* fails, and no database takes another's storage: StorageIsSafe of Storage
\* (databases.go:701-795, connect.go:143-221).
FilesAreKept == X!ChoicesLast /\ X!CdMoves /\ S!UnreadableIsKept /\ [](part = "storage" => D!StorageIsSafe)
=============================================================================

-------------------------------- MODULE Demo --------------------------------
(***************************************************************************)
(* The TODO demo (internal/setup/demo/demo.go, internal/setup/demostatus.go):*)
(* an install checks, creates the database, seeds its lists through the data *)
(* API, records the install, and undoes what it did when that fails.         *)
(*                                                                         *)
(* Installs run one at a time, under a mutex; commands that remove databases,*)
(* people who use the demo's folder and crashes of the server come between   *)
(* the steps.  The demo of an id is where demo.Location puts it.             *)
(***************************************************************************)
EXTENDS Naturals, FiniteSets

CONSTANTS
    Id, DefaultId,  \* database ids, and the one the demo takes by itself
    None,
    Deletes,        \* whether people delete the folder of a demo they removed
    Eager           \* whether people write to a demo before its install answered

VARIABLES
    folder,      \* by id: its folder under demos
    lists,       \* folders with the demo's lists in them
    notes,       \* folders with what people wrote
    registered,  \* by id: whether it is registered, with that folder or elsewhere
    recorded,    \* ids recorded in demos.json
    install,     \* the install that holds the mutex
    lost         \* whether an install ever deleted what people wrote

vars == <<folder, lists, notes, registered, recorded, install, lost>>

DemoTypeOK ==
    /\ folder \in [Id -> {"absent", "empty", "full"}]
    /\ lists \subseteq Id /\ notes \subseteq Id /\ recorded \subseteq Id
    /\ registered \in [Id -> {"no", "here", "elsewhere"}]
    /\ install = None \/
       install \in [id : Id, phase : {"create", "seed", "record", "remove", "delete", "reconnected"},
                    existed : BOOLEAN]
    /\ lost \in BOOLEAN

Init ==
    /\ folder \in [Id -> {"absent", "empty", "full"}]
    /\ lists = {} /\ notes = {id \in Id : folder[id] = "full"}
    /\ registered \in [Id -> {"no", "elsewhere"}]
    /\ recorded = {} /\ install = None /\ lost = FALSE

-----------------------------------------------------------------------------
(* What is installed *)

\* FindDemo: the registered databases that match a recorded install.
Found == {id \in recorded : registered[id] = "here"}

\* Inspect: the default id wins.
Installed(id) == id \in Found /\ (id = DefaultId \/ DefaultId \notin Found)

-----------------------------------------------------------------------------
(* Service.Install *)

Busy(id) == install # None /\ install.id = id
Step(id, phase, existed) == install' = [id |-> id, phase |-> phase, existed |-> existed]

\* InstallDemo, demoInstallCmd: without --id it is the default one.
Asked(id, explicit) == explicit \/ id = DefaultId

\* The installed demo is reported, and nothing is written.
Reported(id, explicit) == Found # {} /\ (~explicit \/ id \in Found)

\* Registry.Reconnect: the demo's own folder is served again as it is.
Reconnect(id) ==
    /\ id \in recorded
    /\ registered' = [registered EXCEPT ![id] = "here"]
    /\ Step(id, "reconnected", TRUE)

\* Install, up to the registry: another database of that id and a folder
\* with other files are refused.
Begin ==
    /\ install = None
    /\ \E id \in Id, explicit \in BOOLEAN :
          /\ Asked(id, explicit) /\ ~Reported(id, explicit)
          /\ registered[id] = "no"
          /\ IF folder[id] # "full"
             THEN Step(id, "create", folder[id] = "empty") /\ UNCHANGED registered
             ELSE Reconnect(id)
    /\ UNCHANGED <<folder, lists, notes, recorded, lost>>

\* Registry.Create, which checks once more that both are free (module
\* Registry); it refuses a folder that was filled since.
Create ==
    /\ install # None /\ install.phase = "create"
    /\ LET id == install.id IN
       \/ /\ registered[id] = "no" /\ folder[id] # "full"
          /\ registered' = [registered EXCEPT ![id] = "here"]
          /\ folder' = [folder EXCEPT ![id] = "full"]
          /\ Step(id, "seed", install.existed)
       \/ install' = None /\ UNCHANGED <<registered, folder>>
    /\ UNCHANGED <<lists, notes, recorded, lost>>

\* seedData: one batch of inserts through the data API, all or nothing.
SeedData(id) == registered[id] = "here" /\ lists' = lists \cup {id}

Seed ==
    /\ install # None /\ install.phase = "seed"
    /\ LET id == install.id IN
       \/ SeedData(id) /\ Step(id, "record", install.existed)
       \/ UNCHANGED lists /\ Step(id, "remove", install.existed)
    /\ UNCHANGED <<folder, notes, registered, recorded, lost>>

\* RecordDemo; when it fails a new demo is undone, one served again stays.
Record ==
    /\ install # None /\ install.phase \in {"record", "reconnected"}
    /\ LET id == install.id IN
       \/ recorded' = recorded \cup {id} /\ install' = None
       \/ /\ UNCHANGED recorded
          /\ IF install.phase = "record" THEN Step(id, "remove", install.existed) ELSE install' = None
    /\ UNCHANGED <<folder, lists, notes, registered, lost>>

\* undo, first half: without the removal the files stay.
UndoRemove ==
    /\ install # None /\ install.phase = "remove"
    /\ LET id == install.id IN
       \/ /\ registered[id] # "no"
          /\ registered' = [registered EXCEPT ![id] = "no"]
          /\ Step(id, "delete", install.existed)
       \/ install' = None /\ UNCHANGED registered
    /\ UNCHANGED <<folder, lists, notes, recorded, lost>>

\* Mutant: installing begins with a clean folder.
UndoDeletesFirst ==
    /\ install # None /\ install.phase \in {"delete", "reconnected"}
    /\ LET id == install.id IN
       /\ folder' = [folder EXCEPT ![id] = "absent"]
       /\ lists' = lists \ {id} /\ notes' = notes \ {id}
       /\ lost' = (lost \/ id \in notes)
    /\ install' = None
    /\ UNCHANGED <<registered, recorded>>

\* undo, second half: the folder, or what is in it when it was there.
UndoDelete ==
    /\ install # None /\ install.phase = "delete"
    /\ LET id == install.id IN
       /\ folder' = [folder EXCEPT ![id] = IF install.existed THEN "empty" ELSE "absent"]
       /\ lists' = lists \ {id} /\ notes' = notes \ {id}
       /\ lost' = (lost \/ id \in notes)
    /\ install' = None
    /\ UNCHANGED <<registered, recorded>>

-----------------------------------------------------------------------------
(* Meanwhile *)

\* The server dies; nothing finishes an install that was under way.
Crash ==
    /\ install # None /\ install' = None
    /\ UNCHANGED <<folder, lists, notes, registered, recorded, lost>>

\* Registry.Remove keeps the data, and demos.json.
Remove(id) ==
    /\ registered[id] # "no" /\ registered' = [registered EXCEPT ![id] = "no"]
    /\ UNCHANGED <<folder, lists, notes, recorded, install, lost>>

\* Another database of that id is created elsewhere.
CreateElsewhere(id) ==
    /\ registered[id] = "no" /\ registered' = [registered EXCEPT ![id] = "elsewhere"]
    /\ UNCHANGED <<folder, lists, notes, recorded, install, lost>>

\* An app, an agent or a person writes into the folder.
Write(id) ==
    /\ Eager \/ ~Busy(id)
    /\ notes' = notes \cup {id}
    /\ folder' = [folder EXCEPT ![id] = "full"]
    /\ UNCHANGED <<lists, registered, recorded, install, lost>>

\* People delete the folder of a database they removed.
DeleteFolder(id) ==
    /\ Deletes \/ id \notin recorded
    /\ registered[id] # "here" /\ ~Busy(id)
    /\ folder' = [folder EXCEPT ![id] = "absent"]
    /\ lists' = lists \ {id} /\ notes' = notes \ {id}
    /\ UNCHANGED <<registered, recorded, install, lost>>

Next ==
    \/ Begin \/ Create \/ Seed \/ Record \/ UndoRemove \/ UndoDelete \/ Crash
    \/ \E id \in Id : Remove(id) \/ CreateElsewhere(id) \/ Write(id) \/ DeleteFolder(id)

Spec == Init /\ [][Next]_vars

-----------------------------------------------------------------------------
(* Properties *)

\* Whoever is told that the demo is installed finds its lists, over crashes,
\* failed writes and removals (demo.go:175-178).
InstalledHasLists == \A id \in Id : Installed(id) => id \in lists

\* No install deletes what people wrote: the demo never overwrites
\* (demo.go:6-10).
NotesAreKept == ~lost

DemoIsWhole == InstalledHasLists /\ NotesAreKept
=============================================================================

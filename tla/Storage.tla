------------------------------- MODULE Storage -------------------------------
(* What creating, connecting and removing databases does to files: to the    *)
(* storage at a path, to the registry of manifests, to the catalogues of     *)
(* inferred schemas and to half-written manifests (setup/databases.go,       *)
(* setup/connect.go).  Creating and removing hold the registry's lock;       *)
(* connecting looks at the storage without it, each look within a deadline.  *)
(* Registry says what is mounted and served.                                 *)
EXTENDS Naturals

CONSTANTS
    Path,        \* spellings of places
    Real,        \* the place of each: links are followed
    Absolute,    \* what each path of a manifest is, from the manifest's folder
    Own,         \* OVDB's own folders
    Name,        \* ids of databases
    Caller,      \* requests at a time
    None,
    MaxEvents,   \* how often people change a place, a mount is late or the server ends
    Meets        \* do two requests work for one name, or does one look at what another makes?

Place == {Real[p] : p \in Path}

\* A full path is its own; what stands for nothing and for a server engine is
\* no path and no place.
StorageAssumption ==
    /\ Absolute \in [Path -> Path] /\ \A p \in Path : Absolute[Absolute[p]] = Absolute[p]
    /\ None \notin Path \cup Place \cup Name \cup Caller \cup {"remote"} /\ "remote" \notin Path
    /\ MaxEvents \in Nat

Folders == {"empty", "files", "ingitdb"}
SqliteFiles == {"no_tables", "tables"}  \* without and with a table that has an id
Things == {"missing"} \cup Folders \cup {"file", "side_file"} \cup SqliteFiles

VARIABLES
    thing,      \* what is at each place
    theirs,     \* what people know to be there (history)
    registry,   \* the path each name is registered with
    catalogue,  \* the place whose schema each name's catalogue holds
    staging,    \* the requests that have a half-written manifest
    lingering,  \* mounts that go on after their deadline: names and paths
    excused,    \* names with a late mount or a crash (history)
    mutex,      \* Registry.mu
    job,        \* what each request does
    events

storageVars == <<thing, theirs, registry, catalogue, staging, lingering, excused, mutex, job, events>>

Engines == {"ingitdb", "sqlite", "remote"}
Idle == [at |-> "idle", name |-> None, path |-> None, engine |-> None, own |-> FALSE, made |-> "nothing", known |-> FALSE]

StorageTypeOK ==
    /\ thing \in [Place -> Things] /\ theirs \in [Place -> Things]
    /\ registry \in [Name -> Path \cup {None, "remote"}] /\ catalogue \in [Name -> Place \cup {None}]
    /\ staging \subseteq Caller /\ lingering \subseteq Name \X Path /\ excused \subseteq Name
    /\ mutex \in Caller \cup {None} /\ events \in 0 .. MaxEvents
    /\ \A c \in Caller :
          /\ job[c].at \in {"idle", "create", "make", "mount_new", "register", "undo", "read", "plan", "probe",
                            "mount", "commit", "remove", "forget"}
          /\ job[c].name \in Name \cup {None} /\ job[c].path \in Path \cup {None}
          /\ job[c].engine \in Engines \cup {None} /\ job[c].known \in BOOLEAN /\ job[c].own \in BOOLEAN
          /\ job[c].made \in {"nothing", "folder", "marks", "file"}

Init ==
    /\ \E t \in [Place \ Own -> {"missing", "no_tables"}] :
          thing = [p \in Place |-> IF p \in Own THEN "empty" ELSE t[p]]
    /\ theirs = thing
    /\ registry = [n \in Name |-> None] /\ catalogue = [n \in Name |-> None]
    /\ staging = {} /\ lingering = {} /\ excused = {} /\ mutex = None /\ events = 0
    /\ job = [c \in Caller |-> Idle]

At(c, step) == job' = [job EXCEPT ![c].at = step]
Ends(c) == job' = [job EXCEPT ![c] = Idle]
There(c) == IF job[c].path = None THEN None ELSE Real[job[c].path]

WorksOn(n) == (\E c \in Caller : job[c].name = n) \/ (\E m \in lingering : m[1] = n)

Happens == events < MaxEvents /\ events' = events + 1

\* People put something at a place, or take it away, where OVDB does nothing.
Change ==
    /\ Happens
    /\ \E p \in Place \ Own, t \in Things :
          /\ \A c \in Caller : job[c].path # None => There(c) # p
          /\ \A n \in Name : registry[n] \in Path => Real[registry[n]] # p
          /\ thing' = [thing EXCEPT ![p] = t] /\ theirs' = [theirs EXCEPT ![p] = t]
    /\ UNCHANGED <<registry, catalogue, staging, lingering, excused, mutex, job>>

Starts(c, n, step, engine, path, own) ==
    /\ job[c].at = "idle" /\ (Meets \/ ~WorksOn(n))
    /\ job' = [job EXCEPT ![c] = [Idle EXCEPT !.at = step, !.name = n, !.engine = engine, !.path = path, !.own = own]]
    /\ UNCHANGED <<thing, theirs, registry, catalogue, staging, lingering, excused, mutex, events>>

\* A name, an engine and a full path are needed before anything is touched.
BeginCreate(c) ==
    \E n \in Name, p \in Path, e \in {"ingitdb", "sqlite"} : Absolute[p] = p /\ Starts(c, n, "create", e, p, FALSE)

\* A path is connected as it is, or a manifest people wrote: the only way to
\* a server engine, and the only place for a path that is not full.
BeginConnect(c) ==
    \/ \E n \in Name, p \in Path, e \in {"ingitdb", "sqlite"} : Absolute[p] = p /\ Starts(c, n, "plan", e, p, FALSE)
    \/ \E n \in Name, p \in Path, e \in {"ingitdb", "sqlite"} : Starts(c, n, "read", e, p, TRUE)
    \/ \E n \in Name : Starts(c, n, "read", "remote", None, TRUE)

BeginRemove(c) == \E n \in Name : registry[n] # None /\ Starts(c, n, "remove", None, None, FALSE)

-----------------------------------------------------------------------------
(* Is the name free, and the place? *)

\* A mutant of Resolved: paths are compared as they are spelled.
ResolvedNot(path) == path

Resolved(path) == Real[path]

\* Manifests that cannot be read are left out here.
ReadRegistry == {n \in Name : registry[n] # None}
LocalStorage(n) == registry[n] \in Path

\* A place that is OVDB's own, or another database's; a folder and what is in
\* it are one place.
LocationOverlaps(path) ==
    \/ Resolved(path) \in Own
    \/ \E n \in ReadRegistry : LocalStorage(n) /\ Resolved(registry[n]) = Resolved(path)

\* A new inGitDB database takes an empty folder, a new SQLite file no file.
LocationHoldsData(path, engine) ==
    thing[Real[path]] \notin (IF engine = "ingitdb" THEN {"missing", "empty"} ELSE {"missing"})

RegisteredAs(n) == n \in ReadRegistry

Available(c) ==
    /\ ~RegisteredAs(job[c].name)
    /\ job[c].path # None => ~LocationOverlaps(job[c].path)

\* A refusal changes nothing.
Refused(c) == Ends(c) /\ UNCHANGED <<thing, theirs, registry, catalogue, staging, lingering, excused, mutex, events>>

-----------------------------------------------------------------------------
(* Create *)

Create(c) ==
    /\ job[c].at = "create" /\ mutex = None
    /\ IF Available(c) /\ ~LocationHoldsData(job[c].path, job[c].engine)
       THEN /\ mutex' = c /\ At(c, "make")
            /\ UNCHANGED <<thing, theirs, registry, catalogue, staging, lingering, excused, events>>
       ELSE Refused(c)

\* The folder and its marks (.git, .ingitdb); SQLite's file is made by the
\* first mount.  What is new is remembered before it is made.
Made(c) ==
    CASE job[c].engine = "sqlite" -> "file"
      [] job[c].engine = "ingitdb" /\ thing[There(c)] = "missing" -> "folder"
      [] job[c].engine = "ingitdb" /\ thing[There(c)] # "missing" -> "marks"

MakeStorage(c) ==
    /\ job[c].at = "make"
    /\ \E step \in {"mount_new", "undo"} :
          job' = [job EXCEPT ![c].at = step, ![c].made = Made(c), ![c].known = catalogue[job[c].name] # None]
    /\ thing' = [thing EXCEPT ![There(c)] = IF job[c].engine = "ingitdb" THEN "ingitdb" ELSE @]
    /\ UNCHANGED <<theirs, registry, catalogue, staging, lingering, excused, mutex, events>>

\* A mount of a schemaless database keeps a catalogue of what it finds.  One
\* of SQLite makes the tables of its manifest that the file lacks.
Tabled(c) == thing' = [thing EXCEPT ![There(c)] = IF job[c].engine = "sqlite" THEN "tables" ELSE @]
Catalogued(c) ==
    catalogue' = [catalogue EXCEPT ![job[c].name] = IF @ = None /\ job[c].engine = "ingitdb" THEN There(c) ELSE @]

MountNew(c) ==
    /\ job[c].at = "mount_new" /\ staging' = staging \cup {c}
    /\ Tabled(c) /\ Catalogued(c) /\ (At(c, "register") \/ At(c, "undo"))
    /\ UNCHANGED <<theirs, registry, lingering, excused, mutex, events>>

\* The manifest is moved into the registry and the database served.
Registers(c) ==
    /\ registry' = [registry EXCEPT ![job[c].name] = IF job[c].path = None THEN "remote" ELSE job[c].path]
    /\ theirs' = thing /\ staging' = staging \ {c} /\ mutex' = None /\ Ends(c)
    /\ UNCHANGED <<thing, catalogue, lingering, excused, events>>

Register(c) ==
    /\ job[c].at = "register"
    /\ \/ Registers(c)
       \/ At(c, "undo") /\ UNCHANGED <<thing, theirs, registry, catalogue, staging, lingering, excused, mutex, events>>

\* The half-written manifest goes, and a catalogue that was not there before.
CleansUp(c) ==
    /\ staging' = staging \ {c}
    /\ catalogue' = [catalogue EXCEPT ![job[c].name] = IF job[c].known THEN @ ELSE None]

\* A mutant of Undo: the folder goes, whoever made it.
UndoAll(c) ==
    /\ job[c].at = "undo" /\ mutex' = None /\ Ends(c) /\ CleansUp(c)
    /\ thing' = [thing EXCEPT ![There(c)] = "missing"]
    /\ UNCHANGED <<theirs, registry, lingering, excused, events>>

\* A failed create removes exactly what it made.
Undo(c) ==
    /\ job[c].at = "undo" /\ mutex' = None /\ Ends(c) /\ CleansUp(c)
    /\ thing' = [thing EXCEPT ![There(c)] = IF job[c].made = "marks" THEN "empty" ELSE "missing"]
    /\ UNCHANGED <<theirs, registry, lingering, excused, events>>

-----------------------------------------------------------------------------
(* Connect *)

\* A step that touches people's files has a deadline, and may fail.
WithinDeadline(c, Step) == Step \/ Refused(c)

Moves(c, step) == At(c, step) /\ UNCHANGED <<thing, theirs, registry, catalogue, staging, lingering, excused, mutex, events>>

\* A mutant of AbsoluteManifest: the paths are copied as people wrote them.
AsWritten(c) == Moves(c, "plan")

\* OVDB keeps a copy of people's manifest, with full paths.
AbsoluteManifest(c) ==
    /\ job' = [job EXCEPT ![c].at = "plan", ![c].path = IF @ = None THEN None ELSE Absolute[@]]
    /\ UNCHANGED <<thing, theirs, registry, catalogue, staging, lingering, excused, mutex, events>>

\* Policies in files of their own cannot be copied, and are refused.
PlanManifest(c) == job[c].at = "read" /\ WithinDeadline(c, AbsoluteManifest(c))

\* Refused as registered, before the storage is looked at.
Plan(c) ==
    /\ job[c].at = "plan" /\ mutex = None
    /\ IF Available(c) THEN Moves(c, "probe") ELSE Refused(c)

\* A folder, or a file that starts as SQLite's do and is no other's side file.
CheckExistingStorage(c) == thing[There(c)] \in (IF job[c].engine = "ingitdb" THEN Folders ELSE SqliteFiles)

\* A mutant of NotInGitDB: any folder will do.
NotInGitDBNever(c) == FALSE

\* A folder without .ingitdb, such as a code project.
NotInGitDB(c) == job[c].engine = "ingitdb" /\ thing[There(c)] # "ingitdb"

\* A mutant of SqliteCollections: every file has tables.
SqliteCollectionsAll(c) == TRUE

\* The tables with an id column, read without a change to the file.
SqliteCollections(c) == thing[There(c)] = "tables"

\* The manifest OVDB writes for a file names the tables found in it.
Describe(c) == job[c].engine = "sqlite" => SqliteCollections(c)

\* What is there is looked at without the lock.  A server engine's variable
\* may not be set, SQLite may be busy and git may hang: all are refusals.
Probe(c) ==
    /\ job[c].at = "probe"
    /\ Meets \/ \A d \in Caller : job[d].at \in {"mount_new", "register", "undo"} => There(d) # There(c)
    /\ WithinDeadline(c,
          /\ job[c].path # None => CheckExistingStorage(c) /\ ~NotInGitDB(c) /\ (job[c].own \/ Describe(c))
          /\ job' = [job EXCEPT ![c].at = "mount", ![c].known = catalogue[job[c].name] # None]
          /\ staging' = staging \cup {c}
          /\ UNCHANGED <<thing, theirs, registry, catalogue, lingering, excused, mutex, events>>)

\* What people's own manifest adds to their file, they asked for.
Mounts(c) ==
    IF job[c].path = None
    THEN UNCHANGED <<thing, theirs, catalogue>>
    ELSE /\ Catalogued(c) /\ Tabled(c)
         /\ theirs' = IF job[c].own THEN [theirs EXCEPT ![There(c)] = thing'[There(c)]] ELSE theirs

\* The storage is mounted once.  A mount that does not end in time goes on.
MountStaging(c) ==
    /\ job[c].at = "mount"
    /\ \/ At(c, "commit") /\ Mounts(c) /\ UNCHANGED <<staging, lingering, excused, events>>
       \/ /\ CleansUp(c) /\ Ends(c) /\ UNCHANGED <<thing, theirs>>
          /\ \/ UNCHANGED <<lingering, excused, events>>
             \/ /\ job[c].path # None /\ Happens /\ lingering' = lingering \cup {<<job[c].name, job[c].path>>}
                /\ excused' = excused \cup {job[c].name}
    /\ UNCHANGED <<registry, mutex>>

\* A mount that came too late is closed; it may have written its catalogue.
CloseWhenDone ==
    /\ \E m \in lingering :
          /\ lingering' = lingering \ {m}
          /\ \/ UNCHANGED catalogue
             \/ catalogue[m[1]] = None /\ catalogue' = [catalogue EXCEPT ![m[1]] = Real[m[2]]]
    /\ UNCHANGED <<thing, theirs, registry, staging, excused, mutex, job, events>>

\* A mutant of Commit: what was available when it was planned still is.
CommitUnchecked(c) == job[c].at = "commit" /\ mutex = None /\ Registers(c)

\* Under the lock the name and the place are checked again.
Commit(c) ==
    /\ job[c].at = "commit" /\ mutex = None
    /\ \/ Available(c) /\ Registers(c)
       \/ CleansUp(c) /\ Ends(c) /\ UNCHANGED <<thing, theirs, registry, lingering, excused, mutex, events>>

-----------------------------------------------------------------------------
(* Remove: the data stays, the catalogue goes after the lock is free *)

Remove(c) ==
    /\ job[c].at = "remove" /\ mutex = None
    /\ \/ /\ registry' = [registry EXCEPT ![job[c].name] = None] /\ At(c, "forget")
          /\ UNCHANGED <<thing, theirs, catalogue, staging, lingering, excused, mutex, events>>
       \/ Refused(c)

Forget(c) ==
    /\ job[c].at = "forget" /\ Ends(c)
    /\ catalogue' = [catalogue EXCEPT ![job[c].name] = None]
    /\ UNCHANGED <<thing, theirs, registry, staging, lingering, excused, mutex, events>>

\* The server ends and another opens the registry: half-written manifests go.
Reopen ==
    /\ \E c \in Caller : job[c].at # "idle"
    /\ job' = [c \in Caller |-> Idle] /\ staging' = {} /\ lingering' = {} /\ mutex' = None
    /\ excused' = excused \cup {n \in Name : WorksOn(n)}
    /\ theirs' = thing /\ Happens
    /\ UNCHANGED <<thing, registry, catalogue>>

Next ==
    \/ Change \/ CloseWhenDone \/ Reopen
    \/ \E c \in Caller :
          \/ BeginCreate(c) \/ Create(c) \/ MakeStorage(c) \/ MountNew(c) \/ Register(c) \/ Undo(c)
          \/ BeginConnect(c) \/ PlanManifest(c) \/ Plan(c) \/ Probe(c) \/ MountStaging(c) \/ Commit(c) \/ BeginRemove(c) \/ Remove(c) \/ Forget(c)

Spec == Init /\ [][Next]_storageVars

-----------------------------------------------------------------------------
\* Whatever fails, comes late or happens at a time: what people have at a
\* place is as they left it, a request that failed leaves nothing of its own,
\* no two databases share a place whatever their paths look like, each has
\* real storage and the schema that was found in it (databases.go:701-795,
\* connect.go:143-221).
StorageIsSafe ==
    /\ mutex = None => thing = theirs
    /\ \A n \in Name : registry[n] \in Path =>
          /\ Real[registry[n]] \notin Own /\ Absolute[registry[n]] = registry[n]
          /\ thing[Real[registry[n]]] \in {"ingitdb", "tables"}
          /\ \A m \in Name \ {n} : registry[m] \in Path => Real[registry[m]] # Real[registry[n]]
          /\ (thing[Real[registry[n]]] = "ingitdb" /\ n \notin excused) => catalogue[n] = Real[registry[n]]
    /\ \A n \in Name : (registry[n] = None /\ ~WorksOn(n) /\ n \notin excused) => catalogue[n] = None
    /\ staging = {c \in Caller : c \in staging /\ job[c].at # "idle"}
=============================================================================

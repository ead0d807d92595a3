----------------------------- MODULE HomeProofs -----------------------------
(***************************************************************************)
(* Theorems about Storage, for any names, paths, places and requests, and  *)
(* about the home as the runs put it together.                             *)
(***************************************************************************)
EXTENDS ChoicesProofs

-----------------------------------------------------------------------------
(* Storage: the invariant *)

Making == {"make", "mount_new", "register", "undo"}  \* with Registry.mu
Looking == {"mount", "commit"}                        \* at people's storage, without it
JobSteps == {"idle", "create", "read", "plan", "probe", "remove", "forget"} \cup Making \cup Looking
Job == [at : JobSteps, name : StoredName \cup {None}, path : Spelling \cup {None},
        engine : D!Engines \cup {None}, own : BOOLEAN, made : {"nothing", "folder", "marks", "file"},
        known : BOOLEAN]

StorageTypes ==
    /\ thing \in [D!Place -> D!Things] /\ theirs \in [D!Place -> D!Things]
    /\ registry \in [StoredName -> Spelling \cup {None, "remote"}]
    /\ catalogue \in [StoredName -> D!Place \cup {None}]
    /\ staging \subseteq Caller /\ lingering \subseteq StoredName \X Spelling /\ excused \subseteq StoredName
    /\ mutex \in Caller \cup {None} /\ events \in 0 .. MaxEvents
    /\ job \in [Caller -> Job]

\* What a request works on; paths are full once they were looked at.
HasStorage(j) == j.path \in Spelling /\ j.engine \in {"ingitdb", "sqlite"}
Sound(j) ==
    /\ IF j.at = "idle" THEN j.name = None /\ j.path = None ELSE j.name \in StoredName
    /\ j.at \in {"create"} \cup Making => HasStorage(j) /\ Absolute[j.path] = j.path
    /\ j.at \in {"read", "plan", "probe"} \cup Looking => j.path = None \/ HasStorage(j)
    /\ j.at \in {"plan", "probe"} \cup Looking => j.path = None \/ Absolute[j.path] = j.path
JobsInv == \A c \in Caller : Sound(job[c])

\* One request works on a name, which no late mount has; whoever makes
\* something has the lock; a half-written manifest is its request's.
WorkInv ==
    /\ \A c, d \in Caller : c # d /\ job[c].name # None => job[c].name # job[d].name
    /\ \A m \in lingering : m[1] \in excused /\ \A c \in Caller : job[c].name # m[1]
    /\ \A c \in Caller : mutex = c <=> job[c].at \in Making
    /\ \A c \in staging : job[c].at \in {"register", "undo"} \cup Looking

\* A name that is being registered is free, and whoever makes something has a
\* place of its own.
FreeInv ==
    /\ \A c \in Caller : job[c].at \in {"probe", "forget"} \cup Making \cup Looking => registry[job[c].name] = None
    /\ \A c \in Caller : job[c].at \in Making =>
          /\ Real[job[c].path] \notin Own
          /\ \A n \in StoredName : registry[n] \in Spelling => Real[registry[n]] # Real[job[c].path]
          /\ \A d \in Caller : job[d].at \in Looking /\ job[d].path # None => Real[job[d].path] # Real[job[c].path]

\* Only what is being made differs from what people know, and an undo knows
\* what was there.
ThingsInv ==
    /\ mutex = None => thing = theirs
    /\ \A c \in Caller : job[c].at \in Making =>
          LET p == Real[job[c].path]
              folder == job[c].engine = "ingitdb" IN
          /\ \A q \in D!Place : q # p => thing[q] = theirs[q]
          /\ job[c].at = "make" => thing[p] = theirs[p] /\ thing[p] \in (IF folder THEN {"missing", "empty"} ELSE {"missing"})
          /\ job[c].at # "make" => theirs[p] = IF job[c].made = "marks" THEN "empty" ELSE "missing"
          /\ job[c].at \in {"mount_new", "register"} => (folder => thing[p] = "ingitdb")
          /\ job[c].at = "register" => (~folder => thing[p] = "tables")

\* What a connect looked at stays what it found.
FoundInv ==
    \A c \in Caller : job[c].at \in Looking /\ job[c].path # None =>
        LET found == thing[Real[job[c].path]] IN
        IF job[c].engine = "ingitdb" THEN found = "ingitdb"
        ELSE found \in D!SqliteFiles /\ (job[c].at = "commit" \/ ~job[c].own => found = "tables")

RegistryInv ==
    \A n \in StoredName : registry[n] \in Spelling =>
        /\ Real[registry[n]] \notin Own /\ Absolute[registry[n]] = registry[n]
        /\ thing[Real[registry[n]]] \in {"ingitdb", "tables"}
        /\ \A m \in StoredName \ {n} : registry[m] \in Spelling => Real[registry[m]] # Real[registry[n]]

\* The requests that may have left a catalogue of a name that is not registered.
Cataloguing == {"register", "undo", "commit", "forget"}
IsKept(n) == registry[n] \in Spelling /\ thing[Real[registry[n]]] = "ingitdb" => catalogue[n] = Real[registry[n]]
IsGone(n) ==
    registry[n] = None /\ (\A c \in Caller : job[c].name = n => job[c].at \notin Cataloguing)
    => catalogue[n] = None
IsWatched(n, j) ==
    j.name = n =>
        /\ j.at \in {"mount_new", "register", "undo"} \cup Looking => ~j.known
        /\ j.at \in {"register", "commit"} /\ j.path # None /\ j.engine = "ingitdb"
           => catalogue[n] = Real[j.path]
CatalogueInv ==
    \A n \in StoredName \ excused : IsKept(n) /\ IsGone(n) /\ \A c \in Caller : IsWatched(n, job[c])

StorageInv ==
    /\ StorageTypes /\ JobsInv /\ WorkInv /\ FreeInv
    /\ ThingsInv /\ FoundInv /\ RegistryInv /\ CatalogueInv

-----------------------------------------------------------------------------
(* Storage: every step *)

LEMMA StorageInit ==
  ASSUME D!StorageAssumption, D!Init
  PROVE  StorageInv
  <1>1. StorageTypes
    BY DEF D!StorageAssumption, D!Init, StorageTypes, Job, JobSteps, D!Idle, D!Things, D!Folders, D!SqliteFiles
  <1>2. \A c \in Caller : job[c].at = "idle" /\ job[c].name = None /\ job[c].path = None
    BY DEF D!Init, D!Idle
  <1>3. JobsInv /\ WorkInv /\ FreeInv /\ ThingsInv /\ FoundInv
    BY <1>2 DEF D!StorageAssumption, D!Init, JobsInv, Sound, WorkInv, FreeInv, ThingsInv, FoundInv, Making, Looking
  <1>4. RegistryInv /\ CatalogueInv
    BY <1>2 DEF D!StorageAssumption, D!Init, RegistryInv, CatalogueInv, IsKept, IsGone, IsWatched, Looking, Cataloguing
  <1>5. QED
    BY <1>1, <1>3, <1>4 DEF StorageInv

\* A request of a name that no other works on begins.
LEMMA StartsKeep ==
  ASSUME D!StorageAssumption, ~Meets, StorageInv,
         NEW c \in Caller, NEW n \in StoredName, NEW step \in {"create", "plan", "read", "remove"},
         NEW engine \in D!Engines \cup {None}, NEW path \in Spelling \cup {None}, NEW own \in BOOLEAN,
         D!Starts(c, n, step, engine, path, own),
         step \in {"create", "plan"} => path \in Spelling /\ Absolute[path] = path /\ engine \in {"ingitdb", "sqlite"},
         step = "read" => path = None \/ (path \in Spelling /\ engine \in {"ingitdb", "sqlite"})
  PROVE  StorageInv'
  <1>1. /\ job[c].at = "idle" /\ ~D!WorksOn(n)
        /\ UNCHANGED <<thing, theirs, registry, catalogue, staging, lingering, excused, mutex, events>>
    BY DEF D!Starts
  <1>2. /\ D!Idle \in Job
        /\ job' = [job EXCEPT ![c] = [D!Idle EXCEPT !.at = step, !.name = n, !.engine = engine,
                                                   !.path = path, !.own = own]]
    <2>1. D!Idle \in Job
      BY DEF D!Idle, Job, JobSteps
    <2>2. QED
      BY <2>1 DEF D!Starts
  <1>3. StorageTypes'
    <2> DEFINE j == [D!Idle EXCEPT !.at = step, !.name = n, !.engine = engine, !.path = path, !.own = own]
    <2>1. j \in Job
      BY <1>2 DEF Job, JobSteps
    <2>2. job' = [job EXCEPT ![c] = j]
      BY <1>2
    <2> HIDE DEF j
    <2>3. QED
      BY <1>1, <2>1, <2>2 DEF StorageInv, StorageTypes
  <1>4. /\ \A d \in Caller : d # c => job'[d] = job[d]
        /\ job'[c].at = step /\ job'[c].name = n /\ job'[c].path = path /\ job'[c].engine = engine
    BY <1>2 DEF StorageInv, StorageTypes, Job
  <1>5. JobsInv'
    BY <1>4 DEF StorageInv, JobsInv, Sound, HasStorage, Making, Looking
  <1>6. WorkInv'
    <2>1. /\ \A d \in Caller : job[d].name # n
          /\ \A m \in lingering : m[1] # n
      BY <1>1 DEF D!WorksOn
    <2>2. step # "idle" /\ step \notin Making /\ step \notin {"register", "undo"} \cup Looking
      BY DEF Making, Looking
    <2>3. "idle" \notin Making /\ "idle" \notin {"register", "undo"} \cup Looking
      BY DEF Making, Looking
    <2>4. QED
      BY <1>1, <1>4, <2>1, <2>2, <2>3 DEF StorageInv, StorageTypes, WorkInv
  <1>7. FreeInv' /\ ThingsInv' /\ FoundInv' /\ RegistryInv'
    BY <1>1, <1>4 DEF StorageInv, FreeInv, ThingsInv, FoundInv, RegistryInv, Making, Looking
  <1>8. CatalogueInv'
    <2>1. \A d \in Caller : job[d].name # n
      BY <1>1 DEF D!WorksOn
    <2>2. "idle" \notin Cataloguing /\ step \notin {"mount_new", "register", "undo"} \cup Looking
      BY DEF Looking, Cataloguing
    <2> SUFFICES ASSUME NEW m \in StoredName \ excused
                 PROVE  IsKept(m)' /\ IsGone(m)' /\ \A d \in Caller : IsWatched(m, job[d])'
      BY <1>1 DEF CatalogueInv
    <2>3. IsKept(m)'
      BY <1>1 DEF StorageInv, CatalogueInv, IsKept
    <2>4. IsGone(m)'
      BY <1>1, <1>4, <2>1, <2>2 DEF StorageInv, CatalogueInv, IsGone
    <2>5. \A d \in Caller : IsWatched(m, job[d])'
      BY <1>1, <1>4, <2>1, <2>2 DEF StorageInv, CatalogueInv, IsWatched
    <2>6. QED
      BY <2>3, <2>4, <2>5
  <1>9. QED
    BY <1>3, <1>5, <1>6, <1>7, <1>8 DEF StorageInv

\* A refusal changes nothing, and leaves nothing where nothing was made.
LEMMA RefusalKeeps ==
  ASSUME D!StorageAssumption, ~Meets, StorageInv,
         NEW c \in Caller, job[c].at \in {"create", "read", "plan", "probe", "remove"}, D!Refused(c)
  PROVE  StorageInv'
  <1>1. UNCHANGED <<thing, theirs, registry, catalogue, staging, lingering, excused, mutex, events>>
    BY DEF D!Refused
  <1>2. D!Idle \in Job /\ D!Idle.at = "idle" /\ D!Idle.name = None /\ D!Idle.path = None
    BY DEF D!Idle, Job, JobSteps
  <1>3. StorageTypes'
    BY <1>1, <1>2 DEF StorageInv, StorageTypes, D!Refused, D!Ends
  <1>4. /\ \A d \in Caller : d # c => job'[d] = job[d]
        /\ job'[c].at = "idle" /\ job'[c].name = None /\ job'[c].path = None
    BY <1>2 DEF StorageInv, StorageTypes, D!Refused, D!Ends
  <1>5. JobsInv'
    BY <1>4 DEF StorageInv, JobsInv, Sound, HasStorage, Making, Looking
  <1>6. WorkInv'
    <2>1. job[c].at \notin Making /\ job[c].at \notin {"register", "undo"} \cup Looking
      BY DEF Making, Looking
    <2>2. "idle" \notin Making
      BY DEF Making
    <2>3. \A m \in lingering : m[1] \in StoredName /\ m[1] # None
      BY DEF StorageInv, StorageTypes, D!StorageAssumption
    <2>4. QED
      BY <1>1, <1>4, <2>1, <2>2, <2>3 DEF StorageInv, StorageTypes, WorkInv
  <1>7. FreeInv' /\ ThingsInv' /\ FoundInv' /\ RegistryInv'
    BY <1>1, <1>4 DEF StorageInv, FreeInv, ThingsInv, FoundInv, RegistryInv, Making, Looking
  <1>8. CatalogueInv'
    <2>1. job[c].at \notin Cataloguing /\ "idle" \notin {"mount_new", "register", "undo"} \cup Looking
      BY DEF Looking, Cataloguing
    <2> SUFFICES ASSUME NEW m \in StoredName \ excused
                 PROVE  IsKept(m)' /\ IsGone(m)' /\ \A d \in Caller : IsWatched(m, job[d])'
      BY <1>1 DEF CatalogueInv
    <2>2. IsKept(m)'
      BY <1>1 DEF StorageInv, CatalogueInv, IsKept
    <2>3. IsGone(m)'
      BY <1>1, <1>4, <2>1 DEF StorageInv, CatalogueInv, IsGone
    <2>4. \A d \in Caller : IsWatched(m, job[d])'
      BY <1>1, <1>4, <2>1 DEF StorageInv, CatalogueInv, IsWatched
    <2>5. QED
      BY <2>2, <2>3, <2>4
  <1>9. QED
    BY <1>3, <1>5, <1>6, <1>7, <1>8 DEF StorageInv

-----------------------------------------------------------------------------
(* Storage: creating *)

\* With the lock, a free name and a free place.
LEMMA CreateKeeps ==
  ASSUME D!StorageAssumption, ~Meets, StorageInv, NEW c \in Caller, D!Create(c)
  PROVE  StorageInv'
  <1>1. job[c].at = "create" /\ mutex = None
    BY DEF D!Create
  <1>2. CASE D!Refused(c)
    BY <1>1, <1>2, RefusalKeeps
  <1>3. CASE /\ D!Available(c) /\ ~D!LocationHoldsData(job[c].path, job[c].engine)
             /\ mutex' = c /\ D!At(c, "make")
             /\ UNCHANGED <<thing, theirs, registry, catalogue, staging, lingering, excused, events>>
    <2> DEFINE p == Real[job[c].path]
    <2>1. UNCHANGED <<thing, theirs, registry, catalogue, staging, lingering, excused, events>> /\ mutex' = c
      BY <1>3
    <2>2. StorageTypes'
      <3>1. job' \in [Caller -> Job]
        BY <1>3 DEF StorageInv, StorageTypes, D!At, Job, JobSteps, Making
      <3>2. QED
        BY <2>1, <3>1 DEF StorageInv, StorageTypes
    <2>3. /\ \A d \in Caller : d # c => job'[d] = job[d]
          /\ job'[c].at = "make" /\ job'[c].name = job[c].name /\ job'[c].path = job[c].path
          /\ job'[c].engine = job[c].engine
      BY <1>3 DEF StorageInv, StorageTypes, D!At, Job
    <2>4. job[c].at \notin Making /\ "make" \in Making /\ "make" \notin Looking /\ job[c].at \notin Looking
      BY <1>1 DEF Making, Looking
    <2>5. job[c].path \in Spelling /\ job[c].engine \in {"ingitdb", "sqlite"} /\ p \in D!Place
          /\ job[c].name \in StoredName
      BY <1>1 DEF StorageInv, JobsInv, Sound, HasStorage, D!Place
    <2>6. /\ registry[job[c].name] = None /\ p \notin Own
          /\ \A n \in StoredName : registry[n] \in Spelling => Real[registry[n]] # p
      BY <1>3, <2>5 DEF D!Available, D!RegisteredAs, D!ReadRegistry, D!LocationOverlaps, D!Resolved,
                        D!LocalStorage, D!StorageAssumption
    <2>7. thing[p] \in (IF job[c].engine = "ingitdb" THEN {"missing", "empty"} ELSE {"missing"})
      BY <1>3, <2>5 DEF D!LocationHoldsData
    <2>8. JobsInv'
      BY <1>1, <2>3 DEF StorageInv, JobsInv, Sound, HasStorage, Making, Looking
    <2>9. \A d \in Caller : job[d].at \notin Making
      BY <1>1 DEF StorageInv, WorkInv, D!StorageAssumption
    <2>10. WorkInv'
      <3>1. job[c].at \notin {"register", "undo"} \cup Looking
        BY <1>1 DEF Looking
      <3>2. QED
        BY <2>1, <2>3, <2>4, <2>9, <3>1 DEF StorageInv, StorageTypes, WorkInv
    <2>11. FreeInv'
      <3>1. \A d \in Caller : job[d].at \in Looking /\ job[d].path # None =>
                thing[Real[job[d].path]] \notin {"missing", "empty"}
        BY DEF StorageInv, FoundInv, D!SqliteFiles
      <3>2. \A d \in Caller : job'[d].at \in Making => d = c
        BY <2>3, <2>9
      <3>3. \A d \in Caller : job'[d].at \in {"probe", "forget"} \cup Making \cup Looking => registry[job'[d].name] = None
        BY <2>3, <2>6 DEF StorageInv, FreeInv
      <3>4. \A d \in Caller : job'[d].at \in Looking /\ job'[d].path # None => Real[job'[d].path] # p
        BY <2>3, <2>4, <2>7, <3>1
      <3>5. QED
        BY <2>1, <2>3, <2>6, <3>2, <3>3, <3>4 DEF FreeInv
    <2>12. ThingsInv'
      <3>1. thing = theirs /\ mutex' # None /\ \A d \in Caller : job'[d].at \in Making => d = c
        BY <1>1, <2>1, <2>3, <2>9 DEF StorageInv, ThingsInv, D!StorageAssumption
      <3>2. QED
        BY <2>1, <2>3, <2>7, <3>1 DEF ThingsInv
    <2>13. FoundInv' /\ RegistryInv'
      BY <2>1, <2>3, <2>4 DEF StorageInv, FoundInv, RegistryInv
    <2>14. CatalogueInv'
      <3>1. job[c].at \notin Cataloguing /\ "make" \notin {"mount_new", "register", "undo"} \cup Looking
            /\ "make" \notin Cataloguing
        BY <1>1 DEF Looking, Cataloguing
      <3> SUFFICES ASSUME NEW m \in StoredName \ excused
                   PROVE  IsKept(m)' /\ IsGone(m)' /\ \A d \in Caller : IsWatched(m, job[d])'
        BY <2>1 DEF CatalogueInv
      <3>2. IsKept(m)'
        BY <2>1 DEF StorageInv, CatalogueInv, IsKept
      <3>3. IsGone(m)'
        BY <2>1, <2>3, <2>4, <3>1 DEF StorageInv, CatalogueInv, IsGone
      <3>4. \A d \in Caller : IsWatched(m, job[d])'
        BY <2>1, <2>3, <2>4, <3>1 DEF StorageInv, CatalogueInv, IsWatched
      <3>5. QED
        BY <3>2, <3>3, <3>4
    <2>15. QED
      BY <2>2, <2>8, <2>10, <2>11, <2>12, <2>13, <2>14 DEF StorageInv
  <1>4. QED
    BY <1>2, <1>3 DEF D!Create

LEMMA MakeKeeps ==
  ASSUME D!StorageAssumption, ~Meets, StorageInv, NEW c \in Caller, D!MakeStorage(c)
  PROVE  StorageInv'
  <1> DEFINE p == Real[job[c].path]
             n == job[c].name
  <1>1. job[c].at = "make" /\ UNCHANGED <<theirs, registry, catalogue, staging, lingering, excused, mutex, events>>
    BY DEF D!MakeStorage
  <1>2. /\ job[c] \in Job /\ job[c].path \in Spelling /\ job[c].engine \in {"ingitdb", "sqlite"}
        /\ job[c].path # None /\ p \in D!Place /\ n \in StoredName /\ D!There(c) = p
    BY <1>1 DEF StorageInv, StorageTypes, JobsInv, Sound, HasStorage, Making, D!Place, D!There, D!StorageAssumption
  <1>3. /\ p \notin Own /\ registry[n] = None
        /\ \A m \in StoredName : registry[m] \in Spelling => Real[registry[m]] # p
        /\ \A d \in Caller : job[d].at \in Looking /\ job[d].path # None => Real[job[d].path] # p
        /\ \A q \in D!Place : q # p => thing[q] = theirs[q]
        /\ thing[p] = theirs[p] /\ thing[p] \in (IF job[c].engine = "ingitdb" THEN {"missing", "empty"} ELSE {"missing"})
    BY <1>1 DEF StorageInv, FreeInv, ThingsInv, Making
  <1>4. PICK step \in {"mount_new", "undo"} :
          job' = [job EXCEPT ![c].at = step, ![c].made = D!Made(c), ![c].known = catalogue[n] # None]
    BY DEF D!MakeStorage
  <1>5. thing' = [thing EXCEPT ![p] = IF job[c].engine = "ingitdb" THEN "ingitdb" ELSE thing[p]]
    BY <1>2 DEF D!MakeStorage, StorageInv, StorageTypes
  <1>6. /\ \A q \in D!Place : q # p => thing'[q] = thing[q]
        /\ job[c].engine = "ingitdb" => thing'[p] = "ingitdb"
    BY <1>2, <1>5 DEF StorageInv, StorageTypes
  <1>7. D!Made(c) \in {"folder", "marks", "file"}
        /\ theirs[p] = IF D!Made(c) = "marks" THEN "empty" ELSE "missing"
    BY <1>2, <1>3 DEF D!Made
  <1>8. StorageTypes'
    BY <1>1, <1>2, <1>4, <1>5, <1>7 DEF StorageInv, StorageTypes, Job, JobSteps, Making, D!Things, D!Folders
  <1>9. /\ \A d \in Caller : d # c => job'[d] = job[d]
        /\ job'[c].at = step /\ job'[c].name = n /\ job'[c].path = job[c].path
        /\ job'[c].engine = job[c].engine /\ job'[c].made = D!Made(c) /\ job'[c].known = (catalogue[n] # None)
    BY <1>2, <1>4 DEF StorageInv, StorageTypes, Job
  <1>10. JobsInv'
    BY <1>1, <1>9 DEF StorageInv, JobsInv, Sound, HasStorage, Making, Looking
  <1>11. /\ job[c].at \in Making /\ step \in Making /\ step \notin Looking /\ job[c].at \notin Looking
         /\ \A d \in Caller : job[d].at \in Making => d = c
    BY <1>1 DEF StorageInv, WorkInv, Making, Looking
  <1>12. WorkInv'
    BY <1>1, <1>9, <1>11 DEF StorageInv, StorageTypes, WorkInv
  <1>13. FreeInv'
    BY <1>1, <1>3, <1>9, <1>11 DEF StorageInv, FreeInv
  <1>14. ThingsInv'
    <2>1. mutex = c
      BY <1>11 DEF StorageInv, WorkInv
    <2>2. QED
      BY <1>1, <1>2, <1>3, <1>6, <1>7, <1>9, <1>11, <2>1 DEF ThingsInv, D!StorageAssumption
  <1>15. FoundInv'
    <2>1. ASSUME NEW d \in Caller, job[d].at \in Looking, job[d].path # None
          PROVE  Real[job[d].path] \in D!Place
      BY <2>1 DEF StorageInv, JobsInv, Sound, HasStorage, D!Place, Looking
    <2>2. QED
      BY <1>3, <1>6, <1>9, <1>11, <2>1 DEF StorageInv, FoundInv
  <1>16. RegistryInv'
    <2>1. \A m \in StoredName : registry[m] \in Spelling => Real[registry[m]] \in D!Place
      BY DEF D!Place
    <2>2. QED
      BY <1>1, <1>3, <1>6, <2>1 DEF StorageInv, RegistryInv
  <1>17. CatalogueInv'
    <2>1. job[c].at \notin Cataloguing
      BY <1>1 DEF Cataloguing
    <2> SUFFICES ASSUME NEW m \in StoredName \ excused
                 PROVE  IsKept(m)' /\ IsGone(m)' /\ \A d \in Caller : IsWatched(m, job[d])'
      BY <1>1 DEF CatalogueInv
    <2>2. IsKept(m)'
      <3>1. registry[m] \in Spelling => thing'[Real[registry[m]]] = thing[Real[registry[m]]]
        BY <1>3, <1>6 DEF D!Place
      <3>2. QED
        BY <1>1, <3>1 DEF StorageInv, CatalogueInv, IsKept
    <2>3. IsGone(m)'
      BY <1>1, <1>9, <2>1 DEF StorageInv, CatalogueInv, IsGone
    <2>4. \A d \in Caller : IsWatched(m, job[d])'
      <3>1. m = n => catalogue[n] = None
        <4>1. \A d \in Caller : job[d].name = n => d = c
          BY <1>2 DEF StorageInv, WorkInv, D!StorageAssumption
        <4>2. QED
          BY <1>3, <2>1, <4>1 DEF StorageInv, CatalogueInv, IsGone
      <3>2. IsWatched(m, job[c])'
        BY <1>1, <1>9, <3>1 DEF IsWatched
      <3>3. ASSUME NEW d \in Caller, d # c
            PROVE  IsWatched(m, job[d])'
        BY <1>1, <1>9, <3>3 DEF StorageInv, CatalogueInv, IsWatched
      <3>4. QED
        BY <3>2, <3>3
    <2>5. QED
      BY <2>2, <2>3, <2>4
  <1>18. QED
    BY <1>8, <1>10, <1>12, <1>13, <1>14, <1>15, <1>16, <1>17 DEF StorageInv

\* A request has its name for itself.
LEMMA NameIsOwn ==
  ASSUME D!StorageAssumption, StorageInv, NEW c \in Caller, job[c].at # "idle"
  PROVE  /\ job[c].name \in StoredName /\ job[c].name # None
         /\ \A d \in Caller : job[d].name = job[c].name => d = c
  <1>1. job[c].name \in StoredName
    BY DEF StorageInv, JobsInv, Sound
  <1>2. job[c].name # None
    BY <1>1 DEF D!StorageAssumption
  <1>3. QED
    BY <1>1, <1>2 DEF StorageInv, WorkInv

\* A name that becomes free of its request has no catalogue but one that was
\* there before.
LEMMA CleanedUp ==
  ASSUME StorageInv, NEW c \in Caller, job[c].name \in StoredName, D!CleansUp(c)
  PROVE  /\ catalogue' \in [StoredName -> D!Place \cup {None}]
         /\ \A n \in StoredName : n # job[c].name => catalogue'[n] = catalogue[n]
         /\ catalogue'[job[c].name] = IF job[c].known THEN catalogue[job[c].name] ELSE None
  BY DEF StorageInv, StorageTypes, D!CleansUp

LEMMA MountNewKeeps ==
  ASSUME D!StorageAssumption, ~Meets, StorageInv, NEW c \in Caller, D!MountNew(c)
  PROVE  StorageInv'
  <1> DEFINE p == Real[job[c].path]
             n == job[c].name
             folder == job[c].engine = "ingitdb"
  <1>1. job[c].at = "mount_new" /\ UNCHANGED <<theirs, registry, lingering, excused, mutex, events>>
        /\ staging' = staging \cup {c}
    BY DEF D!MountNew
  <1>2. /\ job[c] \in Job /\ job[c].path \in Spelling /\ job[c].engine \in {"ingitdb", "sqlite"}
        /\ job[c].path # None /\ p \in D!Place /\ D!There(c) = p
    BY <1>1 DEF StorageInv, StorageTypes, JobsInv, Sound, HasStorage, Making, D!Place, D!There, D!StorageAssumption
  <1>3. /\ n \in StoredName /\ \A d \in Caller : job[d].name = n => d = c
    BY <1>1, NameIsOwn
  <1>4. /\ registry[n] = None
        /\ \A m \in StoredName : registry[m] \in Spelling => Real[registry[m]] # p
        /\ \A d \in Caller : job[d].at \in Looking /\ job[d].path # None => Real[job[d].path] # p
        /\ \A q \in D!Place : q # p => thing[q] = theirs[q]
        /\ theirs[p] = IF job[c].made = "marks" THEN "empty" ELSE "missing"
        /\ folder => thing[p] = "ingitdb"
    BY <1>1 DEF StorageInv, FreeInv, ThingsInv, Making
  <1>5. PICK step \in {"register", "undo"} : job' = [job EXCEPT ![c].at = step]
    BY DEF D!MountNew, D!At
  <1>6. thing' = [thing EXCEPT ![p] = IF job[c].engine = "sqlite" THEN "tables" ELSE thing[p]]
    BY <1>2 DEF D!MountNew, D!Tabled, StorageInv, StorageTypes
  <1>7. catalogue' = [catalogue EXCEPT ![n] = IF catalogue[n] = None /\ folder THEN p ELSE catalogue[n]]
    BY <1>2, <1>3 DEF D!MountNew, D!Catalogued, StorageInv, StorageTypes
  <1>8. /\ \A q \in D!Place : q # p => thing'[q] = thing[q]
        /\ thing'[p] = IF folder THEN "ingitdb" ELSE "tables"
        /\ \A m \in StoredName : m # n => catalogue'[m] = catalogue[m]
        /\ catalogue'[n] = IF catalogue[n] = None /\ folder THEN p ELSE catalogue[n]
    BY <1>2, <1>3, <1>4, <1>6, <1>7 DEF StorageInv, StorageTypes
  <1>9. StorageTypes'
    <2>1. job' \in [Caller -> Job]
      BY <1>2, <1>5 DEF StorageInv, StorageTypes, Job, JobSteps, Making
    <2>2. thing' \in [D!Place -> D!Things]
      BY <1>2, <1>6 DEF StorageInv, StorageTypes, D!Things, D!SqliteFiles
    <2>3. catalogue' \in [StoredName -> D!Place \cup {None}]
      BY <1>2, <1>3, <1>7 DEF StorageInv, StorageTypes
    <2>4. QED
      BY <1>1, <2>1, <2>2, <2>3 DEF StorageInv, StorageTypes
  <1>10. /\ \A d \in Caller : d # c => job'[d] = job[d]
         /\ job'[c].at = step /\ job'[c].name = n /\ job'[c].path = job[c].path
         /\ job'[c].engine = job[c].engine /\ job'[c].made = job[c].made /\ job'[c].known = job[c].known
    BY <1>2, <1>5 DEF StorageInv, StorageTypes, Job
  <1>11. JobsInv'
    BY <1>1, <1>10 DEF StorageInv, JobsInv, Sound, HasStorage, Making, Looking
  <1>12. /\ job[c].at \in Making /\ step \in Making /\ step \notin Looking /\ job[c].at \notin Looking
         /\ \A d \in Caller : job[d].at \in Making => d = c
         /\ mutex = c
    BY <1>1 DEF StorageInv, WorkInv, Making, Looking
  <1>13. WorkInv'
    BY <1>1, <1>10, <1>12 DEF StorageInv, StorageTypes, WorkInv
  <1>14. FreeInv'
    BY <1>1, <1>4, <1>10, <1>12 DEF StorageInv, FreeInv
  <1>15. ThingsInv'
    BY <1>1, <1>2, <1>4, <1>8, <1>10, <1>12 DEF ThingsInv, D!StorageAssumption
  <1>16. FoundInv'
    <2>1. ASSUME NEW d \in Caller, job[d].at \in Looking, job[d].path # None
          PROVE  Real[job[d].path] \in D!Place
      BY <2>1 DEF StorageInv, JobsInv, Sound, HasStorage, D!Place, Looking
    <2>2. QED
      BY <1>4, <1>8, <1>10, <1>12, <2>1 DEF StorageInv, FoundInv
  <1>17. RegistryInv'
    <2>1. \A m \in StoredName : registry[m] \in Spelling => Real[registry[m]] \in D!Place
      BY DEF D!Place
    <2>2. QED
      BY <1>1, <1>4, <1>8, <2>1 DEF StorageInv, RegistryInv
  <1>18. CatalogueInv'
    <2>1. job[c].at \notin Cataloguing /\ step \in Cataloguing
      BY <1>1 DEF Cataloguing
    <2> SUFFICES ASSUME NEW m \in StoredName \ excused
                 PROVE  IsKept(m)' /\ IsGone(m)' /\ \A d \in Caller : IsWatched(m, job[d])'
      BY <1>1 DEF CatalogueInv
    <2>2. IsKept(m)'
      <3>1. registry[m] \in Spelling => thing'[Real[registry[m]]] = thing[Real[registry[m]]] /\ m # n
        BY <1>4, <1>8 DEF D!Place, D!StorageAssumption
      <3>2. QED
        BY <1>1, <1>8, <3>1 DEF StorageInv, CatalogueInv, IsKept
    <2>3. IsGone(m)'
      <3>1. CASE m = n
        BY <1>10, <2>1, <3>1 DEF IsGone
      <3>2. CASE m # n
        BY <1>1, <1>8, <1>10, <2>1, <3>2 DEF StorageInv, CatalogueInv, IsGone
      <3>3. QED
        BY <3>1, <3>2
    <2>4. \A d \in Caller : IsWatched(m, job[d])'
      <3>1. m = n => catalogue[n] = None /\ ~job[c].known
        BY <1>1, <1>3, <1>4, <2>1 DEF StorageInv, CatalogueInv, IsGone, IsWatched
      <3>2. IsWatched(m, job[c])'
        BY <1>8, <1>10, <3>1 DEF IsWatched
      <3>3. ASSUME NEW d \in Caller, d # c
            PROVE  IsWatched(m, job[d])'
        <4>1. job[d].name = m => m # n
          BY <1>3, <3>3
        <4>2. QED
          BY <1>8, <1>10, <3>3, <4>1 DEF StorageInv, CatalogueInv, IsWatched
      <3>4. QED
        BY <3>2, <3>3
    <2>5. QED
      BY <2>2, <2>3, <2>4
  <1>19. QED
    BY <1>9, <1>11, <1>13, <1>14, <1>15, <1>16, <1>17, <1>18 DEF StorageInv

\* What ends a request without a change to things: none of its facts stay.
LEMMA EndsIs ==
  ASSUME StorageInv, NEW c \in Caller, D!Ends(c)
  PROVE  /\ job' \in [Caller -> Job]
         /\ \A d \in Caller : d # c => job'[d] = job[d]
         /\ job'[c].at = "idle" /\ job'[c].name = None /\ job'[c].path = None
  <1>1. D!Idle \in Job /\ D!Idle.at = "idle" /\ D!Idle.name = None /\ D!Idle.path = None
    BY DEF D!Idle, Job, JobSteps
  <1>2. QED
    BY <1>1 DEF StorageInv, StorageTypes, D!Ends

LEMMA EndedJobs ==
  ASSUME D!StorageAssumption, StorageInv, NEW c \in Caller, D!Ends(c),
         staging' = staging \ {c}, mutex' = None, mutex \in {c, None},
         lingering' = lingering, excused' = excused
  PROVE  JobsInv' /\ WorkInv' /\ \A d \in Caller : job'[d].at \notin Making
  <1>1. "idle" \notin Making
    BY DEF Making
  <1>2. \A d \in Caller : d # c => job[d].at \notin Making
    BY DEF StorageInv, WorkInv, D!StorageAssumption
  <1>3. JobsInv'
    BY EndsIs DEF StorageInv, JobsInv, Sound, HasStorage, Making, Looking
  <1>4. \A d \in Caller : job'[d].at \notin Making
    BY <1>1, <1>2, EndsIs
  <1>5. \A m \in lingering : m[1] \in StoredName /\ m[1] # None
    BY DEF StorageInv, StorageTypes, D!StorageAssumption
  <1>6. WorkInv'
    BY <1>4, <1>5, EndsIs DEF StorageInv, StorageTypes, WorkInv, D!StorageAssumption
  <1>7. QED
    BY <1>3, <1>4, <1>6

\* A sound database enters the registry with what its request knows.
LEMMA RegistersKeeps ==
  ASSUME D!StorageAssumption, StorageInv, NEW c \in Caller, D!Registers(c),
         job[c].at \in {"register", "commit"}, mutex \in {c, None},
         job[c].path = None \/ HasStorage(job[c]),
         job[c].path # None =>
            /\ Absolute[job[c].path] = job[c].path /\ Real[job[c].path] \notin Own
            /\ \A n \in StoredName : registry[n] \in Spelling => Real[registry[n]] # Real[job[c].path]
            /\ thing[Real[job[c].path]] = IF job[c].engine = "ingitdb" THEN "ingitdb" ELSE "tables"
  PROVE  StorageInv'
  <1> DEFINE n == job[c].name
             place == IF job[c].path = None THEN "remote" ELSE job[c].path
  <1>1. /\ theirs' = thing /\ staging' = staging \ {c} /\ mutex' = None /\ D!Ends(c)
        /\ UNCHANGED <<thing, catalogue, lingering, excused, events>>
        /\ registry' = [registry EXCEPT ![n] = place]
    BY DEF D!Registers
  <1>2. /\ n \in StoredName /\ \A d \in Caller : job[d].name = n => d = c
    BY NameIsOwn
  <1>3. /\ place \in Spelling \cup {"remote"} /\ place # None
        /\ place \in Spelling => place = job[c].path /\ job[c].path # None
    BY DEF HasStorage, D!StorageAssumption
  <1>4. /\ registry'[n] = place
        /\ \A m \in StoredName : m # n => registry'[m] = registry[m]
        /\ registry' \in [StoredName -> Spelling \cup {None, "remote"}]
    BY <1>1, <1>2, <1>3 DEF StorageInv, StorageTypes
  <1>5. StorageTypes'
    BY <1>1, <1>4, EndsIs DEF StorageInv, StorageTypes
  <1>6. JobsInv' /\ WorkInv' /\ \A d \in Caller : job'[d].at \notin Making
    BY <1>1, EndedJobs
  <1>7. FreeInv'
    <2>1. "idle" \notin {"probe", "forget"} \cup Making \cup Looking
      BY DEF Making, Looking
    <2>2. ASSUME NEW d \in Caller, job'[d].at \in {"probe", "forget"} \cup Making \cup Looking
          PROVE  registry'[job'[d].name] = None
      <3>1. d # c /\ job'[d] = job[d] /\ job[d].at # "idle"
        BY <2>1, <2>2, <1>1, EndsIs
      <3>2. job[d].name # n /\ job[d].name \in StoredName
        BY <1>2, <3>1, NameIsOwn
      <3>3. QED
        BY <1>4, <2>2, <3>1, <3>2 DEF StorageInv, FreeInv
    <2>3. QED
      BY <1>6, <2>2 DEF FreeInv
  <1>8. ThingsInv'
    BY <1>1, <1>6 DEF ThingsInv
  <1>9. FoundInv'
    <2>1. "idle" \notin Looking
      BY DEF Looking
    <2>2. QED
      BY <1>1, <2>1, EndsIs DEF StorageInv, FoundInv
  <1>10. RegistryInv'
    <2>1. ASSUME NEW m \in StoredName, registry'[m] \in Spelling
          PROVE  /\ Real[registry'[m]] \notin Own /\ Absolute[registry'[m]] = registry'[m]
                 /\ thing[Real[registry'[m]]] \in {"ingitdb", "tables"}
      BY <1>3, <1>4, <2>1 DEF StorageInv, RegistryInv
    <2>2. ASSUME NEW m \in StoredName, NEW k \in StoredName, m # k,
                 registry'[m] \in Spelling, registry'[k] \in Spelling
          PROVE  Real[registry'[m]] # Real[registry'[k]]
      <3>1. CASE m = n
        BY <1>3, <1>4, <2>2, <3>1
      <3>2. CASE k = n
        BY <1>3, <1>4, <2>2, <3>2
      <3>3. CASE m # n /\ k # n
        BY <1>4, <2>2, <3>3 DEF StorageInv, RegistryInv
      <3>4. QED
        BY <3>1, <3>2, <3>3
    <2>3. QED
      BY <1>1, <2>1, <2>2 DEF RegistryInv
  <1>11. CatalogueInv'
    <2>1. "idle" \notin Cataloguing /\ "idle" \notin {"mount_new", "register", "undo"} \cup Looking
      BY DEF Cataloguing, Looking
    <2> SUFFICES ASSUME NEW m \in StoredName \ excused
                 PROVE  IsKept(m)' /\ IsGone(m)' /\ \A d \in Caller : IsWatched(m, job[d])'
      BY <1>1 DEF CatalogueInv
    <2>2. IsKept(m)'
      <3>1. CASE m = n
        <4>1. place \in Spelling /\ thing[Real[place]] = "ingitdb" => job[c].engine = "ingitdb"
          BY <1>3
        <4>2. IsWatched(n, job[c])
          BY <3>1 DEF StorageInv, CatalogueInv
        <4>3. QED
          BY <1>1, <1>3, <1>4, <3>1, <4>1, <4>2 DEF IsKept, IsWatched
      <3>2. CASE m # n
        BY <1>1, <1>4, <3>2 DEF StorageInv, CatalogueInv, IsKept
      <3>3. QED
        BY <3>1, <3>2
    <2>3. IsGone(m)'
      <3>1. CASE m = n
        BY <1>3, <1>4, <3>1 DEF IsGone
      <3>2. CASE m # n
        <4>1. \A d \in Caller : job[d].name = m => d # c
          BY <1>2, <3>2
        <4>2. QED
          BY <1>1, <1>4, <3>2, <4>1, EndsIs DEF StorageInv, CatalogueInv, IsGone
      <3>3. QED
        BY <3>1, <3>2
    <2>4. \A d \in Caller : IsWatched(m, job[d])'
      BY <1>1, <2>1, EndsIs DEF StorageInv, CatalogueInv, IsWatched
    <2>5. QED
      BY <2>2, <2>3, <2>4
  <1>12. QED
    BY <1>5, <1>6, <1>7, <1>8, <1>9, <1>10, <1>11 DEF StorageInv

LEMMA RegisterKeeps ==
  ASSUME D!StorageAssumption, ~Meets, StorageInv, NEW c \in Caller, D!Register(c)
  PROVE  StorageInv'
  <1> DEFINE n == job[c].name
  <1>1. job[c].at = "register" /\ job[c].at \in Making /\ mutex = c
    BY DEF D!Register, StorageInv, WorkInv, Making
  <1>2. job[c].path \in Spelling /\ job[c].engine \in {"ingitdb", "sqlite"} /\ Absolute[job[c].path] = job[c].path
        /\ job[c].path # None
    BY <1>1 DEF StorageInv, JobsInv, Sound, HasStorage, D!StorageAssumption
  <1>3. CASE D!Registers(c)
    <2>1. /\ Real[job[c].path] \notin Own
          /\ \A m \in StoredName : registry[m] \in Spelling => Real[registry[m]] # Real[job[c].path]
      BY <1>1 DEF StorageInv, FreeInv
    <2>2. thing[Real[job[c].path]] = IF job[c].engine = "ingitdb" THEN "ingitdb" ELSE "tables"
      BY <1>1 DEF StorageInv, ThingsInv
    <2>3. QED
      BY <1>1, <1>2, <1>3, <2>1, <2>2, RegistersKeeps DEF HasStorage
  <1>4. CASE /\ D!At(c, "undo")
             /\ UNCHANGED <<thing, theirs, registry, catalogue, staging, lingering, excused, mutex, events>>
    <2>1. UNCHANGED <<thing, theirs, registry, catalogue, staging, lingering, excused, mutex, events>>
      BY <1>4
    <2>2. job' \in [Caller -> Job]
      BY <1>4 DEF D!At, StorageInv, StorageTypes, Job, JobSteps, Making
    <2>3. /\ \A d \in Caller : d # c => job'[d] = job[d]
          /\ job'[c].at = "undo" /\ job'[c].name = n /\ job'[c].path = job[c].path
          /\ job'[c].engine = job[c].engine /\ job'[c].made = job[c].made /\ job'[c].known = job[c].known
      BY <1>4 DEF D!At, StorageInv, StorageTypes, Job
    <2>4. StorageTypes'
      BY <2>1, <2>2 DEF StorageInv, StorageTypes
    <2>5. JobsInv'
      BY <1>1, <2>3 DEF StorageInv, JobsInv, Sound, HasStorage, Making, Looking
    <2>6. "undo" \in Making /\ "undo" \notin Looking /\ job[c].at \notin Looking
      BY <1>1 DEF Making, Looking
    <2>7. WorkInv'
      BY <1>1, <2>1, <2>3, <2>6 DEF StorageInv, StorageTypes, WorkInv
    <2>8. FreeInv' /\ FoundInv' /\ RegistryInv'
      BY <1>1, <2>1, <2>3, <2>6 DEF StorageInv, FreeInv, FoundInv, RegistryInv
    <2>9. ThingsInv'
      BY <1>1, <2>1, <2>3, <2>6 DEF StorageInv, ThingsInv
    <2>10. CatalogueInv'
      <3>1. "undo" \in Cataloguing /\ job[c].at \in Cataloguing
        BY <1>1 DEF Cataloguing
      <3> SUFFICES ASSUME NEW m \in StoredName \ excused
                   PROVE  IsKept(m)' /\ IsGone(m)' /\ \A d \in Caller : IsWatched(m, job[d])'
        BY <2>1 DEF CatalogueInv
      <3>2. IsKept(m)'
        BY <2>1 DEF StorageInv, CatalogueInv, IsKept
      <3>3. IsGone(m)'
        BY <2>1, <2>3, <3>1 DEF StorageInv, CatalogueInv, IsGone
      <3>4. IsWatched(m, job[c])'
        BY <1>1, <2>1, <2>3 DEF StorageInv, CatalogueInv, IsWatched
      <3>5. \A d \in Caller : IsWatched(m, job[d])'
        BY <2>1, <2>3, <3>4 DEF StorageInv, CatalogueInv, IsWatched
      <3>6. QED
        BY <3>2, <3>3, <3>5
    <2>11. QED
      BY <2>4, <2>5, <2>7, <2>8, <2>9, <2>10 DEF StorageInv
  <1>5. QED
    BY <1>3, <1>4 DEF D!Register

\* A request that fails leaves no catalogue that was not there before it.
LEMMA CleanedCatalogues ==
  ASSUME D!StorageAssumption, StorageInv, NEW c \in Caller, D!CleansUp(c), D!Ends(c),
         job[c].at \in {"undo"} \cup Looking, registry' = registry, excused \subseteq excused',
         \A n \in StoredName : registry[n] \in Spelling => thing'[Real[registry[n]]] = thing[Real[registry[n]]]
  PROVE  CatalogueInv'
  <1> DEFINE n == job[c].name
  <1>1. job[c].at # "idle" /\ job[c].at \in {"probe", "forget"} \cup Making \cup Looking
        /\ job[c].at \in {"mount_new", "register", "undo"} \cup Looking
    BY DEF Making, Looking
  <1>2. n \in StoredName /\ registry[n] = None /\ \A d \in Caller : job[d].name = n => d = c
    BY <1>1, NameIsOwn DEF StorageInv, FreeInv
  <1>3. /\ \A m \in StoredName : m # n => catalogue'[m] = catalogue[m]
        /\ catalogue'[n] = IF job[c].known THEN catalogue[n] ELSE None
    BY <1>2, CleanedUp
  <1>4. "idle" \notin Cataloguing /\ "idle" \notin {"mount_new", "register", "undo"} \cup Looking
    BY DEF Cataloguing, Looking
  <1> SUFFICES ASSUME NEW m \in StoredName \ excused'
               PROVE  IsKept(m)' /\ IsGone(m)' /\ \A d \in Caller : IsWatched(m, job[d])'
    BY DEF CatalogueInv
  <1>5. IsKept(m) /\ IsGone(m) /\ \A d \in Caller : IsWatched(m, job[d])
    BY DEF StorageInv, CatalogueInv
  <1>6. IsKept(m)'
    <2>1. registry[m] \in Spelling => m # n
      BY <1>2 DEF D!StorageAssumption
    <2>2. QED
      BY <1>3, <1>5, <2>1 DEF IsKept
  <1>7. IsGone(m)'
    <2>1. CASE m = n
      <3>1. ~job[c].known
        BY <1>1, <1>5, <2>1 DEF IsWatched
      <3>2. QED
        BY <1>3, <2>1, <3>1 DEF IsGone
    <2>2. CASE m # n
      <3>1. \A d \in Caller : job[d].name = m => d # c
        BY <1>2, <2>2
      <3>2. QED
        BY <1>3, <1>5, <2>2, <3>1, EndsIs DEF IsGone
    <2>3. QED
      BY <2>1, <2>2
  <1>8. ASSUME NEW d \in Caller
        PROVE  IsWatched(m, job[d])'
    <2>1. CASE d = c
      <3>1. None \notin StoredName
        BY DEF D!StorageAssumption
      <3>2. QED
        BY <2>1, <3>1, EndsIs DEF IsWatched
    <2>2. CASE d # c
      <3>1. job[d].name = m => m # n
        BY <1>2, <2>2
      <3>2. QED
        BY <1>3, <1>5, <2>2, <3>1, EndsIs DEF IsWatched
    <2>3. QED
      BY <2>1, <2>2
  <1>9. QED
    BY <1>6, <1>7, <1>8

LEMMA UndoKeeps ==
  ASSUME D!StorageAssumption, ~Meets, StorageInv, NEW c \in Caller, D!Undo(c)
  PROVE  StorageInv'
  <1> DEFINE p == Real[job[c].path]
  <1>1. /\ job[c].at = "undo" /\ job[c].at \in Making /\ mutex = c /\ mutex' = None
        /\ D!Ends(c) /\ D!CleansUp(c) /\ staging' = staging \ {c}
        /\ UNCHANGED <<theirs, registry, lingering, excused, events>>
    BY DEF D!Undo, D!CleansUp, StorageInv, WorkInv, Making
  <1>2. /\ job[c].path \in Spelling /\ job[c].path # None /\ p \in D!Place /\ D!There(c) = p
        /\ job[c].name \in StoredName
    BY <1>1 DEF StorageInv, JobsInv, Sound, HasStorage, D!Place, D!There, D!StorageAssumption
  <1>3. /\ \A m \in StoredName : registry[m] \in Spelling => Real[registry[m]] # p
        /\ \A d \in Caller : job[d].at \in Looking /\ job[d].path # None => Real[job[d].path] # p
        /\ \A q \in D!Place : q # p => thing[q] = theirs[q]
        /\ theirs[p] = IF job[c].made = "marks" THEN "empty" ELSE "missing"
    BY <1>1 DEF StorageInv, FreeInv, ThingsInv
  <1>4. thing' = [thing EXCEPT ![p] = theirs[p]]
    BY <1>2, <1>3 DEF D!Undo
  <1>5. /\ thing' = theirs /\ \A q \in D!Place : q # p => thing'[q] = thing[q]
    BY <1>2, <1>3, <1>4 DEF StorageInv, StorageTypes
  <1>6. StorageTypes'
    BY <1>1, <1>2, <1>5, EndsIs, CleanedUp DEF StorageInv, StorageTypes
  <1>7. JobsInv' /\ WorkInv' /\ \A d \in Caller : job'[d].at \notin Making
    BY <1>1, EndedJobs
  <1>8. "idle" \notin {"probe", "forget"} \cup Making \cup Looking
    BY DEF Making, Looking
  <1>9. FreeInv'
    BY <1>1, <1>7, <1>8, EndsIs DEF StorageInv, FreeInv
  <1>10. ThingsInv'
    BY <1>1, <1>5, <1>7 DEF ThingsInv
  <1>11. FoundInv'
    <2>1. ASSUME NEW d \in Caller, job[d].at \in Looking, job[d].path # None
          PROVE  Real[job[d].path] \in D!Place
      BY <2>1 DEF StorageInv, JobsInv, Sound, HasStorage, D!Place, Looking
    <2>2. QED
      BY <1>3, <1>5, <1>8, <2>1, EndsIs, <1>1 DEF StorageInv, FoundInv
  <1>12. \A m \in StoredName : registry[m] \in Spelling => thing'[Real[registry[m]]] = thing[Real[registry[m]]]
    BY <1>3, <1>5 DEF D!Place
  <1>13. RegistryInv'
    BY <1>1, <1>12 DEF StorageInv, RegistryInv
  <1>14. CatalogueInv'
    BY <1>1, <1>12, CleanedCatalogues
  <1>15. QED
    BY <1>6, <1>7, <1>9, <1>10, <1>11, <1>13, <1>14 DEF StorageInv

-----------------------------------------------------------------------------
(* Storage: connecting *)

\* A request that has made nothing, and looked at nothing, goes on.
LEMMA GoesOnKeeps ==
  ASSUME D!StorageAssumption, StorageInv, NEW c \in Caller, NEW step \in {"plan", "probe"},
         job[c].at \in {"read", "plan"}, job' \in [Caller -> Job],
         \A d \in Caller : d # c => job'[d] = job[d],
         job'[c].at = step, job'[c].name = job[c].name,
         job'[c].path = None \/ (HasStorage(job'[c]) /\ Absolute[job'[c].path] = job'[c].path),
         step = "probe" => registry[job[c].name] = None,
         UNCHANGED <<thing, theirs, registry, catalogue, staging, lingering, excused, mutex, events>>
  PROVE  StorageInv'
  <1>1. StorageTypes'
    BY DEF StorageInv, StorageTypes
  <1>2. JobsInv'
    BY DEF StorageInv, JobsInv, Sound, HasStorage, Making, Looking
  <1>3. /\ step \notin Making \cup Looking /\ job[c].at \notin Making \cup Looking
        /\ step \notin {"register", "undo"} \cup Looking /\ job[c].at \notin {"register", "undo"} \cup Looking
    BY DEF Making, Looking
  <1>4. WorkInv'
    BY <1>3 DEF StorageInv, StorageTypes, WorkInv
  <1>5. FreeInv' /\ ThingsInv' /\ FoundInv' /\ RegistryInv'
    BY <1>3 DEF StorageInv, FreeInv, ThingsInv, FoundInv, RegistryInv
  <1>6. CatalogueInv'
    <2>1. /\ job[c].at \notin Cataloguing /\ step \notin Cataloguing
          /\ step \notin {"mount_new", "register", "undo"} \cup Looking
      BY DEF Cataloguing, Looking
    <2> SUFFICES ASSUME NEW m \in StoredName \ excused
                 PROVE  IsKept(m)' /\ IsGone(m)' /\ \A d \in Caller : IsWatched(m, job[d])'
      BY DEF CatalogueInv
    <2>2. IsKept(m)'
      BY DEF StorageInv, CatalogueInv, IsKept
    <2>3. IsGone(m)'
      BY <2>1 DEF StorageInv, CatalogueInv, IsGone
    <2>4. \A d \in Caller : IsWatched(m, job[d])'
      BY <2>1 DEF StorageInv, CatalogueInv, IsWatched
    <2>5. QED
      BY <2>2, <2>3, <2>4
  <1>7. QED
    BY <1>1, <1>2, <1>4, <1>5, <1>6 DEF StorageInv

LEMMA PlanManifestKeeps ==
  ASSUME D!StorageAssumption, ~Meets, StorageInv, NEW c \in Caller, D!PlanManifest(c)
  PROVE  StorageInv'
  <1>1. job[c].at = "read" /\ (D!AbsoluteManifest(c) \/ D!Refused(c))
    BY DEF D!PlanManifest, D!WithinDeadline
  <1>2. CASE D!AbsoluteManifest(c)
    <2> DEFINE path == IF job[c].path = None THEN None ELSE Absolute[job[c].path]
    <2>1. /\ job' = [job EXCEPT ![c].at = "plan", ![c].path = path]
          /\ UNCHANGED <<thing, theirs, registry, catalogue, staging, lingering, excused, mutex, events>>
      BY <1>2 DEF D!AbsoluteManifest, StorageInv, StorageTypes
    <2>2. job[c] \in Job /\ (job[c].path = None \/ HasStorage(job[c]))
      BY <1>1 DEF StorageInv, StorageTypes, JobsInv, Sound
    <2>3. path \in Spelling \cup {None} /\ (path = None \/ (path \in Spelling /\ Absolute[path] = path
                                                             /\ job[c].engine \in {"ingitdb", "sqlite"}))
      BY <2>2 DEF D!StorageAssumption, HasStorage
    <2> HIDE DEF path
    <2>4. job' \in [Caller -> Job]
      BY <2>1, <2>2, <2>3 DEF StorageInv, StorageTypes, Job, JobSteps
    <2>5. /\ \A d \in Caller : d # c => job'[d] = job[d]
          /\ job'[c].at = "plan" /\ job'[c].name = job[c].name /\ job'[c].path = path
          /\ job'[c].engine = job[c].engine
      BY <2>1, <2>2 DEF StorageInv, StorageTypes, Job
    <2>6. QED
      BY <1>1, <2>1, <2>3, <2>4, <2>5, GoesOnKeeps DEF HasStorage
  <1>3. QED
    BY <1>1, <1>2, RefusalKeeps

LEMMA PlanKeeps ==
  ASSUME D!StorageAssumption, ~Meets, StorageInv, NEW c \in Caller, D!Plan(c)
  PROVE  StorageInv'
  <1>1. job[c].at = "plan" /\ (D!Refused(c) \/ (D!Available(c) /\ D!Moves(c, "probe")))
    BY DEF D!Plan
  <1>2. CASE D!Available(c) /\ D!Moves(c, "probe")
    <2>1. /\ job' = [job EXCEPT ![c].at = "probe"]
          /\ UNCHANGED <<thing, theirs, registry, catalogue, staging, lingering, excused, mutex, events>>
      BY <1>2 DEF D!Moves, D!At
    <2>2. /\ job[c] \in Job /\ job[c].name \in StoredName
          /\ job[c].path = None \/ (HasStorage(job[c]) /\ Absolute[job[c].path] = job[c].path)
      BY <1>1 DEF StorageInv, StorageTypes, JobsInv, Sound
    <2>3. job' \in [Caller -> Job]
      BY <2>1, <2>2 DEF StorageInv, StorageTypes, Job, JobSteps
    <2>4. /\ \A d \in Caller : d # c => job'[d] = job[d]
          /\ job'[c].at = "probe" /\ job'[c].name = job[c].name /\ job'[c].path = job[c].path
          /\ job'[c].engine = job[c].engine
      BY <2>1, <2>2 DEF StorageInv, StorageTypes, Job
    <2>5. registry[job[c].name] = None
      BY <1>2, <2>2 DEF D!Available, D!RegisteredAs, D!ReadRegistry
    <2>6. QED
      BY <1>1, <2>1, <2>2, <2>3, <2>4, <2>5, GoesOnKeeps DEF HasStorage
  <1>3. QED
    BY <1>1, <1>2, RefusalKeeps

\* What is found is as people left it: no other request makes something there.
LEMMA ProbeKeeps ==
  ASSUME D!StorageAssumption, ~Meets, StorageInv, NEW c \in Caller, D!Probe(c)
  PROVE  StorageInv'
  <1> DEFINE n == job[c].name
             p == Real[job[c].path]
             known == catalogue[n] # None
  <1>1. /\ job[c].at = "probe"
        /\ \A d \in Caller : job[d].at \in {"mount_new", "register", "undo"} => D!There(d) # D!There(c)
    BY DEF D!Probe
  <1>2. CASE D!Refused(c)
    BY <1>1, <1>2, RefusalKeeps
  <1>3. CASE /\ job[c].path # None => D!CheckExistingStorage(c) /\ ~D!NotInGitDB(c) /\ (job[c].own \/ D!Describe(c))
             /\ job' = [job EXCEPT ![c].at = "mount", ![c].known = known]
             /\ staging' = staging \cup {c}
             /\ UNCHANGED <<thing, theirs, registry, catalogue, lingering, excused, mutex, events>>
    <2>1. /\ staging' = staging \cup {c}
          /\ UNCHANGED <<thing, theirs, registry, catalogue, lingering, excused, mutex, events>>
      BY <1>3
    <2>2. /\ job[c] \in Job /\ n \in StoredName /\ (\A d \in Caller : job[d].name = n => d = c)
          /\ job[c].path = None \/ (HasStorage(job[c]) /\ Absolute[job[c].path] = job[c].path)
      BY <1>1, NameIsOwn DEF StorageInv, StorageTypes, JobsInv, Sound
    <2>3. known \in BOOLEAN
      OBVIOUS
    <2>4. job' \in [Caller -> Job]
      BY <1>3, <2>2, <2>3 DEF StorageInv, StorageTypes, Job, JobSteps, Looking
    <2>5. /\ \A d \in Caller : d # c => job'[d] = job[d]
          /\ job'[c].at = "mount" /\ job'[c].name = n /\ job'[c].path = job[c].path
          /\ job'[c].engine = job[c].engine /\ job'[c].own = job[c].own
      BY <1>3, <2>2 DEF StorageInv, StorageTypes, Job
    <2>6. job'[c].known = known
      BY <1>3, <2>2 DEF StorageInv, StorageTypes, Job
    <2>7. StorageTypes'
      BY <2>1, <2>4 DEF StorageInv, StorageTypes
    <2>8. JobsInv'
      BY <2>2, <2>5 DEF StorageInv, JobsInv, Sound, HasStorage, Making, Looking
    <2>9. "mount" \in Looking /\ "mount" \notin Making /\ job[c].at \notin Making /\ job[c].at \notin Looking
      BY <1>1 DEF Making, Looking
    <2>10. WorkInv'
      BY <2>1, <2>5, <2>9 DEF StorageInv, StorageTypes, WorkInv
    <2>11. job[c].path # None => thing[p] \in (IF job[c].engine = "ingitdb" THEN {"ingitdb"} ELSE D!SqliteFiles)
      BY <1>3, <2>2 DEF D!CheckExistingStorage, D!NotInGitDB, D!There
    <2>12. FreeInv'
      <3>1. ASSUME NEW d \in Caller, job[d].at \in Making, job[c].path # None
            PROVE  Real[job[c].path] # Real[job[d].path]
        <4>1. CASE job[d].at = "make"
          <5>1. thing[Real[job[d].path]] \in {"missing", "empty"}
            BY <3>1, <4>1 DEF StorageInv, ThingsInv
          <5>2. QED
            BY <2>11, <3>1, <5>1 DEF D!SqliteFiles
        <4>2. CASE job[d].at # "make"
          <5>1. job[d].path \in Spelling /\ job[d].path # None
            BY <3>1 DEF StorageInv, JobsInv, Sound, HasStorage, D!StorageAssumption
          <5>2. job[d].at \in {"mount_new", "register", "undo"}
            BY <3>1, <4>2 DEF Making
          <5>3. QED
            BY <1>1, <3>1, <5>1, <5>2 DEF D!There
        <4>3. QED
          BY <4>1, <4>2
      <3>2. \A d \in Caller : job'[d].at \in Making => d # c
        BY <2>5, <2>9
      <3>3. \A d \in Caller : job'[d].at \in {"probe", "forget"} \cup Making \cup Looking => registry[job'[d].name] = None
        BY <1>1, <2>5 DEF StorageInv, FreeInv
      <3>4. QED
        BY <2>1, <2>5, <3>1, <3>2, <3>3 DEF StorageInv, FreeInv
    <2>13. ThingsInv' /\ RegistryInv'
      BY <2>1, <2>5, <2>9 DEF StorageInv, ThingsInv, RegistryInv
    <2>14. FoundInv'
      <3>1. job[c].path # None /\ job[c].engine # "ingitdb" /\ ~job[c].own => thing[p] = "tables"
        BY <1>3, <2>2 DEF D!Describe, D!SqliteCollections, D!There, HasStorage
      <3>2. "mount" # "commit"
        OBVIOUS
      <3>3. QED
        BY <2>1, <2>5, <2>11, <3>1, <3>2 DEF StorageInv, FoundInv
    <2>15. CatalogueInv'
      <3>1. job[c].at \notin Cataloguing /\ "mount" \notin Cataloguing
        BY <1>1 DEF Cataloguing
      <3> SUFFICES ASSUME NEW m \in StoredName \ excused
                   PROVE  IsKept(m)' /\ IsGone(m)' /\ \A d \in Caller : IsWatched(m, job[d])'
        BY <2>1 DEF CatalogueInv
      <3>2. IsKept(m)'
        BY <2>1 DEF StorageInv, CatalogueInv, IsKept
      <3>3. IsGone(m)'
        BY <2>1, <2>5, <3>1 DEF StorageInv, CatalogueInv, IsGone
      <3>4. IsWatched(m, job[c])'
        <4>1. m = n => ~known
          BY <1>1, <2>2, <3>1 DEF StorageInv, CatalogueInv, IsGone, FreeInv
        <4>2. QED
          BY <2>5, <2>6, <4>1 DEF IsWatched
      <3>5. \A d \in Caller : IsWatched(m, job[d])'
        BY <2>1, <2>5, <3>4 DEF StorageInv, CatalogueInv, IsWatched
      <3>6. QED
        BY <3>2, <3>3, <3>5
    <2>16. QED
      BY <2>7, <2>8, <2>10, <2>12, <2>13, <2>14, <2>15 DEF StorageInv
  <1>4. QED
    BY <1>2, <1>3 DEF D!Probe, D!WithinDeadline

\* What is known of a mounted storage is in its catalogue; the tables that a
\* manifest of people's own adds are theirs.
LEMMA MountedKeeps ==
  ASSUME D!StorageAssumption, ~Meets, StorageInv, NEW c \in Caller,
         job[c].at = "mount", D!At(c, "commit"), D!Mounts(c),
         UNCHANGED <<registry, staging, lingering, excused, mutex, events>>
  PROVE  StorageInv'
  <1> DEFINE n == job[c].name
             p == Real[job[c].path]
             tables == job[c].path # None /\ job[c].engine = "sqlite"
             found == job[c].path # None /\ job[c].engine = "ingitdb"
  <1>1. /\ job[c] \in Job /\ n \in StoredName /\ (\A d \in Caller : job[d].name = n => d = c)
        /\ job[c].path = None \/ (HasStorage(job[c]) /\ Absolute[job[c].path] = job[c].path)
    BY NameIsOwn DEF StorageInv, StorageTypes, JobsInv, Sound, Looking
  <1>2. /\ job' \in [Caller -> Job]
        /\ \A d \in Caller : d # c => job'[d] = job[d]
        /\ job'[c].at = "commit" /\ job'[c].name = n /\ job'[c].path = job[c].path
        /\ job'[c].engine = job[c].engine /\ job'[c].known = job[c].known /\ job'[c].own = job[c].own
    BY <1>1 DEF D!At, StorageInv, StorageTypes, Job, JobSteps, Looking
  <1>3. job[c].path # None => p \in D!Place /\ D!There(c) = p
    BY <1>1 DEF HasStorage, D!Place, D!There
  <1>4. /\ found => thing[p] = "ingitdb"
        /\ tables => thing[p] \in D!SqliteFiles /\ (~job[c].own => thing[p] = "tables")
    BY <1>1 DEF StorageInv, FoundInv, Looking, HasStorage
  <1>5. catalogue[n] = None \/ n \in excused
    <2>1. registry[n] = None
      BY DEF StorageInv, FreeInv, Looking
    <2>2. job[c].at \notin Cataloguing
      BY DEF Cataloguing
    <2>3. QED
      BY <1>1, <2>1, <2>2 DEF StorageInv, CatalogueInv, IsGone
  <1>6. /\ thing' \in [D!Place -> D!Things]
        /\ \A q \in D!Place : thing'[q] = IF tables /\ q = p THEN "tables" ELSE thing[q]
    <2>1. CASE job[c].path = None
      BY <2>1 DEF D!Mounts, StorageInv, StorageTypes
    <2>2. CASE job[c].path # None
      <3>1. thing' = [thing EXCEPT ![p] = IF job[c].engine = "sqlite" THEN "tables" ELSE thing[p]]
        BY <1>3, <2>2 DEF D!Mounts, D!Tabled, StorageInv, StorageTypes
      <3>2. QED
        BY <1>3, <2>2, <3>1 DEF StorageInv, StorageTypes, D!Things, D!SqliteFiles
    <2>3. QED
      BY <2>1, <2>2
  <1>7. /\ theirs' \in [D!Place -> D!Things]
        /\ \A q \in D!Place : theirs'[q] = IF tables /\ job[c].own /\ q = p THEN "tables"
                                           ELSE IF found /\ job[c].own /\ q = p THEN thing[p] ELSE theirs[q]
    <2>1. CASE job[c].path = None \/ ~job[c].own
      BY <2>1 DEF D!Mounts, StorageInv, StorageTypes
    <2>2. CASE job[c].path # None /\ job[c].own
      <3>1. theirs' = [theirs EXCEPT ![p] = thing'[p]]
        BY <1>3, <2>2 DEF D!Mounts
      <3>2. job[c].engine \in {"ingitdb", "sqlite"}
        BY <1>1, <2>2 DEF HasStorage
      <3>3. thing'[p] \in D!Things /\ thing'[p] = IF tables THEN "tables" ELSE thing[p]
        BY <1>3, <1>6, <2>2
      <3>4. QED
        BY <1>3, <2>2, <3>1, <3>2, <3>3 DEF StorageInv, StorageTypes
    <2>3. QED
      BY <2>1, <2>2
  <1>8. /\ catalogue' \in [StoredName -> D!Place \cup {None}]
        /\ \A m \in StoredName : catalogue'[m] = IF found /\ m = n /\ catalogue[n] = None THEN p ELSE catalogue[m]
    <2>1. CASE job[c].path = None
      BY <2>1 DEF D!Mounts, StorageInv, StorageTypes
    <2>2. CASE job[c].path # None
      <3>1. catalogue' = [catalogue EXCEPT ![n] = IF catalogue[n] = None /\ job[c].engine = "ingitdb" THEN p ELSE catalogue[n]]
        BY <1>1, <1>3, <2>2 DEF D!Mounts, D!Catalogued, StorageInv, StorageTypes
      <3>2. QED
        BY <1>1, <1>3, <2>2, <3>1 DEF StorageInv, StorageTypes
    <2>3. QED
      BY <2>1, <2>2
  <1>9. /\ \A q \in D!Place : thing'[q] = "ingitdb" <=> thing[q] = "ingitdb"
        /\ \A q \in D!Place : thing[q] \in {"ingitdb", "tables"} => thing'[q] = thing[q]
        /\ \A q \in D!Place : thing'[q] = thing[q] \/ (q = p /\ tables /\ thing'[q] = "tables")
    BY <1>3, <1>4, <1>6 DEF D!SqliteFiles
  <1> HIDE DEF tables, found
  <1>10. StorageTypes'
    BY <1>2, <1>6, <1>7, <1>8 DEF StorageInv, StorageTypes
  <1>11. JobsInv'
    BY <1>1, <1>2 DEF StorageInv, JobsInv, Sound, HasStorage, Making, Looking
  <1>12. /\ "commit" \in Looking /\ "mount" \in Looking /\ "commit" \notin Making /\ "mount" \notin Making
         /\ "mount" \notin Cataloguing /\ "commit" \in Cataloguing
    BY DEF Making, Looking, Cataloguing
  <1>13. WorkInv'
    BY <1>2, <1>12 DEF StorageInv, StorageTypes, WorkInv
  <1>14. FreeInv'
    BY <1>2, <1>12 DEF StorageInv, FreeInv
  <1>15. ThingsInv'
    <2>1. mutex = None => thing' = theirs'
      <3>1. ASSUME mutex = None, NEW q \in D!Place
            PROVE  thing'[q] = theirs'[q]
        <4>1. thing = theirs
          BY <3>1 DEF StorageInv, ThingsInv
        <4>2. CASE q = p /\ tables
          BY <1>4, <1>6, <1>7, <4>1, <4>2 DEF tables, found
        <4>3. CASE ~(q = p /\ tables)
          BY <1>6, <1>7, <4>1, <4>3
        <4>4. QED
          BY <4>2, <4>3
      <3>2. QED
        BY <1>6, <1>7, <3>1
    <2>2. ASSUME NEW d \in Caller, job'[d].at \in Making
          PROVE  /\ job'[d] = job[d] /\ d # c /\ job[d].at \in Making
                 /\ Real[job[d].path] \in D!Place
                 /\ thing'[Real[job[d].path]] = thing[Real[job[d].path]]
                 /\ theirs'[Real[job[d].path]] = theirs[Real[job[d].path]]
      <3>1. d # c /\ job'[d] = job[d] /\ job[d].at \in Making
        BY <1>2, <1>12, <2>2
      <3>2. Real[job[d].path] \in D!Place
        BY <3>1 DEF StorageInv, JobsInv, Sound, HasStorage, D!Place
      <3>3. job[c].path # None => Real[job[d].path] # p
        BY <1>12, <3>1 DEF StorageInv, FreeInv
      <3>4. QED
        BY <1>6, <1>7, <3>1, <3>2, <3>3 DEF tables, found
    <2>3. ASSUME NEW d \in Caller, job'[d].at \in Making, NEW q \in D!Place, q # Real[job[d].path]
          PROVE  thing'[q] = theirs'[q]
      <3>1. thing[q] = theirs[q]
        BY <2>2, <2>3 DEF StorageInv, ThingsInv
      <3>2. CASE q = p /\ tables
        BY <1>4, <1>6, <1>7, <3>1, <3>2 DEF tables, found
      <3>3. CASE ~(q = p /\ tables)
        BY <1>6, <1>7, <3>1, <3>3
      <3>4. QED
        BY <3>2, <3>3
    <2>4. QED
      BY <2>1, <2>2, <2>3 DEF StorageInv, ThingsInv
  <1>16. FoundInv'
    <2>1. ASSUME NEW d \in Caller, job'[d].at \in Looking, job'[d].path # None
          PROVE  LET there == thing'[Real[job'[d].path]] IN
                 IF job'[d].engine = "ingitdb" THEN there = "ingitdb"
                 ELSE there \in D!SqliteFiles /\ (job'[d].at = "commit" \/ ~job'[d].own => there = "tables")
      <3>1. CASE d = c
        <4>1. job[c].engine = "ingitdb" \/ tables
          BY <1>1, <1>2, <2>1, <3>1 DEF tables, HasStorage
        <4>2. QED
          BY <1>2, <1>3, <1>4, <1>6, <2>1, <3>1, <4>1 DEF tables, found, D!SqliteFiles
      <3>2. CASE d # c
        <4>1. job'[d] = job[d] /\ job[d].at \in Looking /\ job[d].path # None /\ Real[job[d].path] \in D!Place
          BY <1>2, <2>1, <3>2 DEF StorageInv, JobsInv, Sound, HasStorage, D!Place, Looking
        <4>2. QED
          BY <1>9, <4>1 DEF StorageInv, FoundInv, D!SqliteFiles
      <3>3. QED
        BY <3>1, <3>2
    <2>2. QED
      BY <2>1 DEF FoundInv
  <1>17. RegistryInv'
    <2>1. \A m \in StoredName : registry[m] \in Spelling => Real[registry[m]] \in D!Place
      BY DEF D!Place
    <2>2. QED
      BY <1>9, <2>1 DEF StorageInv, RegistryInv
  <1>18. CatalogueInv'
    <2> SUFFICES ASSUME NEW m \in StoredName \ excused
                 PROVE  IsKept(m)' /\ IsGone(m)' /\ \A d \in Caller : IsWatched(m, job[d])'
      BY DEF CatalogueInv
    <2>1. IsKept(m) /\ IsGone(m) /\ \A d \in Caller : IsWatched(m, job[d])
      BY DEF StorageInv, CatalogueInv
    <2>2. registry[n] = None
      BY <1>12 DEF StorageInv, FreeInv
    <2>3. IsKept(m)'
      <3>1. registry[m] \in Spelling => m # n /\ Real[registry[m]] \in D!Place
        BY <2>2 DEF D!Place, D!StorageAssumption
      <3>2. QED
        BY <1>8, <1>9, <2>1, <3>1 DEF IsKept
    <2>4. IsGone(m)'
      <3>1. CASE m = n
        BY <1>2, <1>12, <3>1 DEF IsGone
      <3>2. CASE m # n
        BY <1>2, <1>8, <1>12, <2>1, <3>2 DEF IsGone
      <3>3. QED
        BY <3>1, <3>2
    <2>5. IsWatched(m, job[c])'
      <3>1. CASE m = n
        <4>1. catalogue[n] = None /\ ~job[c].known
          BY <1>5, <1>12, <2>1, <3>1 DEF IsWatched
        <4>2. QED
          BY <1>2, <1>8, <3>1, <4>1 DEF IsWatched, found
      <3>2. CASE m # n
        BY <1>2, <3>2 DEF IsWatched
      <3>3. QED
        BY <3>1, <3>2
    <2>6. ASSUME NEW d \in Caller, d # c
          PROVE  IsWatched(m, job[d])'
      <3>1. job[d].name = m => m # n
        BY <1>1, <2>6
      <3>2. QED
        BY <1>2, <1>8, <2>1, <2>6, <3>1 DEF IsWatched
    <2>7. QED
      BY <2>3, <2>4, <2>5, <2>6
  <1>19. QED
    BY <1>10, <1>11, <1>13, <1>14, <1>15, <1>16, <1>17, <1>18 DEF StorageInv

\* A connect that fails, at once or after its deadline, leaves things alone.
LEMMA FailedConnectKeeps ==
  ASSUME D!StorageAssumption, StorageInv, NEW c \in Caller,
         job[c].at \in Looking, D!CleansUp(c), D!Ends(c),
         UNCHANGED <<thing, theirs, registry, mutex>>, events' \in 0 .. MaxEvents,
         \/ UNCHANGED <<lingering, excused>>
         \/ /\ job[c].path # None /\ lingering' = lingering \cup {<<job[c].name, job[c].path>>}
            /\ excused' = excused \cup {job[c].name}
  PROVE  StorageInv'
  <1> DEFINE n == job[c].name
  <1>1. /\ job[c].at # "idle" /\ job[c].at \notin Making
        /\ "idle" \notin {"probe", "forget"} \cup Making \cup Looking /\ "idle" \notin {"register", "undo"} \cup Looking
    BY DEF Making, Looking
  <1>2. n \in StoredName /\ (\A d \in Caller : job[d].name = n => d = c) /\ (job[c].path = None \/ job[c].path \in Spelling)
    BY <1>1, NameIsOwn DEF StorageInv, JobsInv, Sound, HasStorage
  <1>3. staging' = staging \ {c} /\ excused \subseteq excused'
    BY DEF D!CleansUp
  <1>4. StorageTypes'
    BY <1>2, <1>3, EndsIs, CleanedUp DEF StorageInv, StorageTypes
  <1>5. JobsInv'
    BY EndsIs DEF StorageInv, JobsInv, Sound, HasStorage, Making, Looking
  <1>6. WorkInv'
    <2>1. ASSUME NEW m \in lingering'
          PROVE  m[1] \in excused' /\ \A d \in Caller : job'[d].name # m[1]
      <3>1. CASE m \in lingering
        <4>1. m[1] # None
          BY <3>1 DEF StorageInv, StorageTypes, D!StorageAssumption
        <4>2. QED
          BY <1>3, <3>1, <4>1, EndsIs DEF StorageInv, WorkInv
      <3>2. CASE m = <<n, job[c].path>> /\ n \in excused'
        <4>1. n # None
          BY <1>2 DEF D!StorageAssumption
        <4>2. QED
          BY <1>2, <3>2, <4>1, EndsIs
      <3>3. QED
        BY <2>1, <3>1, <3>2
    <2>2. \A d, e \in Caller : d # e /\ job'[d].name # None => job'[d].name # job'[e].name
      BY EndsIs DEF StorageInv, WorkInv
    <2>3. \A d \in Caller : mutex' = d <=> job'[d].at \in Making
      BY <1>1, EndsIs DEF StorageInv, WorkInv, Making
    <2>4. \A d \in staging' : job'[d].at \in {"register", "undo"} \cup Looking
      BY <1>3, EndsIs DEF StorageInv, StorageTypes, WorkInv
    <2>5. QED
      BY <2>1, <2>2, <2>3, <2>4 DEF WorkInv
  <1>7. FreeInv' /\ FoundInv'
    BY <1>1, EndsIs DEF StorageInv, FreeInv, FoundInv
  <1>8. ThingsInv' /\ RegistryInv'
    BY <1>1, EndsIs DEF StorageInv, ThingsInv, RegistryInv, Making
  <1>9. CatalogueInv'
    BY <1>3, CleanedCatalogues
  <1>10. QED
    BY <1>4, <1>5, <1>6, <1>7, <1>8, <1>9 DEF StorageInv

LEMMA MountStagingKeeps ==
  ASSUME D!StorageAssumption, ~Meets, StorageInv, NEW c \in Caller, D!MountStaging(c)
  PROVE  StorageInv'
  <1>1. job[c].at = "mount" /\ job[c].at \in Looking /\ UNCHANGED <<registry, mutex>>
    BY DEF D!MountStaging, Looking
  <1>2. CASE D!At(c, "commit") /\ D!Mounts(c) /\ UNCHANGED <<staging, lingering, excused, events>>
    BY <1>1, <1>2, MountedKeeps
  <1>3. CASE /\ D!CleansUp(c) /\ D!Ends(c) /\ UNCHANGED <<thing, theirs>>
             /\ \/ UNCHANGED <<lingering, excused, events>>
                \/ /\ job[c].path # None /\ D!Happens /\ lingering' = lingering \cup {<<job[c].name, job[c].path>>}
                   /\ excused' = excused \cup {job[c].name}
    <2>1. events' \in 0 .. MaxEvents
      BY <1>3 DEF D!Happens, StorageInv, StorageTypes, D!StorageAssumption
    <2>2. QED
      BY <1>1, <1>3, <2>1, FailedConnectKeeps
  <1>4. QED
    BY <1>2, <1>3 DEF D!MountStaging

\* A late mount writes a catalogue of a name that is excused.
LEMMA CloseWhenDoneKeeps ==
  ASSUME D!StorageAssumption, ~Meets, StorageInv, D!CloseWhenDone
  PROVE  StorageInv'
  <1>1. UNCHANGED <<thing, theirs, registry, staging, excused, mutex, job, events>>
    BY DEF D!CloseWhenDone
  <1>2. PICK m \in lingering :
            /\ lingering' = lingering \ {m}
            /\ catalogue' = catalogue \/ catalogue' = [catalogue EXCEPT ![m[1]] = Real[m[2]]]
    BY DEF D!CloseWhenDone
  <1>3. m[1] \in StoredName /\ m[1] \in excused /\ Real[m[2]] \in D!Place
    BY DEF StorageInv, StorageTypes, WorkInv, D!Place
  <1>4. /\ catalogue' \in [StoredName -> D!Place \cup {None}]
        /\ \A n \in StoredName \ excused : catalogue'[n] = catalogue[n]
    BY <1>2, <1>3 DEF StorageInv, StorageTypes
  <1>5. StorageTypes'
    BY <1>1, <1>2, <1>4 DEF StorageInv, StorageTypes
  <1>6. JobsInv' /\ WorkInv' /\ FreeInv' /\ ThingsInv' /\ FoundInv' /\ RegistryInv'
    BY <1>1, <1>2 DEF StorageInv, JobsInv, WorkInv, FreeInv, ThingsInv, FoundInv, RegistryInv
  <1>7. CatalogueInv'
    BY <1>1, <1>4 DEF StorageInv, CatalogueInv, IsKept, IsGone, IsWatched
  <1>8. QED
    BY <1>5, <1>6, <1>7 DEF StorageInv

\* The name and the place are looked at again with the lock.
LEMMA CommitKeeps ==
  ASSUME D!StorageAssumption, ~Meets, StorageInv, NEW c \in Caller, D!Commit(c)
  PROVE  StorageInv'
  <1>1. job[c].at = "commit" /\ job[c].at \in Looking /\ mutex = None
    BY DEF D!Commit, Looking
  <1>2. CASE D!Available(c) /\ D!Registers(c)
    <2>1. job[c].path = None \/ (HasStorage(job[c]) /\ Absolute[job[c].path] = job[c].path)
      BY <1>1 DEF StorageInv, JobsInv, Sound
    <2>2. ASSUME job[c].path # None
          PROVE  /\ Real[job[c].path] \notin Own
                 /\ \A n \in StoredName : registry[n] \in Spelling => Real[registry[n]] # Real[job[c].path]
                 /\ thing[Real[job[c].path]] = IF job[c].engine = "ingitdb" THEN "ingitdb" ELSE "tables"
      <3>1. ~D!LocationOverlaps(job[c].path)
        BY <1>2, <2>2 DEF D!Available
      <3>2. QED
        BY <1>1, <2>1, <2>2, <3>1 DEF D!LocationOverlaps, D!Resolved, D!ReadRegistry, D!LocalStorage,
                 StorageInv, FoundInv, D!StorageAssumption
    <2>3. QED
      BY <1>1, <1>2, <2>1, <2>2, RegistersKeeps
  <1>3. CASE D!CleansUp(c) /\ D!Ends(c) /\ UNCHANGED <<thing, theirs, registry, lingering, excused, mutex, events>>
    <2>1. events' \in 0 .. MaxEvents
      BY <1>3 DEF StorageInv, StorageTypes
    <2>2. QED
      BY <1>1, <1>3, <2>1, FailedConnectKeeps
  <1>4. QED
    BY <1>2, <1>3 DEF D!Commit

-----------------------------------------------------------------------------
(* Storage: removing, and what happens around the server *)

LEMMA RemoveKeeps ==
  ASSUME D!StorageAssumption, ~Meets, StorageInv, NEW c \in Caller, D!Remove(c)
  PROVE  StorageInv'
  <1> DEFINE n == job[c].name
  <1>1. job[c].at = "remove"
    BY DEF D!Remove
  <1>2. CASE D!Refused(c)
    BY <1>1, <1>2, RefusalKeeps
  <1>3. CASE /\ registry' = [registry EXCEPT ![n] = None] /\ D!At(c, "forget")
             /\ UNCHANGED <<thing, theirs, catalogue, staging, lingering, excused, mutex, events>>
    <2>1. UNCHANGED <<thing, theirs, catalogue, staging, lingering, excused, mutex, events>>
      BY <1>3
    <2>2. job[c] \in Job /\ n \in StoredName /\ (\A d \in Caller : job[d].name = n => d = c)
      BY <1>1, NameIsOwn DEF StorageInv, StorageTypes
    <2>3. /\ job' \in [Caller -> Job]
          /\ \A d \in Caller : d # c => job'[d] = job[d]
          /\ job'[c].at = "forget" /\ job'[c].name = n
      BY <1>3, <2>2 DEF D!At, StorageInv, StorageTypes, Job, JobSteps
    <2>4. /\ registry' \in [StoredName -> Spelling \cup {None, "remote"}]
          /\ \A m \in StoredName : registry'[m] = IF m = n THEN None ELSE registry[m]
      BY <1>3, <2>2 DEF StorageInv, StorageTypes
    <2>5. StorageTypes'
      BY <2>1, <2>3, <2>4 DEF StorageInv, StorageTypes
    <2>6. JobsInv'
      BY <2>2, <2>3 DEF StorageInv, JobsInv, Sound, Making, Looking
    <2>7. /\ "forget" \notin Making \cup Looking /\ job[c].at \notin Making \cup Looking
          /\ job[c].at \notin {"register", "undo"} \cup Looking /\ "forget" \in Cataloguing
          /\ "forget" \notin {"mount_new", "register", "undo"} \cup Looking
          /\ "forget" \notin {"register", "commit"}
      BY <1>1 DEF Making, Looking, Cataloguing
    <2>8. WorkInv'
      BY <2>1, <2>3, <2>7 DEF StorageInv, StorageTypes, WorkInv
    <2>9. None \notin Spelling
      BY DEF D!StorageAssumption
    <2>10. FreeInv'
      <3>1. ASSUME NEW d \in Caller, job'[d].at \in {"probe", "forget"} \cup Making \cup Looking
            PROVE  registry'[job'[d].name] = None
        <4>1. CASE d = c
          BY <2>2, <2>3, <2>4, <4>1
        <4>2. CASE d # c
          <5>1. job'[d] = job[d] /\ job[d].at # "idle"
            BY <2>3, <3>1, <4>2 DEF Making, Looking
          <5>2. job[d].name \in StoredName
            BY <5>1, NameIsOwn
          <5>3. QED
            BY <2>4, <3>1, <5>1, <5>2 DEF StorageInv, FreeInv
        <4>3. QED
          BY <4>1, <4>2
      <3>2. QED
        BY <2>3, <2>4, <2>7, <2>9, <3>1 DEF StorageInv, FreeInv
    <2>11. ThingsInv' /\ FoundInv'
      BY <2>1, <2>3, <2>7 DEF StorageInv, ThingsInv, FoundInv
    <2>12. RegistryInv'
      BY <2>1, <2>4, <2>9 DEF StorageInv, RegistryInv
    <2>13. CatalogueInv'
      <3> SUFFICES ASSUME NEW m \in StoredName \ excused
                   PROVE  IsKept(m)' /\ IsGone(m)' /\ \A d \in Caller : IsWatched(m, job[d])'
        BY <2>1 DEF CatalogueInv
      <3>1. IsKept(m) /\ IsGone(m) /\ \A d \in Caller : IsWatched(m, job[d])
        BY DEF StorageInv, CatalogueInv
      <3>2. IsKept(m)'
        BY <2>1, <2>4, <2>9, <3>1 DEF IsKept
      <3>3. IsGone(m)'
        <4>1. CASE m = n
          BY <2>3, <2>7, <4>1 DEF IsGone
        <4>2. CASE m # n
          <5>1. \A d \in Caller : job[d].name = m => d # c
            BY <2>2, <4>2
          <5>2. QED
            BY <2>1, <2>3, <2>4, <3>1, <4>2, <5>1 DEF IsGone
        <4>3. QED
          BY <4>1, <4>2
      <3>4. IsWatched(m, job[c])'
        BY <2>3, <2>7 DEF IsWatched
      <3>5. ASSUME NEW d \in Caller, d # c
            PROVE  IsWatched(m, job[d])'
        BY <2>1, <2>3, <3>1, <3>5 DEF IsWatched
      <3>6. QED
        BY <3>2, <3>3, <3>4, <3>5
    <2>14. QED
      BY <2>5, <2>6, <2>8, <2>10, <2>11, <2>12, <2>13 DEF StorageInv
  <1>4. QED
    BY <1>2, <1>3 DEF D!Remove

\* The catalogue of a name that is no longer registered goes.
LEMMA ForgetKeeps ==
  ASSUME D!StorageAssumption, ~Meets, StorageInv, NEW c \in Caller, D!Forget(c)
  PROVE  StorageInv'
  <1> DEFINE n == job[c].name
  <1>1. /\ job[c].at = "forget" /\ D!Ends(c)
        /\ UNCHANGED <<thing, theirs, registry, staging, lingering, excused, mutex, events>>
        /\ catalogue' = [catalogue EXCEPT ![n] = None]
    BY DEF D!Forget
  <1>2. /\ n \in StoredName /\ (\A d \in Caller : job[d].name = n => d = c) /\ registry[n] = None
        /\ None \notin StoredName /\ None \notin Spelling
    BY <1>1, NameIsOwn DEF StorageInv, FreeInv, D!StorageAssumption
  <1>3. /\ catalogue' \in [StoredName -> D!Place \cup {None}]
        /\ \A m \in StoredName : catalogue'[m] = IF m = n THEN None ELSE catalogue[m]
    BY <1>1, <1>2 DEF StorageInv, StorageTypes
  <1>4. /\ job[c].at \notin Making \cup Looking /\ job[c].at \notin {"register", "undo"} \cup Looking
        /\ "idle" \notin {"probe", "forget"} \cup Making \cup Looking
        /\ "idle" \notin {"mount_new", "register", "undo"} \cup Looking
    BY <1>1 DEF Making, Looking
  <1>5. StorageTypes'
    BY <1>1, <1>3, EndsIs DEF StorageInv, StorageTypes
  <1>6. JobsInv'
    BY <1>1, EndsIs DEF StorageInv, JobsInv, Sound, HasStorage, Making, Looking
  <1>7. WorkInv'
    <2>1. \A m \in lingering : m[1] \in StoredName
      BY DEF StorageInv, StorageTypes
    <2>2. QED
      BY <1>1, <1>2, <1>4, <2>1, EndsIs DEF StorageInv, StorageTypes, WorkInv
  <1>8. FreeInv' /\ ThingsInv' /\ FoundInv' /\ RegistryInv'
    <2>1. FreeInv'
      BY <1>1, <1>4, EndsIs DEF StorageInv, FreeInv
    <2>2. ThingsInv'
      BY <1>1, <1>4, EndsIs DEF StorageInv, ThingsInv
    <2>3. FoundInv' /\ RegistryInv'
      BY <1>1, <1>4, EndsIs DEF StorageInv, FoundInv, RegistryInv
    <2>4. QED
      BY <2>1, <2>2, <2>3
  <1>9. CatalogueInv'
    <2> SUFFICES ASSUME NEW m \in StoredName \ excused
                 PROVE  IsKept(m)' /\ IsGone(m)' /\ \A d \in Caller : IsWatched(m, job[d])'
      BY <1>1 DEF CatalogueInv
    <2>1. IsKept(m) /\ IsGone(m) /\ \A d \in Caller : IsWatched(m, job[d])
      BY DEF StorageInv, CatalogueInv
    <2>2. IsKept(m)'
      BY <1>1, <1>2, <1>3, <2>1 DEF IsKept
    <2>3. IsGone(m)'
      <3>1. CASE m = n
        BY <1>3, <3>1 DEF IsGone
      <3>2. CASE m # n
        <4>1. \A d \in Caller : job[d].name = m => d # c
          BY <1>2, <3>2
        <4>2. QED
          BY <1>1, <1>3, <2>1, <3>2, <4>1, EndsIs DEF IsGone
      <3>3. QED
        BY <3>1, <3>2
    <2>4. ASSUME NEW d \in Caller
          PROVE  IsWatched(m, job[d])'
      <3>1. CASE d = c
        BY <1>1, <1>2, <3>1, EndsIs DEF IsWatched
      <3>2. CASE d # c
        <4>1. job[d].name = m => m # n
          BY <1>2, <3>2
        <4>2. QED
          BY <1>1, <1>3, <2>1, <3>2, <4>1, EndsIs DEF IsWatched
      <3>3. QED
        BY <3>1, <3>2
    <2>5. QED
      BY <2>2, <2>3, <2>4
  <1>10. QED
    BY <1>5, <1>6, <1>7, <1>8, <1>9 DEF StorageInv

\* People change only places where OVDB does nothing.
LEMMA ChangeKeeps ==
  ASSUME D!StorageAssumption, ~Meets, StorageInv, D!Change
  PROVE  StorageInv'
  <1>1. UNCHANGED <<registry, catalogue, staging, lingering, excused, mutex, job>> /\ events' \in 0 .. MaxEvents
    BY DEF D!Change, D!Happens, StorageInv, StorageTypes, D!StorageAssumption
  <1>2. PICK p \in D!Place \ Own, t \in D!Things :
            /\ \A c \in Caller : job[c].path # None => D!There(c) # p
            /\ \A n \in StoredName : registry[n] \in Spelling => Real[registry[n]] # p
            /\ thing' = [thing EXCEPT ![p] = t] /\ theirs' = [theirs EXCEPT ![p] = t]
    BY DEF D!Change
  <1>3. \A c \in Caller : job[c].path # None => Real[job[c].path] # p
    BY <1>2 DEF D!There
  <1>4. /\ thing' \in [D!Place -> D!Things] /\ theirs' \in [D!Place -> D!Things]
        /\ \A q \in D!Place : thing'[q] = (IF q = p THEN t ELSE thing[q]) /\ theirs'[q] = (IF q = p THEN t ELSE theirs[q])
    BY <1>2 DEF StorageInv, StorageTypes
  <1>5. /\ \A c \in Caller : job[c].at \in Making =>
              Real[job[c].path] \in D!Place /\ job[c].path # None
        /\ \A c \in Caller : job[c].at \in Looking /\ job[c].path # None => Real[job[c].path] \in D!Place
        /\ \A n \in StoredName : registry[n] \in Spelling => Real[registry[n]] \in D!Place
    BY DEF StorageInv, JobsInv, Sound, HasStorage, D!Place, Looking, Making, D!StorageAssumption
  <1>6. StorageTypes'
    BY <1>1, <1>4 DEF StorageInv, StorageTypes
  <1>7. JobsInv' /\ WorkInv' /\ FreeInv'
    BY <1>1 DEF StorageInv, JobsInv, WorkInv, FreeInv
  <1>8. ThingsInv'
    <2>1. mutex = None => thing' = theirs'
      BY <1>2 DEF StorageInv, ThingsInv
    <2>2. ASSUME NEW c \in Caller, job[c].at \in Making
          PROVE  /\ thing'[Real[job[c].path]] = thing[Real[job[c].path]]
                 /\ theirs'[Real[job[c].path]] = theirs[Real[job[c].path]]
                 /\ \A q \in D!Place : thing[q] = theirs[q] => thing'[q] = theirs'[q]
      BY <1>3, <1>4, <1>5, <2>2
    <2>3. QED
      BY <1>1, <2>1, <2>2 DEF StorageInv, ThingsInv
  <1>9. FoundInv'
    BY <1>1, <1>3, <1>4, <1>5 DEF StorageInv, FoundInv
  <1>10. RegistryInv'
    BY <1>1, <1>2, <1>4, <1>5 DEF StorageInv, RegistryInv
  <1>11. CatalogueInv'
    <2>1. \A n \in StoredName : IsKept(n) => IsKept(n)'
      BY <1>1, <1>2, <1>4, <1>5 DEF IsKept
    <2>2. QED
      BY <1>1, <2>1 DEF StorageInv, CatalogueInv, IsGone, IsWatched
  <1>12. QED
    BY <1>6, <1>7, <1>8, <1>9, <1>10, <1>11 DEF StorageInv

\* Whatever was made stays, and is people's; names that were worked on are excused.
LEMMA ReopenKeeps ==
  ASSUME D!StorageAssumption, ~Meets, StorageInv, D!Reopen
  PROVE  StorageInv'
  <1>1. /\ job' = [c \in Caller |-> D!Idle] /\ staging' = {} /\ lingering' = {} /\ mutex' = None
        /\ excused' = excused \cup {n \in StoredName : D!WorksOn(n)}
        /\ theirs' = thing /\ UNCHANGED <<thing, registry, catalogue>>
    BY DEF D!Reopen
  <1>2. D!Idle \in Job /\ D!Idle.at = "idle" /\ D!Idle.name = None /\ D!Idle.path = None
    BY DEF D!Idle, Job, JobSteps
  <1>3. /\ \A c \in Caller : job'[c].at = "idle" /\ job'[c].name = None /\ job'[c].path = None
        /\ None \notin StoredName \cup Caller
    BY <1>1, <1>2 DEF D!StorageAssumption
  <1>4. events' \in 0 .. MaxEvents
    BY DEF D!Reopen, D!Happens, StorageInv, StorageTypes, D!StorageAssumption
  <1>5. StorageTypes'
    BY <1>1, <1>2, <1>4 DEF StorageInv, StorageTypes
  <1>6. JobsInv' /\ WorkInv' /\ FreeInv' /\ ThingsInv' /\ FoundInv'
    BY <1>1, <1>3 DEF JobsInv, Sound, WorkInv, FreeInv, ThingsInv, FoundInv, Making, Looking
  <1>7. RegistryInv'
    BY <1>1 DEF StorageInv, RegistryInv
  <1>8. CatalogueInv'
    <2> SUFFICES ASSUME NEW m \in StoredName \ excused'
                 PROVE  IsKept(m)' /\ IsGone(m)' /\ \A d \in Caller : IsWatched(m, job[d])'
      BY DEF CatalogueInv
    <2>1. m \notin excused /\ \A c \in Caller : job[c].name # m
      BY <1>1 DEF D!WorksOn
    <2>2. IsKept(m)' /\ IsGone(m)'
      BY <1>1, <2>1 DEF StorageInv, CatalogueInv, IsKept, IsGone
    <2>3. \A d \in Caller : IsWatched(m, job[d])'
      BY <1>3 DEF IsWatched
    <2>4. QED
      BY <2>2, <2>3
  <1>9. QED
    BY <1>5, <1>6, <1>7, <1>8 DEF StorageInv

-----------------------------------------------------------------------------
(* Storage: the theorem *)

LEMMA BeginsKeep ==
  ASSUME D!StorageAssumption, ~Meets, StorageInv, NEW c \in Caller,
         D!BeginCreate(c) \/ D!BeginConnect(c) \/ D!BeginRemove(c)
  PROVE  StorageInv'
  <1>1. CASE D!BeginCreate(c)
    <2>1. PICK n \in StoredName, p \in Spelling, e \in {"ingitdb", "sqlite"} :
              Absolute[p] = p /\ D!Starts(c, n, "create", e, p, FALSE)
      BY <1>1 DEF D!BeginCreate
    <2>2. QED
      BY <2>1, StartsKeep DEF D!Engines
  <1>2. CASE D!BeginConnect(c)
    <2>1. CASE \E n \in StoredName, p \in Spelling, e \in {"ingitdb", "sqlite"} :
                  Absolute[p] = p /\ D!Starts(c, n, "plan", e, p, FALSE)
      BY <2>1, StartsKeep DEF D!Engines
    <2>2. CASE \E n \in StoredName, p \in Spelling, e \in {"ingitdb", "sqlite"} : D!Starts(c, n, "read", e, p, TRUE)
      BY <2>2, StartsKeep DEF D!Engines
    <2>3. CASE \E n \in StoredName : D!Starts(c, n, "read", "remote", None, TRUE)
      BY <2>3, StartsKeep DEF D!Engines
    <2>4. QED
      BY <1>2, <2>1, <2>2, <2>3 DEF D!BeginConnect
  <1>3. CASE D!BeginRemove(c)
    <2>1. PICK n \in StoredName : D!Starts(c, n, "remove", None, None, FALSE)
      BY <1>3 DEF D!BeginRemove
    <2>2. QED
      BY <2>1, StartsKeep
  <1>4. QED
    BY <1>1, <1>2, <1>3

LEMMA StorageStep ==
  ASSUME D!StorageAssumption, ~Meets, StorageInv, [D!Next]_D!storageVars
  PROVE  StorageInv'
  <1>1. CASE D!Change \/ D!CloseWhenDone \/ D!Reopen
    BY <1>1, ChangeKeeps, CloseWhenDoneKeeps, ReopenKeeps
  <1>2. ASSUME NEW c \in Caller,
               D!Create(c) \/ D!MakeStorage(c) \/ D!MountNew(c) \/ D!Register(c) \/ D!Undo(c)
        PROVE  StorageInv'
    BY <1>2, CreateKeeps, MakeKeeps, MountNewKeeps, RegisterKeeps, UndoKeeps
  <1>3. ASSUME NEW c \in Caller,
               D!PlanManifest(c) \/ D!Plan(c) \/ D!Probe(c) \/ D!MountStaging(c) \/ D!Commit(c)
        PROVE  StorageInv'
    BY <1>3, PlanManifestKeeps, PlanKeeps, ProbeKeeps, MountStagingKeeps, CommitKeeps
  <1>4. ASSUME NEW c \in Caller,
               D!BeginCreate(c) \/ D!BeginConnect(c) \/ D!BeginRemove(c) \/ D!Remove(c) \/ D!Forget(c)
        PROVE  StorageInv'
    BY <1>4, BeginsKeep, RemoveKeeps, ForgetKeeps
  <1>5. CASE UNCHANGED D!storageVars
    BY <1>5 DEF D!storageVars, StorageInv, StorageTypes, JobsInv, WorkInv, FreeInv, ThingsInv, FoundInv,
                RegistryInv, CatalogueInv, IsKept, IsGone, IsWatched
  <1>6. QED
    BY <1>1, <1>2, <1>3, <1>4, <1>5 DEF D!Next

LEMMA StorageIsSound ==
  ASSUME D!StorageAssumption, StorageInv
  PROVE  D!StorageIsSafe /\ D!StorageTypeOK
  <1>1. mutex = None => thing = theirs
    BY DEF StorageInv, ThingsInv
  <1>2. \A n \in StoredName : registry[n] \in Spelling =>
          /\ Real[registry[n]] \notin Own /\ Absolute[registry[n]] = registry[n]
          /\ thing[Real[registry[n]]] \in {"ingitdb", "tables"}
          /\ \A m \in StoredName \ {n} : registry[m] \in Spelling => Real[registry[m]] # Real[registry[n]]
          /\ (thing[Real[registry[n]]] = "ingitdb" /\ n \notin excused) => catalogue[n] = Real[registry[n]]
    BY DEF StorageInv, RegistryInv, CatalogueInv, IsKept
  <1>3. \A n \in StoredName : (registry[n] = None /\ ~D!WorksOn(n) /\ n \notin excused) => catalogue[n] = None
    BY DEF StorageInv, CatalogueInv, IsGone, D!WorksOn
  <1>4. staging = {c \in Caller : c \in staging /\ job[c].at # "idle"}
    BY DEF StorageInv, StorageTypes, WorkInv, Looking
  <1>5. D!StorageIsSafe
    BY <1>1, <1>2, <1>3, <1>4 DEF D!StorageIsSafe
  <1>6. D!StorageTypeOK
    BY DEF StorageInv, StorageTypes, D!StorageTypeOK, Job, JobSteps, Making, Looking
  <1>7. QED
    BY <1>5, <1>6

\* Whatever fails, comes late or is cut short by a crash: what people keep at a
\* place is as they left it, no two databases share a place, each has real
\* storage and the schema found in it, and a request that failed leaves nothing,
\* as long as no two requests work for one name or at one place.
\* StorageIsSafe (databases.go:701-795, connect.go:143-221).
THEOREM StorageStaysSafe ==
  ASSUME D!StorageAssumption, ~Meets
  PROVE  D!Spec => [](D!StorageIsSafe /\ D!StorageTypeOK)
  <1>1. D!Spec => []StorageInv
    BY StorageInit, StorageStep, PTL DEF D!Spec
  <1>2. QED
    BY <1>1, StorageIsSound, PTL

\* In MCHome databases' files change by the steps of Storage and no other.
LEMMA HomeRunsStorage == HomeSpec => D!Spec
  <1>1. HomeInit => D!Init
    BY Zenon DEF HomeInit
  <1>2. [HomeNext]_<<contextsVars, settingsVars, vars, storageVars, part>> => [D!Next]_(D!storageVars)
    BY DEF HomeNext, storageVars, D!storageVars
  <1>3. QED
    BY <1>1, <1>2, PTL DEF HomeSpec, D!Spec

-----------------------------------------------------------------------------
(* The home *)

\* The files of a home keep what people chose, when one change is made at a
\* time: FilesAreKept (store.go:309-329, cli/context.go:189-211,
\* telemetry.go:37-40, databases.go:701-795, connect.go:143-221).
THEOREM FilesKept ==
  ASSUME ~Overlap, ~Failing, OneCommand, ~Concurrent, ~Meets
  PROVE  HomeSpec => FilesAreKept
  <1>1. X!ContextsAssumption /\ S!SettingsAssumption /\ D!StorageAssumption
    BY HomeAssumption
  <1>2. X!Spec => X!ChoicesLast /\ X!CdMoves
    BY <1>1, RemovalSpares, CdMovesOn
  <1>3. S!Spec => S!UnreadableIsKept
    BY <1>1, UnreadableStays
  <1>4. D!Spec => []D!StorageIsSafe
    BY <1>1, StorageStaysSafe, PTL
  <1>5. D!StorageIsSafe => (part = "storage" => D!StorageIsSafe)
    OBVIOUS
  <1>6. QED
    BY <1>2, <1>3, <1>4, <1>5, HomeRunsContexts, HomeRunsSettings, HomeRunsStorage, PTL DEF FilesAreKept

\* Every variable keeps its type, and every buffer and queue its bound
\* (HomeTypeOK).
THEOREM HomeTypes ==
  ASSUME ~Concurrent, ~Meets
  PROVE  HomeSpec => []HomeTypeOK
  <1>1. X!ContextsAssumption /\ S!SettingsAssumption /\ TelemetryAssumption /\ D!StorageAssumption
    BY HomeAssumption
  <1> DEFINE Parts == part \in {"contexts", "settings", "telemetry", "storage"}
  <1>2. X!ContextsTypeOK /\ S!SettingsTypeOK /\ TelemetryTypeOK /\ D!StorageTypeOK /\ Parts => HomeTypeOK
    BY DEF HomeTypeOK
  <1>3. HomeSpec => []Parts
    <2>1. HomeInit => Parts
      BY DEF HomeInit
    <2>2. Parts /\ [HomeNext]_<<contextsVars, settingsVars, vars, storageVars, part>> => Parts'
      BY DEF HomeNext
    <2>3. QED
      BY <2>1, <2>2, PTL DEF HomeSpec
  <1>4. X!Spec => []X!ContextsTypeOK
    BY <1>1, ContextsTypes, PTL
  <1>5. S!Spec => []S!SettingsTypeOK
    BY <1>1, SettingsTypes
  <1>6. Spec => []TelemetryTypeOK
    BY <1>1, TelemetryTypes
  <1>7. D!Spec => []D!StorageTypeOK
    BY <1>1, StorageStaysSafe, PTL
  <1>8. QED
    BY <1>2, <1>3, <1>4, <1>5, <1>6, <1>7,
       HomeRunsContexts, HomeRunsSettings, HomeRunsTelemetry, HomeRunsStorage, PTL

=============================================================================

------------------------------- MODULE Registry -------------------------------
(***************************************************************************)
(* The running server's registry of databases (internal/setup, type        *)
(* Registry): the manifests in <home>/databases, the mount record of each, *)
(* the databases that the openvaultdb-go server serves, and the requests   *)
(* that create, connect, remove and reload them while people edit          *)
(* manifests by hand.  Every action between two r.mu.Lock and Unlock is    *)
(* one step, except in a create or connect: those hold mu while they look  *)
(* at storages, mount one and change the disk.                             *)
(*                                                                         *)
(* Ids are numbers, ordered as the code orders strings; the manifest of    *)
(* database n that OVDB writes is file n.  A registration that cannot be   *)
(* parsed or mounted is one whose mount fails.  server.Mount of an id that *)
(* is served is refused, as settle expects.                                *)
(***************************************************************************)
EXTENDS Naturals, FiniteSets

CONSTANTS
    Name,         \* database ids and, for each, its registry file
    Storage,      \* folders and files that hold databases
    Caller,       \* HTTP requests in progress at a time
    Boot,         \* the server's own goroutine: MountAll, then Close
    None,
    Requests,     \* the kinds of request made in this instance
    Edits,        \* how people change the registry folder by hand
    MaxRequests,  \* bound on requests
    MaxEdits,     \* bound on edits by hand
    EarlyRequests, \* whether requests arrive while MountAll still mounts
    Cancels,      \* whether clients disconnect
    SlowHandlers  \* whether requests outlive the 5s of Server.Shutdown

ASSUME RegistryAssumption ==
    /\ Name \subseteq Nat \ {0} /\ IsFiniteSet(Name) /\ IsFiniteSet(Caller)
    /\ Boot \notin Caller /\ None \notin Name \cup Caller \cup {Boot} \cup Storage
    /\ Requests \subseteq {"create", "connect", "remove", "reload", "reloadAll"}
    /\ Edits \subseteq {"add", "delete", "rename"}
    /\ MaxRequests \in Nat /\ MaxEdits \in Nat
    /\ {EarlyRequests, Cancels, SlowHandlers} \subseteq BOOLEAN

VARIABLES
    disk,     \* the manifest in each registry file, or None
    mounts,   \* the mount record of each registry file, or None
    gen,      \* by file: bumps whenever its record is replaced
    closed,
    served,   \* by id: the file of the database the server serves, or None
    open,     \* how many databases mount.File opened and nobody closed
    late,     \* mounts nobody waits for any more
    mu,       \* who holds the registry's lock across steps
    pc,       \* where each request, and Boot, is
    want,     \* what the request asks for
    regs,     \* the registrations it is working on: by file, the id or None
    todo,     \* the ids it has yet to unmount
    task,     \* its mountOne goroutines, by file
    used      \* requests and edits made so far

callVars == <<pc, want, regs, todo, task>>
vars == <<disk, mounts, gen, closed, served, open, late, mu, callVars, used>>

Goroutine == Caller \cup {Boot}
Manifest == [id : Name, storage : Storage]
NoRegs == [f \in Name |-> None]
State == {"mounting", "mounted", "needs_attention"}
MountRecord == [id : Name, state : State]
Task == [id : Name, gen : Nat, phase : {"check", "open", "opened", "failed"},
         db : Name \cup {None}]
ASSUME NoneAssumption == None \notin Manifest \cup MountRecord \cup Task

Want == [id : Name \cup {None}, storage : Storage \cup {None}]
NoWant == [id |-> None, storage |-> None]
Pc == {"idle", "create", "refuse", "provision", "connect", "plan", "staging",
       "commit", "decline", "rename", "serve", "remove",
       "reload", "reloadAll", "forget", "mark", "mountAll", "pending",
       "unmountRemoved", "unmountGone", "unmountOld", "unmountAll",
       "mountEach", "await", "draining", "closed"}

RegistryTypeOK ==
    /\ disk \in [Name -> Manifest \cup {None}]
    /\ mounts \in [Name -> MountRecord \cup {None}]
    /\ gen \in [Name -> Nat]
    /\ closed \in BOOLEAN
    /\ served \in [Name -> Name \cup {None}]
    /\ open \in Nat /\ late \in Nat
    /\ mu \in Caller \cup {None}
    /\ pc \in [Goroutine -> Pc]
    /\ want \in [Goroutine -> Want]
    /\ regs \in [Goroutine -> [Name -> Name \cup {None}]]
    /\ todo \in [Goroutine -> SUBSET Name]
    /\ task \in [Goroutine -> [Name -> Task \cup {None}]]
    /\ used \in [requests : 0 .. MaxRequests, edits : 0 .. MaxEdits, left : BOOLEAN]

-----------------------------------------------------------------------------
(* Registrations and mount records *)

\* ReadRegistry.
Registrations == [f \in Name |-> IF disk[f] = None THEN None ELSE disk[f].id]

\* find: the first registration of that id, or none.
Finds(id, f) ==
    /\ disk[f] # None /\ disk[f].id = id
    /\ \A g \in Name : disk[g] # None /\ disk[g].id = id => f <= g
Found(id) == \E f \in Name : Finds(id, f)

\* registeredAs and locationOverlaps: the id or the storage is taken.
Taken(m) ==
    \/ disk[m.id] # None
    \/ \E f \in Name : disk[f] # None
                       /\ (disk[f].id = m.id \/ disk[f].storage = m.storage)

Recorded(f) == mounts[f] # None
HasRecord(f, state) == Recorded(f) /\ mounts[f].state = state
MountedIds(files) == {mounts[f].id : f \in {g \in files : HasRecord(g, "mounted")}}

\* setMountSameGen, dropMount: a file has one record.
SetMount(f, id, state) == mounts' = [mounts EXCEPT ![f] = [id |-> id, state |-> state]]
Drop(files) == mounts' = [f \in Name |-> IF f \in files THEN None ELSE mounts[f]]

Bump(files) == gen' = [f \in Name |-> IF f \in files THEN gen[f] + 1 ELSE gen[f]]

\* A new record, for each registration.
Mounting(id) == [id |-> id, state |-> "mounting"]

NoTasks == [f \in Name |-> None]

Init ==
    /\ disk \in [Name -> Manifest \cup {None}]
    /\ \A f, g \in Name : disk[f] # None /\ disk[g] # None /\ f # g
                          => disk[f].storage # disk[g].storage
    /\ \A f \in Name : disk[f] # None => disk[f].id = f
    /\ mounts = [f \in Name |-> IF disk[f] = None THEN None ELSE Mounting(disk[f].id)]
    /\ gen = [f \in Name |-> IF disk[f] = None THEN 0 ELSE 1]
    /\ closed = FALSE
    /\ served = [n \in Name |-> None]
    /\ open = 0 /\ late = 0
    /\ mu = None
    /\ pc = [c \in Goroutine |-> IF c = Boot THEN "mountAll" ELSE "idle"]
    /\ want = [c \in Goroutine |-> NoWant]
    /\ regs = [c \in Goroutine |-> NoRegs]
    /\ todo = [c \in Goroutine |-> {}]
    /\ task = [c \in Goroutine |-> NoTasks]
    /\ used = [requests |-> 0, edits |-> 0, left |-> FALSE]

Goes(c, to) == pc' = [pc EXCEPT ![c] = to]

\* The request is answered.
Returns(c) ==
    /\ Goes(c, "idle")
    /\ want' = [want EXCEPT ![c] = NoWant]
    /\ regs' = [regs EXCEPT ![c] = NoRegs]
    /\ UNCHANGED <<todo, task>>

Unlocked == mu = None /\ UNCHANGED mu

-----------------------------------------------------------------------------
(* Requests *)

\* A request arrives at a server that is not stopping.
Begin(c) ==
    /\ pc[c] = "idle"
    /\ pc[Boot] \notin {"draining", "unmountAll", "closed"}
    /\ EarlyRequests \/ pc[Boot] = "idle"
    /\ used.requests < MaxRequests
    /\ used' = [used EXCEPT !.requests = @ + 1]
    /\ \E kind \in Requests, id \in Name, s \in Storage :
          /\ Goes(c, kind)
          /\ want' = [want EXCEPT ![c] =
               CASE kind \in {"create", "connect"} -> [id |-> id, storage |-> s]
                 [] kind \in {"remove", "reload"} -> [id |-> id, storage |-> None]
                 [] OTHER -> NoWant]
    /\ UNCHANGED <<disk, mounts, gen, closed, served, open, late, mu, regs, todo, task>>

\* The lock is taken and the registry read; what it says decides where c goes,
\* once it has followed the paths of the storages registered.
Checks(c, refused, available) ==
    /\ mu = None /\ mu' = c
    /\ Goes(c, IF Taken(want[c]) THEN refused ELSE available)
    /\ UNCHANGED <<want, regs, todo, task>>

\* Create and Reconnect.
Create(c) ==
    /\ pc[c] = "create"
    /\ Checks(c, "refuse", "provision")
    /\ UNCHANGED <<disk, mounts, gen, closed, served, open, late, used>>

\* An id or a storage that is taken is refused; a connect closes its database.
Refuse(c) ==
    /\ pc[c] \in {"refuse", "decline"}
    /\ open' = IF pc[c] = "decline" THEN open - 1 ELSE open
    /\ mu' = None
    /\ Returns(c)
    /\ UNCHANGED <<disk, mounts, gen, closed, served, late, used>>

\* provision and Reconnect, still under the lock and with no deadline: git
\* init and the first mount, then the manifest moves into the registry; a
\* failure removes what they made.
Provision(c) ==
    /\ pc[c] = "provision"
    /\ \/ /\ Returns(c)
          /\ mu' = None
          /\ UNCHANGED <<disk, open>>
       \/ /\ disk' = [disk EXCEPT ![want[c].id] = want[c]]
          /\ open' = open + 1
          /\ Goes(c, "serve")
          /\ UNCHANGED <<mu, want, regs, todo, task>>
    /\ UNCHANGED <<mounts, gen, closed, served, late, used>>

\* Connect: planConnect reads the manifest within the deadline, then the
\* registry under the lock.
ConnectPlans(c) ==
    /\ pc[c] = "connect"
    /\ \/ Returns(c) /\ UNCHANGED mu
       \/ Checks(c, "refuse", "plan")
    /\ UNCHANGED <<disk, mounts, gen, closed, served, open, late, used>>

ConnectPlanned(c) ==
    /\ pc[c] = "plan"
    /\ mu' = None
    /\ Goes(c, "staging")
    /\ UNCHANGED <<disk, mounts, gen, closed, served, open, late, used, want, regs, todo, task>>

\* Connect: probe and mountStaging, each within the deadline.
ConnectMounts(c) ==
    /\ pc[c] = "staging"
    /\ \/ /\ Goes(c, "commit")
          /\ open' = open + 1
          /\ UNCHANGED <<want, regs, todo, task, late>>
       \/ Returns(c) /\ UNCHANGED <<open, late>>
       \/ Returns(c) /\ late' = late + 1 /\ UNCHANGED open
    /\ UNCHANGED <<disk, mounts, gen, closed, served, mu, used>>

\* Mutation: what was available when the connect was planned is not checked
\* again under the lock.
ConnectCommitsUnchecked(c) ==
    /\ pc[c] = "commit" /\ mu = None
    /\ mu' = c
    /\ Goes(c, "rename")
    /\ UNCHANGED <<disk, mounts, gen, closed, served, open, late, want, regs, todo, task, used>>

\* Connect: checkAvailable again under the lock ...
ConnectCommits(c) ==
    /\ pc[c] = "commit"
    /\ Checks(c, "decline", "rename")
    /\ UNCHANGED <<disk, mounts, gen, closed, served, open, late, used>>

\* ... then the rename, or its failure.
ConnectRenames(c) ==
    /\ pc[c] = "rename"
    /\ \/ /\ Returns(c)
          /\ open' = open - 1
          /\ mu' = None
          /\ UNCHANGED disk
       \/ /\ disk' = [disk EXCEPT ![want[c].id] = want[c]]
          /\ Goes(c, "serve")
          /\ UNCHANGED <<mu, open, want, regs, todo, task>>
    /\ UNCHANGED <<mounts, gen, closed, served, late, used>>

\* Mutation: a database the server refuses is closed twice.
ServeClosesTwice(c) ==
    /\ pc[c] = "serve"
    /\ disk' = [disk EXCEPT ![want[c].id] = None]
    /\ open' = open - 2
    /\ mu' = None
    /\ Returns(c)
    /\ UNCHANGED <<served, mounts, gen, closed, late, used>>

\* Create, Reconnect and Connect: server.Mount, or the manifest goes again.
Serve(c) ==
    /\ pc[c] = "serve"
    /\ LET id == want[c].id IN
       \/ /\ served[id] = None
          /\ served' = [served EXCEPT ![id] = id]
          /\ SetMount(id, id, "mounted")
          /\ Bump({id})
          /\ UNCHANGED <<disk, open>>
       \/ /\ disk' = [disk EXCEPT ![id] = None]
          /\ open' = open - 1
          /\ UNCHANGED <<served, mounts, gen>>
    /\ mu' = None
    /\ Returns(c)
    /\ UNCHANGED <<closed, late, used>>

\* Mutation: a removed database is not unmounted.
UnregisterOnly(c) ==
    /\ pc[c] = "remove" /\ Unlocked
    /\ \/ Returns(c) /\ UNCHANGED <<disk, mounts, gen>>
       \/ \E f \in Name :
             /\ Finds(want[c].id, f)
             /\ disk' = [disk EXCEPT ![f] = None]
             /\ Drop({f})
             /\ Bump({f})
             /\ regs' = [regs EXCEPT ![c] = [NoRegs EXCEPT ![f] = want[c].id]]
             /\ Goes(c, "unmountRemoved")
             /\ UNCHANGED <<todo, want, task>>
    /\ UNCHANGED <<closed, served, open, late, used>>

\* Remove: the manifest goes first, then the record; a manifest that cannot
\* be removed, or is not found, changes nothing.
Unregister(c) ==
    /\ pc[c] = "remove" /\ Unlocked
    /\ \/ Returns(c) /\ UNCHANGED <<disk, mounts, gen>>
       \/ \E f \in Name :
             /\ Finds(want[c].id, f)
             /\ disk' = [disk EXCEPT ![f] = None]
             /\ Drop({f})
             /\ Bump({f})
             /\ todo' = [todo EXCEPT ![c] = IF HasRecord(f, "mounted") THEN {want[c].id} ELSE {}]
             /\ regs' = [regs EXCEPT ![c] = [NoRegs EXCEPT ![f] = want[c].id]]
             /\ Goes(c, "unmountRemoved")
             /\ UNCHANGED <<want, task>>
    /\ UNCHANGED <<closed, served, open, late, used>>

\* Reload reads the registry without the lock ...
ReloadReads(c) ==
    /\ pc[c] = "reload"
    /\ \/ /\ ~Found(want[c].id)
          /\ Returns(c)
       \/ \E f \in Name :
             /\ Finds(want[c].id, f)
             /\ regs' = [regs EXCEPT ![c] = [NoRegs EXCEPT ![f] = want[c].id]]
             /\ Goes(c, "mark")
             /\ UNCHANGED <<want, todo, task>>
    /\ UNCHANGED <<disk, mounts, gen, closed, served, open, late, mu, used>>

\* ... and so does ReloadAll ...
ReloadAllReads(c) ==
    /\ pc[c] = "reloadAll"
    /\ regs' = [regs EXCEPT ![c] = Registrations]
    /\ Goes(c, "forget")
    /\ UNCHANGED <<disk, mounts, gen, closed, served, open, late, mu, want, todo, task, used>>

Files(c) == {f \in Name : regs[c][f] # None}

\* The slice of records, sorted by id.
Sorted(ms) ==
    /\ \A f \in Name : Recorded(f) => \E i \in DOMAIN ms : ms[i] = f
    /\ \A i, j \in DOMAIN ms : i < j => ms[i] # ms[j] /\ mounts[ms[i]].id <= mounts[ms[j]].id

\* ... which drops the records of manifests that are gone from the slice it
\* ranges over: each deletion moves the next record under the index already
\* visited.
ForgetGone(c) ==
    /\ pc[c] = "forget" /\ Unlocked
    /\ LET recorded == {f \in Name : Recorded(f)} IN
       \E ms \in [1 .. Cardinality(recorded) -> recorded] :
          LET gone[i \in DOMAIN ms] == ms[i] \notin Files(c) /\ (i > 1 => ~gone[i - 1])
              dropped == {ms[i] : i \in {j \in DOMAIN ms : gone[j]}}
          IN  /\ Sorted(ms)
              /\ Drop(dropped)
              /\ Bump(dropped)
              /\ todo' = [todo EXCEPT ![c] = MountedIds(dropped)]
    /\ Goes(c, "unmountGone")
    /\ UNCHANGED <<disk, closed, served, open, late, want, regs, task, used>>

\* Mutation: a reload leaves its records as they are until they settle.
MarkNothing(c) ==
    /\ pc[c] = "mark" /\ Unlocked
    /\ todo' = [todo EXCEPT ![c] = MountedIds(Files(c))]
    /\ Bump(Files(c))
    /\ Goes(c, "unmountOld")
    /\ UNCHANGED <<mounts, disk, closed, served, open, late, want, regs, task, used>>

\* Mutation: a reload marks its records before the old database is noted.
MarkKeepsOld(c) ==
    /\ pc[c] = "mark" /\ Unlocked
    /\ mounts' = [f \in Name |-> IF f \in Files(c) THEN Mounting(regs[c][f]) ELSE mounts[f]]
    /\ Bump(Files(c))
    /\ Goes(c, "unmountOld")
    /\ UNCHANGED <<disk, closed, served, open, late, want, regs, todo, task, used>>

\* reload: every registration is mounting, as a new generation; what was
\* mounted is unmounted after the lock.
Mark(c) ==
    /\ pc[c] = "mark" /\ Unlocked
    /\ todo' = [todo EXCEPT ![c] = MountedIds(Files(c))]
    /\ mounts' = [f \in Name |-> IF f \in Files(c) THEN Mounting(regs[c][f]) ELSE mounts[f]]
    /\ Bump(Files(c))
    /\ Goes(c, "unmountOld")
    /\ UNCHANGED <<disk, closed, served, open, late, want, regs, task, used>>

\* unmount: no longer served at once; closed when its last request ends.
Unmount(c) ==
    /\ \E id \in todo[c] :
          /\ todo' = [todo EXCEPT ![c] = @ \ {id}]
          /\ served' = [served EXCEPT ![id] = None]
          /\ open' = IF served[id] = None THEN open ELSE open - 1
    /\ UNCHANGED <<disk, mounts, gen, closed, late, mu, pc, want, regs, task, used>>

\* What follows once everything is unmounted.
Unmounted(c) ==
    /\ todo[c] = {}
    /\ \/ pc[c] = "unmountRemoved" /\ Returns(c)
       \/ /\ \/ pc[c] = "unmountGone" /\ Goes(c, "mark")
             \/ pc[c] = "unmountOld" /\ Goes(c, "mountEach")
             \/ pc[c] = "unmountAll" /\ Goes(c, "closed")
          /\ UNCHANGED <<want, regs, todo, task>>
    /\ UNCHANGED <<disk, mounts, gen, closed, served, open, late, mu, used>>

-----------------------------------------------------------------------------
(* Mounting *)

\* mountEach: the generation is read when the goroutine is started.
StartMount(c) ==
    /\ pc[c] = "mountEach" /\ Unlocked
    /\ \/ \E f \in Files(c) :
             /\ regs' = [regs EXCEPT ![c][f] = None]
             /\ task' = [task EXCEPT ![c][f] =
                  [id |-> regs[c][f], gen |-> gen[f], phase |-> "check", db |-> None]]
             /\ UNCHANGED pc
       \/ Files(c) = {} /\ Goes(c, "await") /\ UNCHANGED <<regs, task>>
    /\ UNCHANGED <<disk, mounts, gen, closed, served, open, late, want, todo, used>>

\* mountEach returns when every mount has settled.
AllSettled(c) ==
    /\ pc[c] = "await" /\ task[c] = NoTasks
    /\ Returns(c)
    /\ UNCHANGED <<disk, mounts, gen, closed, served, open, late, mu, used>>

\* checkRegistration: an id used twice, or storage that is missing.
Check(c, f) ==
    /\ task[c][f] # None /\ task[c][f].phase = "check"
    /\ \/ /\ ~\E g \in Name : g < f /\ disk[g] # None /\ disk[g].id = task[c][f].id
          /\ task' = [task EXCEPT ![c][f].phase = "open"]
       \/ task' = [task EXCEPT ![c][f].phase = "failed"]
    /\ UNCHANGED <<disk, mounts, gen, closed, served, open, late, mu, pc, want, regs, todo, used>>

\* mount.FileWithOptions opens what the manifest now says, or fails.
Open(c, f) ==
    /\ task[c][f] # None /\ task[c][f].phase = "open"
    /\ \/ /\ disk[f] # None
          /\ task' = [task EXCEPT ![c][f].phase = "opened", ![c][f].db = disk[f].id]
          /\ open' = open + 1
       \/ task' = [task EXCEPT ![c][f].phase = "failed"] /\ UNCHANGED open
    /\ UNCHANGED <<disk, mounts, gen, closed, served, late, mu, pc, want, regs, todo, used>>

\* Mutation: a closed registry still takes the outcome of a mount.
CurrentWhenClosed(c, f) == Recorded(f) /\ gen[f] = task[c][f].gen

\* settle's condition: the record is still the one this mount was for.
Current(c, f) == Recorded(f) /\ ~closed /\ gen[f] = task[c][f].gen

Settled(c, f, state) == SetMount(f, task[c][f].id, state)

\* Mutation: a mount that comes too late is not closed.
SettleLeaks(c, f) ==
    /\ task[c][f] # None /\ Unlocked
    /\ \/ task[c][f].phase \in {"opened", "failed"} /\ ~Current(c, f) /\ UNCHANGED mounts
       \/ task[c][f].phase = "failed" /\ Current(c, f) /\ Settled(c, f, "needs_attention")
    /\ task' = [task EXCEPT ![c][f] = None]
    /\ UNCHANGED <<disk, gen, closed, served, open, late, pc, want, regs, todo, used>>

\* settle: a mount that is not current, or that the server refuses, is
\* closed.
Settle(c, f) ==
    /\ task[c][f] # None /\ Unlocked
    /\ \/ /\ task[c][f].phase = "failed"
          /\ IF Current(c, f) THEN Settled(c, f, "needs_attention") ELSE UNCHANGED mounts
          /\ UNCHANGED <<served, open>>
       \/ /\ task[c][f].phase = "opened" /\ ~Current(c, f)
          /\ open' = open - 1
          /\ UNCHANGED <<mounts, served>>
       \/ /\ task[c][f].phase = "opened" /\ Current(c, f)
          /\ IF served[task[c][f].db] = None
             THEN /\ served' = [served EXCEPT ![task[c][f].db] = f]
                  /\ Settled(c, f, "mounted")
                  /\ UNCHANGED open
             ELSE /\ open' = open - 1
                  /\ Settled(c, f, "needs_attention")
                  /\ UNCHANGED served
    /\ task' = [task EXCEPT ![c][f] = None]
    /\ UNCHANGED <<disk, gen, closed, late, pc, want, regs, todo, used>>

\* Mutation: a mount has no deadline.
TimeOutNever(c, f) == task[c][f] # None /\ FALSE /\ UNCHANGED vars

\* Mutation: the deadline ends the wait without an outcome.
TimeOutSilently(c, f) ==
    /\ task[c][f] # None /\ Unlocked
    /\ task[c][f].phase = "open"
    /\ late' = late + 1
    /\ task' = [task EXCEPT ![c][f] = None]
    /\ UNCHANGED <<mounts, disk, gen, closed, served, open, pc, want, regs, todo, used>>

\* The mount deadline passes first.
TimeOut(c, f) ==
    /\ task[c][f] # None /\ Unlocked
    /\ task[c][f].phase = "open"
    /\ IF Current(c, f) THEN Settled(c, f, "needs_attention") ELSE UNCHANGED mounts
    /\ late' = late + 1
    /\ task' = [task EXCEPT ![c][f] = None]
    /\ UNCHANGED <<disk, gen, closed, served, open, pc, want, regs, todo, used>>

\* Mutation: a late mount is left open.
LateLeaks == late > 0 /\ late' = late - 1 /\ open' = open + 1
             /\ UNCHANGED <<disk, mounts, gen, closed, served, mu, callVars, used>>

\* closeWhenDone: a late mount ends, and what it opened is closed.
CloseWhenDone ==
    /\ late > 0 /\ late' = late - 1
    /\ UNCHANGED <<disk, mounts, gen, closed, served, open, mu, callVars, used>>

\* ctx ends: mountOne leaves its mounts to closeWhenDone.  One that settles
\* all the same is one that settled first: nothing but the request's own end
\* tells the two orders apart.
Abandons(c) ==
    LET in(phase) == {f \in Name : task[c][f] # None /\ task[c][f].phase = phase} IN
    /\ task' = [task EXCEPT ![c] = NoTasks]
    /\ open' = open - Cardinality(in("opened"))
    /\ late' = late + Cardinality(in("open"))

\* The client disconnects while its reload waits for mounts.
Cancel(c) ==
    /\ Cancels /\ pc[c] = "await" /\ c # Boot
    /\ Abandons(c)
    /\ Goes(c, "idle")
    /\ want' = [want EXCEPT ![c] = NoWant]
    /\ used' = [used EXCEPT !.left = TRUE]
    /\ UNCHANGED <<disk, mounts, gen, closed, served, mu, regs, todo>>

-----------------------------------------------------------------------------
(* The server starts and stops *)

\* MountAll reads the registry, then picks the records still mounting.
MountAllReads ==
    /\ pc[Boot] = "mountAll"
    /\ regs' = [regs EXCEPT ![Boot] = Registrations]
    /\ Goes(Boot, "pending")
    /\ UNCHANGED <<disk, mounts, gen, closed, served, open, late, mu, want, todo, task, used>>

MountAllPicks ==
    /\ pc[Boot] = "pending" /\ Unlocked
    /\ regs' = [regs EXCEPT ![Boot] = [f \in Name |-> IF HasRecord(f, "mounting") THEN @[f] ELSE None]]
    /\ Goes(Boot, "mountEach")
    /\ UNCHANGED <<disk, mounts, gen, closed, served, open, late, want, todo, task, used>>

\* Run stops: no new requests, no more mounting.
Stop ==
    /\ pc[Boot] \notin {"draining", "unmountAll", "closed"}
    /\ Goes(Boot, "draining")
    /\ Abandons(Boot)
    /\ regs' = [regs EXCEPT ![Boot] = NoRegs]
    /\ UNCHANGED <<disk, mounts, gen, closed, served, mu, want, todo, used>>

\* Close, after Server.Shutdown has waited for requests as long as it does.
Close ==
    /\ pc[Boot] = "draining" /\ Unlocked
    /\ SlowHandlers \/ \A c \in Caller : pc[c] = "idle"
    /\ todo' = [todo EXCEPT ![Boot] = MountedIds(Name)]
    /\ Drop(Name)
    /\ closed' = TRUE
    /\ Goes(Boot, "unmountAll")
    /\ UNCHANGED <<disk, gen, served, open, late, want, regs, task, used>>

\* A person adds, deletes or renames a database in a manifest by hand.
EditByHand ==
    /\ used.edits < MaxEdits
    /\ used' = [used EXCEPT !.edits = @ + 1]
    /\ \E f \in Name :
          \/ /\ "add" \in Edits /\ disk[f] = None
             /\ \E m \in Manifest : disk' = [disk EXCEPT ![f] = m]
          \/ /\ "delete" \in Edits /\ disk[f] # None
             /\ disk' = [disk EXCEPT ![f] = None]
          \/ /\ "rename" \in Edits /\ disk[f] # None
             /\ \E id \in Name \ {disk[f].id} : disk' = [disk EXCEPT ![f].id = id]
    /\ UNCHANGED <<mounts, gen, closed, served, open, late, mu, callVars>>

\* What waits on storage under the lock, with no deadline.
Waits(c) == Refuse(c) \/ Provision(c) \/ ConnectPlanned(c) \/ ConnectRenames(c)

Works(c) ==
    \/ Create(c) \/ ConnectPlans(c) \/ ConnectMounts(c) \/ ConnectCommits(c)
    \/ Serve(c) \/ Unregister(c) \/ ReloadReads(c) \/ ReloadAllReads(c)
    \/ ForgetGone(c) \/ Mark(c) \/ Unmount(c) \/ Unmounted(c) \/ StartMount(c)
    \/ AllSettled(c)
Mounts(c) == \E f \in Name : Check(c, f) \/ Open(c, f) \/ Settle(c, f) \/ TimeOut(c, f)

Next ==
    \/ \E c \in Caller : Begin(c) \/ Cancel(c)
    \/ \E c \in Goroutine : Waits(c) \/ Works(c) \/ Mounts(c)
    \/ MountAllReads \/ MountAllPicks \/ Stop \/ Close
    \/ CloseWhenDone
    \/ EditByHand

Spec == Init /\ [][Next]_vars

\* Goroutines that can run do run, and every timer fires.  Storage may never
\* answer: what looks at it without a deadline (Waits, Check) promises nothing,
\* and neither does mount.File (Open).
Fairness ==
    /\ \A c \in Goroutine : WF_vars(Works(c))
    /\ \A c \in Goroutine, f \in Name : WF_vars(Settle(c, f) \/ TimeOut(c, f))
    /\ WF_vars(MountAllReads \/ MountAllPicks)
    /\ WF_vars(Close)

LiveSpec == Spec /\ Fairness

-----------------------------------------------------------------------------
(* Properties *)

\* Nothing is in progress.
Quiet ==
    /\ \A c \in Goroutine : pc[c] \in {"idle", "closed"} /\ task[c] = NoTasks
    /\ late = 0

\* A database listed as mounted is served, from its own manifest: requests
\* for it never find nothing, and never find another one (databases.go:36-43,
\* 310-324).
MountedIsServed ==
    \A f \in Name : HasRecord(f, "mounted") => served[mounts[f].id] = f

\* A database that is served is listed as mounted once all requests have
\* ended, so that a reload or remove takes it away (databases.go:36-38).
ServedIsRecorded ==
    Quiet => \A n \in Name :
        served[n] # None => mounts[served[n]] = [id |-> n, state |-> "mounted"]

\* Every database that a mount opened is served or closed in the end, also
\* when it came late, was refused, or lost to a newer record
\* (databases.go:172-174, 210-217).
NothingLeaks == Quiet => open = Cardinality({n \in Name : served[n] # None})

\* OVDB registers an id once, and a storage once, however creates and
\* connects overlap (connect.go:186-188, databases.go:484-488).
RegisteredOnce ==
    \A f, g \in Name :
        disk[f] # None /\ disk[g] # None /\ f # g
        => disk[f].id # disk[g].id /\ disk[f].storage # disk[g].storage

\* A database that was removed is not served any more when the request
\* returns, unless it was registered again meanwhile (databases.go:940-945).
RemoveUnserves ==
    \A c \in Caller :
        pc[c] = "unmountRemoved" /\ pc'[c] = "idle"
        => \A f \in Files(c), n \in Name : served[n] = f => disk[f] # None
RemovedIsNotServed == [][RemoveUnserves]_vars

\* ReloadAll forgets every record whose manifest was deleted by hand
\* (databases.go:1017-1018).
ReloadAllForgets ==
    [][\A c \in Caller :
         pc[c] = "forget" /\ pc'[c] # "forget"
         => \A f \in Name \ Files(c) : mounts'[f] = None]_vars

\* A closed registry serves nothing (databases.go:365-379).
ClosedServesNothing ==
    closed /\ Quiet => \A n \in Name : served[n] = None

\* Whoever holds the lock while it looks at storage lets go of it again ...
LockIsReleased ==
    \A c \in Caller : []<>(pc[c] \notin {"refuse", "provision", "plan", "decline", "rename"})

\* ... and so does the storage of f answer whether it is there, for c.
Answers(c, f) == []<>(task[c][f] = None \/ task[c][f].phase # "check")

\* As long as no request waits forever under the lock, every request whose
\* storages say whether they are there is answered, also when a mount never
\* ends and when other requests wait forever, and a server that stops closes
\* its databases (databases.go:51-53, 117-123, connect.go:280-284).
RequestsEnd ==
    LockIsReleased =>
    /\ \A c \in Caller :
          (\A f \in Name : Answers(c, f)) => (pc[c] # "idle" ~> pc[c] = "idle")
    /\ pc[Boot] \in {"draining", "unmountAll"} ~> pc[Boot] = "closed"

\* Under the same condition no database whose storage says whether it is there
\* stays "mounting" forever in a server that runs, as long as no client leaves
\* before it has its answer (databases.go:117-123, registry.go:33).
MountingEnds ==
    LockIsReleased =>
    \A f \in Name :
        (\A c \in Goroutine : Answers(c, f))
        => (HasRecord(f, "mounting") ~> ~HasRecord(f, "mounting") \/ used.left \/ closed)
=============================================================================

# A formal model of OVDB

OVDB (`github.com/openvaultdb/ovdb`) is a command, a terminal interface and a web
console around one *local server* per OVDB home. The server mounts the databases
registered in the home and serves them on loopback; the commands start, stop and
call it, or write the home themselves when no server runs. Beside them stand older
commands (`ovdb serve`, `ovdb cloud`) and the check of a publisher's repository.
This directory holds TLA+ modules that model those parts, TLC configurations that
check them on small instances, and theorems that TLAPS checks for every instance.

## Running it

    tlc -workers 2 -config MCLifecycle.cfg MCLifecycle     # any .cfg with its module
    tlapm LifecycleProofs.tla                              # the proofs of one file

and likewise `SignInProofs`, `RegistryProofs`, `MCRegistryProofs`, `ChoicesProofs`,
`HomeProofs`, `CommandProofs` and `ConsoleProofs`. `CommandProofs` takes about a
quarter of an hour, the others some minutes each.

`PROJECT.json` lists the runs with their modules, what each is expected to show,
which lines of the source each definition stands for, the hazards with the
properties about them, and for every property a mutation of the model that breaks
it (the operators marked "Mutation:" or "A mutant of" in the modules; nothing else uses
them).

## Inventory: the parts of the system

Paths without a directory are in the repository's root; `internal/setup` is `setup`.

| part | source | state it keeps | operations | module |
|---|---|---|---|---|
| Home lock, runtime directory, server lifecycle | `internal/runtime`, `internal/localserver/run.go` | `home.lock`, `start.lock`, `server.json`, the instance secret, listening ports, processes | `Run`, `Acquire`, `Publish`, `Release`, `Inspect`, `Start`, `Stop`, `WithHomeLock` | `Lifecycle`, `HomeOwner`, `LifecycleRefinement` |
| Registry of databases: mounts | `setup/databases.go`, `connect.go`, `registry.go` | mount records, generations, databases served | `Create`, `Reconnect`, `Connect`, `Remove`, `Reload`, `ReloadAll`, `MountAll`, `Close` | `Registry` |
| Registry of databases: files | the same | manifests in `<home>/databases`, storage, catalogues, staging | create and its undo, connect's look, probe and commit, remove | `Storage` |
| Current database | `setup/dbcontext`, `internal/cli/context.go` | one file per project, one global file | `Resolve`, `Apply`, `ClearDatabase`, `use`, `cd`, `pwd` | `Contexts` |
| Configuration and consent | `setup/config.go`, `telemetry.go`, `internal/telemetry/consent.go` | `config.yaml`, its backup | set, consent, salvage of an unreadable file | `Settings` |
| Anonymous telemetry | `internal/telemetry`, `web/src/usage.ts`, the usage question of `internal/tui` | pending events, queue, the page's buffer | record, flush, send, Turn on, No thanks | `Telemetry` |
| Sessions and login links | `internal/localserver/sessions.go`, `logins.go`, `login.go` | `sessions.json`, one-time links | create, consume, touch, remove, flush | `SignIn` |
| Request access, connect flow | `internal/localserver/middleware.go`, `server.go`, `connect.go` | sessions, tokens, codes, settings | the chain from host to route, consent, exchange, sign-out, revoke | `Access` |
| Client of the local server | `internal/client/client.go` | what it saw | look, start, stop, restart, call, write in the server's place | `Client` |
| Terminal interface | `internal/tui` | screen stack, busy, answers that wait | every key and every answer | `Screens` |
| Skills installer | `setup/skills`, the consent steps of its interfaces | files in agents' folders, journal | plan, confirm, install, recovery | `Skills` |
| TODO demo | `setup/demo`, `demostatus.go` | folder, lists, record | install, undo, status | `Demo` |
| Data commands | `internal/cli/data.go`, `internal/client/data.go` | none between calls | `list`, `get`, `set`, `set --field`, `add`, `delete` | `Data` |
| Paths in a database | `internal/datapath` | none | resolve, write, keys | `Paths` |
| Legacy server | `serve.go`, `main.go` | mounted databases, handlers | mount, serve, shut down, drain, clean up, exit | `Serve` |
| Cloud sign-in | `cloud.go` | the credential in the keyring or a file | `login`, `logout`, `status`, `databases` | `Cloud` |
| Publisher check: repositories | `internal/publisher/repo`, `checkcmd` | pinned commits, findings | discover, judge, verify, report | `PublisherCheck` |
| Data rights | `repo/data_rights.go`, `internal/publisher/datarights` | declarations, pinned files | nearest terms, provenance, proof | `Rights` |
| Publisher rules: host labels | `internal/publisher/rules/punycode.go` | none | decode, check | `Punycode` |
| Publisher's own graphs | `internal/publisher/manifest/chains.go` | none | judge chains of concepts | `Chains` |
| Explorer and tokens, command line, other old commands, installer, representation and sources, web console, paths and redaction, repository tools | see `PROJECT.json` | little | parsing, rendering, downloading | none (see "Not modelled") |

How they interact: a command looks for the server through `server.json` and the
instance secret (`Inspect`), then calls it over HTTP. In the server, handlers run
concurrently and share the registry (under `r.mu`), the sessions, the contexts
(under `contextMu`) and `config.yaml` (under nothing). The registry drives the
openvaultdb-go server (`Mount`, `UnmountContext`), and a removal clears contexts.
Only the holder of `home.lock` owns the home's files; a command that finds no
server takes both locks to write. The terminal interface and the console keep
what they were shown and act on it later.

What is hard here: processes race for the home, crash between two steps and have
their pids reused; files are read one after the other while they change; a mount
outlives its deadline, its request or the registry itself; requests outlive the
shutdown; answers come after the person went elsewhere; consent is read before it
is used; a demo, a create or a login fails half-way and is undone; people edit
manifests, folders and settings by hand.

What makes each part correct:

* lifecycle - one writer, one server, files that belong to the owner, commands
  that believe only the owner, stops that leave nothing, every command bounded;
* registry - what is listed as mounted is served and the other way round, nothing
  is left open, ids and storages are registered once, everything settles that no
  hung storage holds up; what fails leaves people's files as they were;
* contexts - none names a database that was removed, a project's context stays in
  the project, a removal takes away no other choice;
* settings and telemetry - a decision lasts, nothing is sent that was not agreed to;
* sessions and access - a link signs in once, an ended session never comes back,
  another site does nothing with the console's cookie, tokens come from consent;
* screens - one operation at a time, and never keys that wait for nothing;
* skills and demo - writes only where a person agreed, no note is deleted, what
  counts as installed is there;
* client and data commands - what was told is what happened, and at this home;
* legacy server and cloud - no database closes under a request, no token is lost;
* publisher check - a repository found in order is in order, at the commit told.

## How the project is laid out

Each component is one module, with its state, one action per handler or step, a
type invariant and its properties. `HomeOwner` is an abstract specification;
`LifecycleRefinement` is the mapping. Composition follows the code: the client's
start, stop and write and the server's life are one module because they share
locks and files; removal and contexts are one module because removal clears them;
people's choices and the recorders of three processes are one module; access and
the connect flow share sessions and tokens.

TLC starts once per run, and most modules are small, so four MC modules each hold
several of them. A variable chosen in the initial state says which one moves, the
rest stand still in one initial state, and each property is about its own part:

* `MCRegistry` - `instance`: six instances of `Registry` (`all`, `early`, `once`,
  `serial`, `closing`, `names`), each with what the others leave out;
* `MCSignIn` - `part`: `SignIn` and `Access`;
* `MCHome` - `part`: `Contexts`, `Settings`, `Telemetry`, `Storage`;
* `MCConsole` - `part`: `Screens`, `Skills`, `Demo`, `Data`, `Paths`, `Serve`,
  `Cloud`, `PublisherCheck`, `Client`, `Rights`, `Punycode` and `Chains`.

The theorems are in modules of their own. `LifecycleProofs` and `RegistryProofs`
extend their component, the others the MC module of their run:

* `MCRegistryProofs` - the instances of `MCRegistry`, from `RegistryProofs`, of which
  three of them are instances;
* `SignInProofs` - `SignIn` and `Access`;
* `ChoicesProofs` - `Telemetry`, `Settings` and `Contexts`; `HomeProofs`, which extends
  it, `Storage` and the home as a whole;
* `CommandProofs` - `Serve`, `Cloud`, `Data`, `Client`, `PublisherCheck` and `Rights`;
  `ConsoleProofs`, which extends it, `Screens`, `Skills`, `Demo`, `Chains` and all of
  `MCConsole`.

There a theorem about a component (`X!Spec`) is followed by one about the very
specification and property that TLC checks. The constants are as general as in the
component. Recursion is by recursive functions only. What a proof assumes of the
constants is a named operator of the component (`TelemetryAssumption`) or an ASSUME;
TLC evaluates all of them in the runs.

The order was: lifecycle and its proofs, sign-in and its proofs, registry; then
what shares the home (contexts, settings, telemetry, storage, access); then what
people start (client, data commands, screens, skills, demo, serve with its proof,
cloud); then the publisher check; then the proofs about access, settings, the
registry, telemetry, contexts, storage, screens and cloud; then those about skills,
the demo, data commands, the client, the publisher check, rights and chains, and the
types of `console`. Every safety property of the runs now has its theorem but two of
`registry` (see "What is only model-checked").

## The runs

| run | checks | bounds |
|---|---|---|
| `lifecycle` | one writer, whose files, serial starts, whom commands believe and signal, stops, failed starts | 2 commands, 2 servers, 2 pids, 1 port; other programs have one of these at a time |
| `lifecycle_ports` | no second listener, `IInv`, the refinement | 1 command, 2 servers with a pid each, 2 ports |
| `lifecycle_live` | commands end; stopping ends when requests do | 2 commands, 1 server, requests that never end |
| `registry` | mounted is served, registered once, served is recorded, removal, closing | 1 database with requests of every kind, 2 at a time, or 2 databases with fewer; up to 3 requests and 1 edit by hand |
| `registry_live` | types, nothing leaks, requests end and mounting ends while no storage hangs under the lock | 1 database, 2 requests of 2 clients that may leave, 1 manifest added by hand, storage that may never answer, requests that outlive the shutdown |
| `registry_forgets`, `registry_race` | findings, below | 2 edits; 2 reloads |
| `signin` | links, sign-outs, lifetimes, edits of the file; who may call what, where tokens come from | 2 browsers, links and sessions, 4 ticks; 1 app, 1 token |
| `home` | contexts, decisions, consent, files | below, by module |
| `contexts_race`, `settings_race` | findings, below | 2 commands; 3 changes by 2 clients |
| `console` | screens, installs, what commands say, what they leave | below, by module |

Each `.cfg` names its bounds. Deadlock is not checked: every instance is bounded,
and what it models may stop for good (a server that was stopped, nobody who asks).

## Lifecycle

A *server* is one process incarnation: `unborn`, then through `Run`
(`waitHome`, `clear`, `secret`, `listen`, `publish`, `serving`, `draining`,
`release`, `unlock`, `leaving`), then `exited`. A *client* is a process that runs
commands: `start`, `stop` or a configuration write, with the step of the command
in `step` and its outcome there when it is idle. A record or secret on disk is
the server that wrote it. `Inspect` is three steps (`ReadRecord`, `ReadSecret`,
`Probe`), because everything can change between them. A process can crash at any
step; the system drops its locks and ports and leaves its files; its pid may go
to another server or to a program that is not OVDB's; other programs take ports.

`HomeOwner` is what the rest of OVDB relies on: one owner, only it writes, only
it is announced, commands believe in an announced owner. `LifecycleRefinement`
maps the lock to ownership, the record of the lock's holder to the announcement
and the last confirmed `Inspect` to belief; `ImplementsHomeOwner` is checked and
proved.

Runs: `lifecycle` has two commands and two servers on one port with two pids (a
pid is used again by a server that was started later, or by a program that is not
OVDB's). Other programs hold one pid that a file still names, or the port, at a
time (`FewForeigners`): a pid that no file names is looked at by nobody, and a
command that meets a stranger's port and pid at once takes the same branches.
`lifecycle_ports` has one command, and two servers with a pid each on two ports,
where servers could listen side by side: the second one is started in the
foreground. Two of each is what every race in the code needs: a start against a
start, a stop against a start, a stop's cleanup against a new server, a write
against a start. A command is used again as often as it likes, a server once.
`lifecycle_live` has two commands and one server, because a liveness run cannot
use symmetry; the waits it is about (for a lock, for a child, for an exit) need no
second server.

Fairness: a command that is not killed keeps going and its timers fire, and so does
a server, with one exception: a draining server goes on only while no request runs.
`Server.Shutdown` gives up after five seconds, but `handler.Close()` after it takes
`Registry.mu` (`run.go:115`, `databases.go:369`), which a request may hold for as long
as its storage hangs. No request is promised to end, nor does anybody have to start
or stop anything. `StoppingEnds` therefore says of a draining server that it exits if
requests do not run forever, and of one that is past `Close`, or whose listening
failed, that it exits whatever runs. `CommandsEnd` needs no such condition: a stop
whose server hangs ends it, or gives up.

### What is proved

`LifecycleProofs`, for any number of commands, servers, pids and ports:

* `Inductive`: `IInv` holds. It says where each command can be (`Control`), what
  it knows (`Knowledge`: a server read from disk had published, and stays so),
  that control states and locks agree (`LocksHeld`), that the files are the
  holder's (`FilesBelongToHolder`), what `server.json` can hold while a server
  comes up (`RecordFollows`), that ports and control states agree (`Listeners`)
  and, without slow handlers, that requests run in a server that has the lock
  (`RequestsRunInServer`). None of them is inductive alone: that files stay the
  holder's needs the locks to know that a stop clearing files excludes a server,
  and the locks need the control states to know who releases what.
* from it `TypeCorrect`, `FilesStay`, `OneWriter` (assuming that no request
  outlives the shutdown), `SerialStarts`, `OneListener`, and as action properties
  `InspectConfirms`, `StopSucceeds`, `SignalsTheRecorded` and
  `FailedStartsCleanUp`.

The proof takes one lemma per part of the invariant and kind of actor (a server's
step, a client's step), with a step per action; `EnvironmentStep` handles what
the system does. The only assumption is `ConstantsAssumption`: the sentinels are
none of the processes.

The same module proves `ImplementsTheHome`: when no request outlives
the shutdown, `Spec` implies `ImplementsHomeOwner`. Each step is split into what
it does to the home (`OwnerStep`: take, announce, withdraw, begin or end a write,
leave, or nothing) and to what commands believe (`ForgetStep`); only `Probe`
learns, and `InspectConfirms`'s argument shows that it learns of the announced
owner. `Quiet`, `Withdrawing`, `Taking`, `Leaving` and `Dying` are the ways in
which a step can touch the home, and every action is one of them.

Both liveness properties are model-checked only; liveness is out of this prover's
reach.

## Registry

State: the manifest, the mount record and the generation of each registry file,
what the openvaultdb-go server serves, how many databases `mount.File` opened and
nobody closed, and the mounts that outlived their deadline. The code keeps the
records in a slice sorted by id, whose order matters in one place: `ReloadAll`
ranges over it while it drops records (`ForgetGone`, over any slice sorted by id). Every
request is a goroutine with a program counter; its `mountOne` goroutines are in
`task`. `Boot` is the server's own goroutine: `MountAll`, then `Close`. One step
is what happens under one hold of `r.mu`, except where the code does under the lock
what may take forever: then the lock is taken in one step (`Create`, `ConnectPlans`,
`ConnectCommits`: the registry is read and decides), and let go in a later one
(`Refuse`, `Provision` with its `git init` and first mount, `ConnectPlanned`,
`ConnectRenames`), or by `Serve` after the disk was changed. `Waits` are these later
steps. Ids are numbers, and database n is registered in file n unless people edited
it. Reconnect differs from create in what it does to storage only, and is the same
actions. A request whose context ended drops its mounts in one step (`Abandons`); one
that settles all the same is one that settled before its context ended, as the end of
a context and a settling commute until `Close`.

Abstracted: why a mount fails (any may), what connect probes, letter case of
ids, and the files (all three are in `Storage`); `mounts.json` (written after
every change of the records, and read by nobody but commands that find no server).

The instances: `all` has three requests of every kind, two at a time, over one
database, for what is about one database, with clients that disconnect, edits and
requests that outlive the shutdown; `early` is the same with two requests that may
come before the boot has mounted everything; `once` relates two databases and
storages through creates, connects and removes that overlap; `serial` has one
request at a time, because the code breaks `ServedIsRecorded` with two (below);
`closing` lets reloads and removes outlive the shutdown, without creates for the
same reason; `names` renames databases in their manifests, so that ids repeat.

`registry_live` has every kind of request, once the boot has mounted everything.
`MountingEnds` excuses databases that stay `mounting` because a client left before
its answer (`used.left`; `mountEach` returns with the request's context, and
nobody settles what it started). Manifests are added there and not deleted: the
record of a manifest that was deleted while it was mounting stays until the next
`ReloadAll`.

Fairness: a goroutine that can run does (`Works`), a mount's settling and timer
happen, and so do the boot's mounting and the close. Storage promises nothing, nor do
clients: `os.Stat` before a mount (`Check`), `mount.File` (`Open`) and all that happens
to storage under the lock (`Waits`) may never end. So the two properties say on what
they rest. `LockIsReleased`: whoever looks at storage under `mu` lets go of it again.
`Answers(c, f)`: the look at f's storage before c mounts it ends. `RequestsEnd`
promises an answer to each request whose own storages answer, whatever mounts and
other requests do, and `MountingEnds` the end of `mounting` for each database whose
storage answers; both only under `LockIsReleased`. That the code does not guarantee
these conditions is told under "What the checks found".

### What is proved

`RegistryProofs`, for any numbers of databases, storages, clients and requests:

* `RegistryTypes` and `OpenedAreServed` (`NothingLeaks`), whatever people edit and
  whoever leaves. The inductive invariant is `RegistryInv`: the types, `PlaceInv`
  (what a goroutine at each program counter holds: its want, its list, its tasks,
  the lock), and `Counted`: the databases open are those served, those a mount
  opened and has not settled, and those a connect has staged. Every action
  moves one database from one of these sets to another, or closes it; the count in
  the code is a number, so the lemmas about it are about cardinalities.
* `RegistersOnce` (`RegisteredOnce`) and `MountedStaysServed` (`MountedIsServed`),
  when what people do by hand keeps the ids apart (`KeepsIds`: they only delete
  manifests, or there is one database): a person may well give two databases one id.
  The invariant is `HandsInv`: who was told under the lock that an id and a storage
  are available still holds it when they are registered (`Holds`), and they are free
  until then (`Free`); a file and whatever
  speaks of it (record, task, list, database served) name the id the file
  was created for (`OwnIds`), and at most one goroutine is about to unmount a
  database, which is then not recorded as mounted (`OneUnmounts`). Without the
  first, a mount could serve a database under an id another file's record has;
  without the second, an unmount could come after the next mount.

* `ServedStaysListed` (`ServedIsRecorded`), `RemovedGoesAway` (`RemovedIsNotServed`)
  and `ClosedIsEmpty` (`ClosedServesNothing`), under the same condition and as long
  as requests overlap neither each other nor `MountAll`. The hypothesis is
  `[]OneAtWork`, a condition on the behaviour and not on the number of clients;
  `SingleCaller` proves it of a single client that waits for the boot. It cannot be
  dropped: `registry_race` shows two reloads that break `ServedIsRecorded`. The
  shutdown may come at any moment, and with `SlowHandlers` requests outlive it, except
  in `RemovedGoesAway`, where `Close` drops the records before the removal looks for
  what to unmount. `ClosedIsEmpty` has no creates and connects: one that outlives the
  shutdown is served after `Close`. The invariant is `SerialInv`: a mount that will be
  settled is of a record that is not mounted (`Fresh`, and `Marked` before it starts),
  what is served is listed, or on the list of a goroutine about to unmount it
  (`Listed`, `TodoPlaced`).

`MCRegistryProofs` carries these over to the instances of the run: `MountedIsServedByAll`
(`AllMountedIsServed`), `OverlapsRegisterOnce` (`OnceRegisteredOnce`) and `ClosingEmpties`
(`ClosingServesNothing`), for any clients and storages. In `all` and `early` people edit
as they like, because there is one database; `InstancesAssumption` says that the
instances with one client have one, and that `None` is nothing else.

The constants' assumptions are `RegistryAssumption` (names are numbers, the boot is
no client) and `NoneAssumption`. The run allows more than these theorems in one
respect: in `serial`, with two databases, people also add one manifest by hand, of any
id. Liveness is model-checked only.

## What a home keeps: `home`

* `Contexts` - two processes, a command and a console session, resolve, use, clear
  and cd over four directories (home, a folder, a folder in it, a Git working tree),
  three ids of which two differ in case only, a place that is the root or a
  collection, and removals, which look at each file and unlink it in two steps.
  A file that cannot be read is the global one or one half-way up the directories.
  Four rungs of the ladder need all of these; two commands let one act on what the
  other changed.
* `Settings` - two commands and a session change two settings and the decision, in
  the server or under `home.lock`, with a file that cannot be read, one edit by
  hand, and processes that die. In the run the server takes one change at a time;
  side by side is `settings_race`.
* `Telemetry` - two events and the recorders of a command, the terminal interface
  and the server (one of which its environment forbids), with the page's buffer; a
  decision is read before the lock that uses it, and the page's first look at it may be
  answered late (a later look, of Settings, is answered at once: a bound on the states). Queues and buffers hold one, so
  they overflow. What waits and what is sent are sets, because an event happens
  once; only the server's queue of batches has an order.
* `Storage` - two names and two requests over a place, a link to it, a path that
  resolves through the link and OVDB's own home (`MCReal`, `MCAbsolute`). Every step
  may fail or be cut off by a crash; one event of somebody else (a file added, a
  folder emptied) comes at any time. The names and the requests are interchangeable (`Symmetry`).
  `StorageIsSafe` is stated as a step-wise invariant of that part.

### What is proved

`ChoicesProofs` has `Settings`, for any commands, sessions, settings and install ids, when the
server handles one change at a time (`~Concurrent`): `DecisionsStay`
(`DecisionsLast`), `DisabledTelemetryStays` (`DisabledStays`) and `UnreadableStays`
(`UnreadableIsKept`). Two requests at a time break the first two (`settings_race`).
The invariant `SettingsInv` says that one process at most is between its reading of
the file and its writing, and holds `home.lock` or works for the server that does
(`OneWriter`), that what it is about to write is the file as it is now, with its
change (`UpToDate`), and that the file, readable or not, says what was decided
(`Recorded`). `SettingsAssumption`: `None` and `Server` are no clients, sessions are.

It has `Telemetry`, for any events, install ids, bounds and forced-off processes:
`NothingIsSentEarly` (`NothingBeforeConsent`), `SentAsAgreed` (`SentByConsent`) and
`TelemetryTypes`, with the bounds of every buffer and of the queue. The heart of the
invariant is `EventInv(e)`: an event is in one place - recorded or kept by the
terminal, in the page's buffer, or on its way (`Leaves`: posted, recorded by a
process that may send, in a batch) - and what is on its way is `Safe`: recorded
after somebody agreed, or released and not refused since. That it is in one place
is what makes a later refusal harmless: No thanks marks what the terminal holds,
and none of that is on its way. A step that leaves an event where it was `Keeps` it,
and only the steps that move it have an argument of their own. The buffered mark is
what `TakeAll`, the mutation, ignores. `IdsInv` carries ids from the decision that
was read, over the batch, to what was sent; `BoundsInv` needs that the terminal
records one event at a time. `TelemetryAssumption` says that the bounds are naturals
and `None` is none of the values.

And it has `Contexts`, for any directories, Git trees, ids, places, commands and sessions.

* A removal: `RemovalForgets` and `HomeForgets` (`RemovedIsForgotten`), when nothing
  overlaps a removal (`~Overlap`; `contexts_race` shows that it is needed) and
  unlinks do not fail (`~Failing`: a failure is only logged); and `RemovalSpares`
  (`ChoicesLast`), when nothing overlaps it. The invariant has `SerialInv` (ids differ
  by more than case, a command and a removal exclude each other, what a command is
  about to store is registered), `RemovingInv` (no id like the removed one is
  registered, and the file about to be unlinked names it) and `LeftInv`: a context of
  a database that is gone is among the files the removal has still to look at.
* The ladder: `ProjectsKeep` and `HomeProjects` (`ContextsStayInProjects`), whatever
  overlaps and fails. `ContextsAssumption` says that going up from any directory ends
  at a root, as a statement about sets of directories. From it `ClimbsEnd` shows that
  a function defined along the way up exists, so that `Dirs` and `Ancestors` are what
  their recursive definitions say (`DirsAre`, `AncestorsAre`); `DirsClimb` relates
  them (the directories of a project are the ancestors in the same Git tree, nearest
  first), `ResolveIs` says what the ladder finds, and `NearestWins` is the property.
  That no project context is too broad (`ProjectsAreNarrow`) is what `Apply` refuses.
* Moving: `CdMovesOn` (`CdMoves`). Besides the two conditions of a removal it needs
  `OneCommand`: `cd` resolves, lists and stores in three steps without a lock over
  them, so a second command could give a nearer directory a context of its own
  between them. Console sessions, of which there may be any number, store the global
  default only (`SessionsInv`). `MovingInv` carries what `cd` resolved up to where it
  is stored: the database is still registered and listed, and no directory nearer
  than the one it will store for has a context (`Nearest`). `ResolveIsNext` then says
  what the ladder finds after the step.

`HomeProofs`, for any names, spellings of paths, places and requests: `StorageStaysSafe`
(`StorageIsSafe`), as long as no two requests work for one name and none looks at
what another makes (`~Meets`, without which it does not hold). `StorageInv` says what
each request holds at each step (`JobsInv`), that a name has one request and the lock
one holder (`WorkInv`), that a name and a place that are being registered are free
(`FreeInv`), that only the place being made differs from what people know, and how
(`ThingsInv`, which is what an undo relies on), that what a connect looked at stays
so (`FoundInv`), that registered places are whole, outside OVDB's home and apart
(`RegistryInv`), and whose the catalogue of each name is (`CatalogueInv`).
`StorageAssumption`: a full path is its own, and `None` is none of the values.
`FilesKept` and `HomeTypes` put the home together: `FilesAreKept` and `HomeTypeOK`,
as the run has them.

## What people work with: `console`

* `Screens` - the one model of `internal/tui` as the stack of screens, `busy` and
  the answers that wait. Every key of every screen and every answer is an action;
  at most two answers wait and two screens are stacked. Menus are the screens
  which people use together.
* `Skills` - two agents, with a copy or not where they were found, and a named
  folder inside one of them, five interfaces
  with a request each (the command and the console of today, a console from before
  adoption, and the command and console of v0.22.0 to v0.28.x, whose yes to taking
  over is the one flag `adopt`), one change by others between any two steps, also
  between the look at an edited copy and its removal (`Begin`, `Removes`), a server
  that dies while it writes; a journal makes an interrupted write recoverable.
* `Demo` - the default id and another, folders that people use, crashes, every
  step of the install and of its undo failing.
* `Data` - two commands in two processes, over records that may be there before;
  between two calls of a command other commands run, databases are removed and
  added, and answers are lost; pages up to the longest offset of DTQL (`MaxOffset`, 1
  here and 10000 in the code) and beyond it.
* `Paths` - every text of at most four characters, slashes, dots, escapes and
  control characters included, typed at a place at most one id deep.
* `Serve` - two databases and three requests, a first and a second signal (one that
  comes before the listener starts is swallowed), a listener that fails, handlers that ignore cancellation.
* `Cloud` - two processes and two tokens, a store that cannot be read, written or
  cleared, a cloud that is unreachable, processes that are killed; a catalogue of
  pages that may go round in a circle, any of which may fail.
* `Client` - one command of every kind and two servers of this home or another,
  of this version or another, on two ports, and strangers on them.
* `PublisherCheck` - two commits, HEAD that moves once, two views of git's objects
  that differ in one commit, lists of manifests with and without an attachment, one
  of them longer than is judged.
* `Rights` - one manifest with every mixture of declarations at three scopes, read
  file by file, with any file missing, changed or in another repository.
* `Punycode` - every label of at most five letters, digits and accents: each
  decodes to what the encoder of RFC 3492 gives back, or is refused. The overflow
  limit (2^40 in the code) is out of reach of these lengths.
* `Chains` - every graph of three concepts with a longest chain of two; only one
  concept takes values from another, which is the case of the code with a lookup
  of its own.

One invariant of a run often gathers several of these parts (`DataIsTold` in
`MCConsole` is the sum of seven); the parts are named definitions of their modules.

## Signing in and access

State: login codes in memory (when each expires), sessions in memory and in
`sessions.json`, what the store knows about the file (`loadedMod`: how the file's
modification time compares with the one it remembers), the operation that holds
the store's mutex while it writes (`job`), and by browser the code its `POST
/login` has consumed and the cookie it has. `started`, `signedOut` and `removed`
are history. Consuming a code and starting a session are two steps, as they take
two locks; writing the file and looking at it afterwards are two steps, because
people can edit in between. A crash loses the codes, the sessions in memory and
the write under way.

Abstracted: hashes and cookie values (names), where to go after signing in,
cookie attributes and expiry, files that cannot be read.

`signin` has two browsers, codes and sessions: one of each to be the other's
disturbance. Lifetimes of 1, 2 and 3 and a write interval of 2 within four units
of time let each session expire, be renewed without a write, be renewed with one,
and outlive the other kind. One edit by hand is enough to differ from what the
store remembers. There is no liveness to state: every request runs to its end
under one mutex.

`Access` is in the same run: every kind of request (method, site it comes from,
credential, host, endpoint) is authenticated in one step and served in another,
with sign-outs, revocations, new settings and restarts between them. One app, one
request in progress and one token are enough, because requests do not see each
other except through the settings, sessions and tokens that others change.

### What is proved

`SignInProofs` proves all six properties of the run, for any number of browsers,
codes and sessions and any lifetimes, from the inductive invariant `SignInInv`:

* `CodesSpent`: a code is to be posted, in one browser that signs in, or spent;
  without the second, two sessions could start from one code;
* `Promises`: whatever is in memory or in the file was promised at least that
  long, so that reading the file back at any moment gives no time away;
* `StoreState`: what the store remembers of the file agrees with the file;
* `OutOfMemoryAndFile`: signed-out sessions are dead in both places, and memory
  covers what the file would bring back, except for the one being removed. This
  needs that writes of a sign-out succeed (`"remove" \notin Fails`);
* `RemovedFromFile`: a session taken out by hand is not in the file, and in
  memory only while the next request will read the file again. This needs that
  people edit between requests (`~EditsDuringWrites`);
* `Kept`: until a crash, a failed write or an edit, whoever is signed in has
  exactly the promised time in memory, and in the file when nothing is pending.

The lemmas `ReloadedCovers`, `ReloadedForgets` and `ReloadedKeeps` say what a
request finds after `reload`, the theorems follow from them, and each part of the
invariant has one lemma with a step per action. The assumptions are that
lifetimes and bounds are naturals and that `None` is none of the values.

The same module has `Access`, for any apps and numbers of tokens and codes: `TokensFromConsent`
(`TokensComeFromConsent`) and `TableIsKept` (`CallersKeepToTheTable`). The invariant
`AccessInv` says that each code and token was agreed to, by the owner's command or
in the console, and gives no server-level capability in the second case; that the
request in progress was authenticated as something its caller can have (`Authenticated`:
a browser has no instance secret, a tool no session); and that what was done for
the last one is in the table. `AccessAssumption`: `None` is no endpoint.

## What is proved of what people work with

### The commands: `CommandProofs`

`ServeSafe`, for any databases and any number of requests: no database closes under
a request that runs, the cleanup runs at most once, and neither the answer of the
drain nor the process's end leaves anything open. The inductive invariant is
`ServeInv` of `Serve` (the run checks `ServeIsSafe`, which follows from it): it says
who may begin the cleanup and that by then no handler is active, and when a cleanup
is pending that some handler is still to leave, which is the one that will do it.
One lemma per kind of step (`StepOfMain`, `StepOfCleanup`, `StepOfDatabase`,
`StepOfRequest`). There is no assumption on the constants.

`CloudKept` (`CloudIsKept`), for any processes, tokens, stores and pages, when no two
commands change one store at once (`~Overlap`, without which a token is lost): a token
that the cloud accepts is kept in a store, in the hands of a login or logout, or was
told to the person. `CloudInv` follows one command at a time: what a login knows of
the token before it and of its own (`LoginInv`), that a logout deletes what it revoked
(`LogoutInv`), that a new token is nobody else's (`FreshInv`), that a token is in one
store (`UniqueInv`), and `KnownInv`, the property; `PagesInv` is that a catalogue read
page by page meets none twice. `DataToldTruly` (`DataIsTold` of `Data`), for any processes, records and commands.
`DataInv` says that a command under way has noted what is true of its record now
(`NowNoted`), and that what one that ended was told (`Told`) was true while it ran. Answers
may be lost; of a command that was told nothing it says nothing. The pages need that
`Present`, a finite set of numbers, has an n-th element for every n up to its
cardinality.

`ChangesDoneOnce` and `ClientKeeps`, for any homes, versions and ports. The first is
for any number of commands at once: a change is done at most once, by this home's
server or in its files, and one that was refused was not done. The second is
`ClientKeepsToItsServer`, for one command at a time and no server that comes up
between a stop's look and its stop (`OneTerminal`; `Takeover` shows that it is needed):
a start next to another's stop may well find nothing.

`CheckSound` (`CheckIsSound`), for lists of manifests of any length and kind, in any
two views. `CheckInv` says that a call of git that failed is remembered (`Remembered`),
that every pass reads the commit its view is bound to and that is told (`Bound`), what a
discovery that found nothing says of the original objects (`Discovered`), and that
without a finding the entries before the one at hand are judged, each descriptor with
its manifest (`JudgedSoFar`), at the end all of them (`AllJudged`).

`RightsProved` (`RightsAreProved`), for any terms, recordsets and servers. `RightsInv`
says for each file that is due what has been compared, inherited and pinned by then;
`Evidence` is what may be shown at the end.

### Screens, installers and the whole: `ConsoleProofs`

`KeysReturn` (`KeysWaitForOne`), for any menus, databases and answers, and any
number of answers that wait: keys are held only while an operation is under way,
whose answer waits and will free them, and there is only one such operation. The
invariant is `WaitingInv`; `KeyEffect` says once what a key may do to
the commands under way, and one lemma per screen shows that its keys do no more. It is
stated for menus without Connect, where it is false (see below); `MenusAssumption` says
that a menu with the remedy which opens Connect has Connect.

`SkillsFolders` and `SkillsAsAgreed` (`OnlyAsAgreed`), for any agents, folders,
interfaces and requests at a time. `SkillsInv` says that a request which was sent holds
what its person saw and said yes to (`AsAgreed`). From it follows, whoever edits
meanwhile, that the server writes to no other folder, and takes over none that was
not shown as already there and agreed to - or, for a client that sends `adopt`, none
unless its person said yes to taking over (`TakesOver`); that a copy the person edited is
replaced only with their consent needs besides that none is edited while one is
offered and that clients which may be busy together are one (`OneAtATime`), which is
what `ReplaceInv` carries.

`DemoStaysWhole` (`DemoIsWhole`), for any ids and folders, over crashes and failures of
every step, when people neither delete a demo's folder nor write into it before the
install answered (`~Deletes`, `~Eager`; both are needed).

`ChainsJudged` (`ChainsAreJudged`), for files of any number of concepts and a longest
chain of any length: `lineage`, which walks a chain with a set of what it has seen, finds
a problem exactly where the chain comes back, breaks or is too long. Both sides are
recursive. `AllNaturals`, induction over the numbers as a statement about a set of them,
follows from the library's `WFMin`; with it `WithinExists` shows that the concepts
reached in n steps are a function, `AncestorsAre` and `AncestorsClimb` that those of a
concept are the next one and those of the next one, and `LineageEnds`, by what is not
seen yet, that the walk ends and says what `Good` says of the rest of the chain
(`GoodGoesOn` is one step of it). What is left is that the file is judged one concept
after the other (`ChainsInv`).

`InstallsKeepToIt` (`InstallsAsAgreed`), `NothingStays` (`NothingIsLeft`), `CommandsTell`
(`DataIsTold`) and `ConsoleTyped` (`ConsoleTypeOK`) put the parts together as the run has
them. The last two leave out what is folded from texts: `CommandsTell` the parts `paths`
and `names`, `ConsoleTyped` the part `paths`. `ScreensTypes` and its
like are the types; that no screen stacks beyond `Depth` and no page beyond `MaxPage` is
among them.

## What is only model-checked

* `SerialServedIsRecorded` and `SerialRemovedIsNotServed` as the run has them, where
  people also add a manifest by hand. With more than one edit they do not hold: a
  manifest that is deleted and added with another id is one that was renamed (see
  `"rename"` below). For every number of edits that keep the ids apart they are
  `ServedStaysListed` and `RemovedGoesAway`.
* The parts `paths` and `names` of `DataIsTold` and the type of `paths`: `Paths` and
  `Punycode` fold texts with `FoldLeft`, whose definition the prover does not unfold
  soundly (a local recursive function with a LET in its body), and which is therefore
  expanded in no proof.
* Liveness (`CommandsEnd`, `StoppingEnds`, `RequestsEnd`, `MountingEnds`), which is
  out of this prover's reach.

What a recursive function computes is within reach where its equations say enough (the
ladder of `Contexts`) or where it counts down to zero (`Chains`).

In `signin`, `home` and `console` the properties TLC checks are defined in the MC
module, where they say which part they are about. The theorem that names such a
property follows from one about the component, and from a lemma that the part moves
by the component's steps and no other (`HomeRunsContexts`).

What the proofs assume of the constants:

| module | assumption |
|---|---|
| `Lifecycle` | the sentinels are no processes; for `OneWriter` and the refinement, `~SlowHandlers` |
| `SignIn` | lifetimes and bounds are naturals, `None` is none of the values; for `SignOutLasts`, writes of a sign-out succeed; for `RemovalLasts`, edits come between requests |
| `Access` | `None` is no endpoint, `MaxTokens` is a natural |
| `Registry` | names are numbers, `Boot` and `None` are none of the values; for the last five theorems, edits by hand keep the ids apart (`KeepsIds`); for the last three, requests do not overlap; for `RemovedGoesAway`, `~SlowHandlers`; for `ClosedIsEmpty`, no creates and connects |
| `Settings` | `None` and `Server` are no clients, the bounds are naturals; the server handles one change at a time |
| `Telemetry` | the bounds are naturals, `None` is none of the values |
| `Contexts` | there are finitely many directories and going up ends at a root, ids fold to ids, the sentinels are none of the values; no command overlaps a removal, except for the types and the ladder; for `HomeForgets` and `CdMovesOn`, unlinks do not fail; for `CdMovesOn`, one command at a time |
| `Storage` | a full path is its own, the sentinels are none of the values; requests do not meet |
| `MCRegistry` | the instances with one client have one, `None` is none of their values |
| `Screens` | a menu with the remedy that opens Connect has Connect; finitely many databases, the bounds are naturals and one answer may wait |
| `Skills` | the agent that skills are for when none is found is an agent; for `SkillsAsAgreed`, no copy is edited while one is offered, one client is busy at a time (`OneAtATime`) |
| `Demo` | nobody deletes a demo's folder or writes into it before the answer |
| `Data`, `Rights`, `PublisherCheck`, `Client` | `None` is none of the values, the bounds are naturals; servers are finite in number, the default port is a port; for `ClientKeeps`, `OneTerminal` |
| `Serve` | none |
| `Chains` | the concepts of a file are finite in number, the longest chain is a natural |
| `Cloud` | the sentinels are none of the values; one command at a time changes a store |

The bounds on requests, edits and tokens are constants of the modules, so the
theorems hold for every bound.

## What the checks found

Four disagreements are runs of their own:

* `registry_forgets`: `ReloadAll` deletes from the slice it ranges over; of two
  manifests deleted by hand the second record stays.
* `registry_race`: two reloads of one database can both mount for the newer
  generation; the loser overwrites the winner's record with `needs_attention`
  while the database is served.
* `contexts_race`: a use that listed the databases before a removal stores a
  context for the database that was just removed.
* `settings_race`: a change of a setting that read `config.yaml` before telemetry
  was disabled writes it back enabled, with its install id.

The others are kept out of the passing runs by a constant, or by a condition that
the property states. Setting the one or leaving out the other as below makes TLC
show them; the `.cfg` files otherwise stay as they are, and an instance
of an MC module is edited there:

| change | violated | why |
|---|---|---|
| `SlowHandlers = TRUE` in `MCLifecycle.cfg` | `SingleWriter` | `Server.Shutdown` gives up after five seconds and `Run` releases `home.lock` while a handler may still write the home, next to a new server |
| `StoppingEnds` without `[]<>(s \notin writing)` | `StoppingEnds` | a request that hangs under `Registry.mu` (below) keeps `Registry.Close` waiting (`run.go:115`, `databases.go:369`), so the server never exits, although `localserver/server.go:109-112` says that no storage can keep the server from starting or stopping |
| `RequestsEnd` or `MountingEnds` without `LockIsReleased` | the same | a create or reconnect runs `git init` and `mount.FileWithOptions` under `Registry.mu` without a deadline (`databases.go:751`, `778`, `836`), and every check of locations follows links there (`databases.go:595-609`); storage that hangs there stops all requests, settlings and deadlines, although `databases.go:51-53` and `connect.go:280-284` say that a storage that hangs stops nobody else |
| the same without `Answers` | the same | `os.Stat` of a database's storage before its mount has no deadline either (`databases.go:229-230`): its request waits, and it stays `mounting` |
| `MountingEnds` without `\/ used.left` | `MountingEnds` | a client that disconnects during a reload leaves its database `mounting` until somebody reloads it |
| `"delete"` in `Edits` of `RegistryLive.cfg` | `MountingEnds` | the record of a manifest that is deleted while it mounts stays `mounting` until the next `ReloadAll` |
| `"rename"` in `Edits` of `Serial` in `MCRegistry` | `SerialRemovedIsNotServed` | `Remove` unmounts the id the manifest has now, not the one it was mounted under |
| `"create"` in `Requests` of `Closing` in `MCRegistry` | `ClosingServesNothing` | a create that outlives the shutdown is served after `Close` |
| `"remove"` in `Fails` of `MCSignIn.cfg` | `SignedOutStaysOut` | a sign-out whose write fails is forgotten in memory only; the retry finds no session and answers success, and after a restart the session is back |
| `EditsDuringWrites = TRUE` in `MCSignIn.cfg` | `RemovedByHandStaysOut` | an edit between the rename and the `Stat` after it is taken for the server's own write, and the next write undoes it |
| `Overlap = TRUE` in `MCHome.cfg` | `FilesAreKept` (`ChoicesLast`) | a removal looks at a context file and unlinks it without the writers' lock, and takes a newer choice with it |
| `Meets = TRUE` in `MCHome.cfg` | `FilesAreKept` (`StorageIsSafe`) | connect looks at and mounts a folder without `Registry.mu`, so it may register one a failing create undoes; two requests of one name delete each other's catalogue |
| `Late = TRUE` in `MCConsole.cfg` | `InstallsAsAgreed` (`OnlyAsAgreed`) | `replace_changed` is one flag for all targets: a copy edited after the consent step is replaced too |
| `TakesOver` without its second part | `InstallsAsAgreed` (`OnlyAsAgreed`) | the request field `adopt` of clients of v0.22.0 to v0.28.x is a yes for every target (`skills.go:504-511`, `539`): a folder that became adoptable after the list was shown is taken over; the newer fields name the folders (`skills.go:512-515`) |
| `Deletes = TRUE` or `Eager = TRUE` in `MCConsole.cfg` | `InstallsAsAgreed` (`DemoIsWhole`) | a demo's folder deleted by hand and created again passes for the demo; a note written before the install answered is undone with it |
| `Overlap = TRUE` in `MCConsole.cfg` | `NothingIsLeft` (`CloudIsKept`) | two logins, or a login and a logout, of one store at the same time lose a token |
| `Takeover = TRUE` in `MCConsole.cfg` | `DataIsTold` (`ClientKeepsToItsServer`) | a stop compares the server it looked at and then stops whichever runs |

`KeysWaitForOne` is stated without the Connect screen: the answer with Connect's
engines clears `busy` whatever operation is under way (`tui/connect.go:101`), so
two can run at once.

Other things met while modelling that no property covers: a catalogue that a crash
leaves is removed by no sweep; a manifest that cannot be parsed is not compared
for overlapping locations (`registry.go`); the browse screen compares only the path
of an answer and so may show another database's page (`tui/browse.go:196`); a late
list of databases moves the selection under an open confirmation; the skills
installer returns at the first failed target although a comment says every
target is attempted (`skills.go:800-818`); a second `add` without `--id` after a lost
answer makes a second record; batches that were decided on before a disable are
sent after it (`sender.go:200`); `Start` takes a running server with its child's
pid for the child (`lifecycle.go:180`); a hung server of another home is ended
without a comparison (`client.go:154-157`); answers that are lost or cut off are
reported as `server_not_running` or an internal error, though the change may have
been made.

## External behaviour assumed

`server.Mount` refuses an id that is served (which `settle`'s handling of its
error expects); `UnmountContext` stops serving at once and closes the database
when its last request ends. `daemonlifecycle` tells two processes with one pid
apart. File locks are dropped by the system when their holder dies. A file
written by `WriteFilePrivate` is seen whole. `skillsync` writes one folder under
its own lock, with a journal. openvaultdb-go keeps codes and tokens as the server
asks of it. The license library resolves inherited terms to one answer. The
keyring and the cloud may fail at any call, and a call that fails changed nothing
except where its answer may be lost. Git's objects do not change; what its
replacements show, and what HEAD is, may.

## Not modelled

* Data explorer and tokens: the first is read-only, with a server process of
  datatug's; a token command is one call of openvaultdb-go's store.
* The command line: parsing of flags and rendering of documents. What the commands
  change is in the modules of what they change.
* The older commands for databases and providers: arguments for openvaultdb-go.
* Installer and self-update: downloads around one rename.
* Representation, sources, manifests and models of publishers, and the rules of
  names other than host labels: the fields of one document judged one after
  another; what comes out is a step of `PublisherCheck`.
* The web console's pages: presentation over the interface whose server side is
  modelled; what pages keep where it decides something is in `Telemetry` and
  `SignIn`.
* Paths on disk, envelopes, redaction, file permissions, log rotation, wording,
  and the tools that check the repository itself.

------------------------------ MODULE Lifecycle ------------------------------
(***************************************************************************)
(* The runtime directory of one OVDB home and the processes that compete   *)
(* for it: servers (internal/localserver/run.go) and the CLI or TUI        *)
(* processes that start them, stop them, or write the configuration while  *)
(* none runs (internal/runtime, internal/client).                          *)
(*                                                                         *)
(* A Server is one process incarnation, used once; its identity (the       *)
(* operating system's, recorded as process_identity) is therefore itself,  *)
(* while its pid may be given to another process once it is gone.  A       *)
(* record or a secret on disk is represented by the server that wrote it.  *)
(***************************************************************************)
EXTENDS Naturals, FiniteSets

CONSTANTS
    Client,        \* processes running a command (ovdb server start, ...)
    Server,        \* server process incarnations
    Pid,           \* process ids, reused by the operating system
    Port,          \* loopback ports
    PortChoice,    \* what starts may ask for: a port, explicitly chosen or not
    None,          \* nobody, no file
    Foreign,       \* a program that is not OVDB, listening on a port
    Corrupt,       \* a server.json that cannot be read
    SlowHandlers   \* whether a request may outlive the 5s of Server.Shutdown

ASSUME ConstantsAssumption ==
    /\ Client \cap Server = {}
    /\ {None, Foreign, Corrupt} \cap (Client \cup Server) = {}
    /\ None # Foreign /\ None # Corrupt
    /\ None \notin Pid /\ None \notin Port
    /\ PortChoice \subseteq [port : Port, explicit : BOOLEAN]
    /\ SlowHandlers \in BOOLEAN

VARIABLES
    spc,           \* where each server process is in Run
    pid,           \* the pid each server was given
    portOf,        \* the port each server was told to listen on
    writing,       \* servers with a request in progress that writes the home
    bound,         \* who listens on each port
    alien,         \* pids taken by processes that are not OVDB's
    record,        \* server.json
    secret,        \* the instance secret file
    homeLock,      \* holder of home.lock
    startLock,     \* holder of start.lock
    op,            \* the command each client runs
    step,          \* where it is in that command; its outcome when idle
    want,          \* the port of the command, and whether it was explicit
    child,         \* the server a start has spawned
    seen           \* what the last Inspect read, and whether whoami agreed

serverVars == <<spc, pid, portOf, writing, bound>>
fileVars   == <<record, secret>>
clientVars == <<op, step, want, child, seen>>
vars == <<serverVars, alien, fileVars, homeLock, startLock, clientVars>>

ServerPc == {"unborn", "waitHome", "clear", "secret", "listen", "publish",
             "serving", "draining", "release", "unlock", "leaving", "exited"}

\* Between TakeHome and Unlock a server holds home.lock.
HoldingPc == {"clear", "secret", "listen", "publish", "serving", "draining",
              "release", "unlock"}
ListeningPc == {"publish", "serving"}

Op == {"idle", "start", "busyStart", "await", "stop", "write", "rewrite"}
\* Every error a command returns is "failed", except Stop's refusal to touch
\* a process it cannot identify.
Outcome == {"none", "started", "already", "failed", "stopped", "notRunning",
            "unconfirmed", "done"}
Step == Outcome \cup
        {"lock", "record", "secret", "probe", "decide", "port", "spawn",
         "shutdown", "identify", "terminate", "waitGone", "clearStart",
         "clearHome", "clearFiles", "clearUnlock", "home", "write", "put"}

Sight == [record : Server \cup {None, Corrupt},
          secret : Server \cup {None}, running : BOOLEAN, forced : BOOLEAN,
          mismatch : BOOLEAN]
NoSight == [record |-> None, secret |-> None, running |-> FALSE,
            forced |-> FALSE, mismatch |-> FALSE]
NoWant == [port |-> None, explicit |-> FALSE]

TypeOK ==
    /\ spc \in [Server -> ServerPc]
    /\ pid \in [Server -> Pid \cup {None}]
    /\ portOf \in [Server -> Port \cup {None}]
    /\ writing \in SUBSET Server
    /\ bound \in [Port -> Server \cup {None, Foreign}]
    /\ alien \in SUBSET Pid
    /\ record \in Server \cup {None, Corrupt}
    /\ secret \in Server \cup {None}
    /\ homeLock \in Client \cup Server \cup {None}
    /\ startLock \in Client \cup {None}
    /\ op \in [Client -> Op]
    /\ step \in [Client -> Step]
    /\ want \in [Client -> [port : Port \cup {None}, explicit : BOOLEAN]]
    /\ child \in [Client -> Server \cup {None}]
    /\ seen \in [Client -> Sight]

Init ==
    /\ spc = [s \in Server |-> "unborn"]
    /\ pid = [s \in Server |-> None]
    /\ portOf = [s \in Server |-> None]
    /\ writing = {}
    /\ bound \in [Port -> {None, Foreign}]
    /\ alien = {}
    /\ record \in {None, Corrupt}
    /\ secret = None
    /\ homeLock = None
    /\ startLock = None
    /\ op = [c \in Client |-> "idle"]
    /\ step = [c \in Client |-> "none"]
    /\ want = [c \in Client |-> NoWant]
    /\ child = [c \in Client |-> None]
    /\ seen = [c \in Client |-> NoSight]

-----------------------------------------------------------------------------
(* Processes and identities *)

Alive(s) == spc[s] \notin {"unborn", "exited"}

\* No process of any kind has pid p: ErrProcessNotFound.
NoProcess(p) == p \notin alien /\ \A s \in Server : Alive(s) => pid[s] # p

Spawned(s, p, port) ==
    /\ spc[s] = "unborn"
    /\ NoProcess(p)
    /\ spc' = [spc EXCEPT ![s] = "waitHome"]
    /\ pid' = [pid EXCEPT ![s] = p]
    /\ portOf' = [portOf EXCEPT ![s] = port]

\* The process is gone: the system drops its locks, its listeners and every
\* request it was serving.  Files stay.
Dies(s) ==
    /\ spc' = [spc EXCEPT ![s] = "exited"]
    /\ writing' = writing \ {s}
    /\ bound' = [p \in Port |-> IF bound[p] = s THEN None ELSE bound[p]]
    /\ homeLock' = IF homeLock = s THEN None ELSE homeLock
    /\ UNCHANGED <<pid, portOf>>

\* Run leaves its select: listeners close at once, requests drain.
BeginsDraining(s) ==
    /\ spc' = [spc EXCEPT ![s] = "draining"]
    /\ bound' = [bound EXCEPT ![portOf[s]] = None]

\* Mutation: whoever listens on the recorded port is believed.
AnswersUnauthenticated(r, x) == bound[portOf[r]] \in Server /\ x # Corrupt

\* The port answers whoami as r to a caller presenting secret x.
Answers(r, x) ==
    /\ spc[r] \in ListeningPc
    /\ bound[portOf[r]] = r
    /\ x = r

-----------------------------------------------------------------------------
(* The server process: Run *)

ServerGoes(s, to) == spc' = [spc EXCEPT ![s] = to]

\* The system, or a person, runs "ovdb server run" without start.lock.
LaunchForeground(s) ==
    /\ \E p \in Pid, port \in Port : Spawned(s, p, port)
    /\ UNCHANGED <<writing, bound, alien, fileVars, homeLock, startLock, clientVars>>

\* Mutation: the server runs without home.lock when it cannot have it.
TakeHomeAnyway(s) ==
    /\ spc[s] = "waitHome"
    /\ homeLock' = IF homeLock = None THEN s ELSE homeLock
    /\ ServerGoes(s, "clear")
    /\ UNCHANGED <<pid, portOf, writing, bound, alien, fileVars, startLock, clientVars>>

\* Acquire: home.lock within homeLockWait, or ErrAlreadyRunning or the error
\* of a lock file that cannot be used.
TakeHome(s) ==
    /\ spc[s] = "waitHome"
    /\ \/ /\ homeLock = None
          /\ homeLock' = s
          /\ ServerGoes(s, "clear")
       \/ ServerGoes(s, "exited") /\ UNCHANGED homeLock
    /\ UNCHANGED <<pid, portOf, writing, bound, alien, fileVars, startLock, clientVars>>

\* Acquire: removeRuntimeFiles.
ClearFiles(s) ==
    /\ spc[s] = "clear"
    /\ ServerGoes(s, "secret")
    /\ record' = None
    /\ secret' = None
    /\ UNCHANGED <<pid, portOf, writing, bound, alien, homeLock, startLock, clientVars>>

\* Acquire: write the new secret; a failed write releases the instance.
WriteSecret(s) ==
    /\ spc[s] = "secret"
    /\ \/ secret' = s /\ ServerGoes(s, "listen")
       \/ ServerGoes(s, "release") /\ UNCHANGED secret
    /\ UNCHANGED <<pid, portOf, writing, bound, alien, record, homeLock, startLock, clientVars>>

\* Listen: a taken or refused port ends the run.
Listen(s) ==
    /\ spc[s] = "listen"
    /\ \/ /\ bound[portOf[s]] = None
          /\ bound' = [bound EXCEPT ![portOf[s]] = s]
          /\ ServerGoes(s, "publish")
       \/ ServerGoes(s, "release") /\ UNCHANGED bound
    /\ UNCHANGED <<pid, portOf, writing, alien, fileVars, homeLock, startLock, clientVars>>

\* Publish once Serve runs; a failed write closes the server.
Publish(s) ==
    /\ spc[s] = "publish"
    /\ \/ record' = s /\ ServerGoes(s, "serving") /\ UNCHANGED bound
       \/ /\ ServerGoes(s, "release")
          /\ bound' = [bound EXCEPT ![portOf[s]] = None]
          /\ UNCHANGED record
    /\ UNCHANGED <<pid, portOf, writing, alien, secret, homeLock, startLock, clientVars>>

\* A request handler that writes the home (config, databases, contexts, ...)
\* finishes.
FinishRequest(s) ==
    /\ s \in writing
    /\ writing' = writing \ {s}
    /\ UNCHANGED <<spc, pid, portOf, bound, alien, fileVars, homeLock, startLock, clientVars>>

\* SIGINT or SIGTERM, or a listener that fails.
Interrupt(s) ==
    /\ spc[s] = "serving"
    /\ BeginsDraining(s)
    /\ UNCHANGED <<pid, portOf, writing, alien, fileVars, homeLock, startLock, clientVars>>

\* Mutation: requests are not waited for.
DrainedAtOnce(s) ==
    /\ spc[s] = "draining"
    /\ ServerGoes(s, "release")
    /\ UNCHANGED <<pid, portOf, writing, bound, alien, fileVars, homeLock, startLock, clientVars>>

\* Server.Shutdown returns when requests are done, or after 5s with
\* requests still running; then Flush and Close, which takes the registry's
\* lock: a request that still holds it keeps the server here.
Drained(s) ==
    /\ spc[s] = "draining"
    /\ s \notin writing \/ SlowHandlers
    /\ ServerGoes(s, "release")
    /\ UNCHANGED <<pid, portOf, writing, bound, alien, fileVars, homeLock, startLock, clientVars>>

\* Mutation: the home is not released while a request runs.
RemovesWhenQuiet(s) ==
    /\ spc[s] = "release"
    /\ s \notin writing
    /\ ServerGoes(s, "unlock")
    /\ record' = None
    /\ secret' = None
    /\ UNCHANGED <<pid, portOf, writing, bound, alien, homeLock, startLock, clientVars>>

\* Release: remove the files, then unlock.
RemoveOwnFiles(s) ==
    /\ spc[s] = "release"
    /\ ServerGoes(s, "unlock")
    /\ record' = None
    /\ secret' = None
    /\ UNCHANGED <<pid, portOf, writing, bound, alien, homeLock, startLock, clientVars>>

UnlockHome(s) ==
    /\ spc[s] = "unlock"
    /\ ServerGoes(s, "leaving")
    /\ homeLock' = None
    /\ UNCHANGED <<pid, portOf, writing, bound, alien, fileVars, startLock, clientVars>>

\* Run has returned and the process ends.
Leave(s) ==
    /\ spc[s] = "leaving"
    /\ Dies(s)
    /\ UNCHANGED <<alien, fileVars, startLock, clientVars>>

\* A crash or SIGKILL at any point.
CrashServer(s) ==
    /\ Alive(s)
    /\ Dies(s)
    /\ UNCHANGED <<alien, fileVars, startLock, clientVars>>

ServerProgress(s) ==
    TakeHome(s) \/ ClearFiles(s) \/ WriteSecret(s) \/ Listen(s) \/ Publish(s)
    \/ Drained(s) \/ RemoveOwnFiles(s) \/ UnlockHome(s) \/ Leave(s)

-----------------------------------------------------------------------------
(* Clients: a command, its steps and its outcome *)

Goes(c, to) ==
    /\ step' = [step EXCEPT ![c] = to]
    /\ UNCHANGED <<op, want, child, seen>>

Looks(c, sight, to) ==
    /\ seen' = [seen EXCEPT ![c] = sight]
    /\ step' = [step EXCEPT ![c] = to]
    /\ UNCHANGED <<op, want, child>>

Turns(c, o, to) ==
    /\ op' = [op EXCEPT ![c] = o]
    /\ step' = [step EXCEPT ![c] = to]
    /\ UNCHANGED <<want, child, seen>>

Ends(c, outcome) ==
    /\ op' = [op EXCEPT ![c] = "idle"]
    /\ step' = [step EXCEPT ![c] = outcome]
    /\ want' = [want EXCEPT ![c] = NoWant]
    /\ child' = [child EXCEPT ![c] = None]
    /\ seen' = [seen EXCEPT ![c] = NoSight]

\* The deferred unlockFile calls of a command that returns.
DropLocks(c) ==
    /\ startLock' = IF startLock = c THEN None ELSE startLock
    /\ homeLock' = IF homeLock = c THEN None ELSE homeLock

KeepLocks == UNCHANGED <<homeLock, startLock>>

Begin(c) ==
    /\ op[c] = "idle"
    /\ \/ /\ op' = [op EXCEPT ![c] = "start"]
          /\ step' = [step EXCEPT ![c] = "lock"]
          /\ \E choice \in PortChoice : want' = [want EXCEPT ![c] = choice]
          /\ UNCHANGED <<child, seen>>
       \/ Turns(c, "stop", "record")
       \/ Turns(c, "write", "record")
    /\ UNCHANGED <<serverVars, alien, fileVars, homeLock, startLock>>

\* Inspect reads server.json ...
ReadRecord(c) ==
    /\ step[c] = "record"
    /\ Looks(c, [NoSight EXCEPT !.record = record],
             IF record \in Server THEN "secret" ELSE "decide")
    /\ UNCHANGED <<serverVars, alien, fileVars, homeLock, startLock>>

\* ... then the secret ...
ReadSecret(c) ==
    /\ step[c] = "secret"
    /\ Looks(c, [seen[c] EXCEPT !.secret = secret],
             IF secret = None THEN "decide" ELSE "probe")
    /\ UNCHANGED <<serverVars, alien, fileVars, homeLock, startLock>>

\* ... and asks the recorded port.  A server may fail to answer in time.
Probe(c) ==
    /\ step[c] = "probe"
    /\ \E inTime \in BOOLEAN :
          Looks(c, [seen[c] EXCEPT !.running =
                       inTime /\ Answers(seen[c].record, seen[c].secret)],
                "decide")
    /\ UNCHANGED <<serverVars, alien, fileVars, homeLock, startLock>>

\* CheckMatch within one home: only an explicitly chosen port can differ.
Mismatch(c) == want[c].explicit /\ want[c].port # portOf[seen[c].record]

-----------------------------------------------------------------------------
(* Start *)

\* Mutation: a start that cannot have start.lock goes on without it.
LockStartAnyway(c) ==
    /\ op[c] = "start" /\ step[c] = "lock"
    /\ startLock' = IF startLock = None THEN c ELSE startLock
    /\ Goes(c, "record")
    /\ UNCHANGED <<serverVars, alien, fileVars, homeLock>>

\* Mutation: start.lock is waited for without a deadline.
LockStartForever(c) ==
    /\ op[c] = "start" /\ step[c] = "lock"
    /\ startLock = None
    /\ startLock' = c
    /\ Goes(c, "record")
    /\ UNCHANGED <<serverVars, alien, fileVars, homeLock>>

\* lockStart: start.lock within the timeout, or a look without it; so does a
\* lock file that cannot be used.
LockStart(c) ==
    /\ op[c] = "start" /\ step[c] = "lock"
    /\ \/ /\ startLock = None
          /\ startLock' = c
          /\ Goes(c, "record")
       \/ Turns(c, "busyStart", "record") /\ UNCHANGED startLock
    /\ UNCHANGED <<serverVars, alien, fileVars, homeLock>>

\* runningServer, first with the lock, or after waiting for it in vain.
FindRunning(c) ==
    /\ op[c] \in {"start", "busyStart"} /\ step[c] = "decide"
    /\ \/ /\ seen[c].running
          /\ Ends(c, IF Mismatch(c) THEN "failed" ELSE "already")
          /\ DropLocks(c)
       \/ /\ ~seen[c].running /\ op[c] = "start"
          /\ Goes(c, "port")
          /\ KeepLocks
       \/ /\ ~seen[c].running /\ op[c] = "busyStart"
          /\ Ends(c, "failed")
          /\ DropLocks(c)
    /\ UNCHANGED <<serverVars, alien, fileVars>>

CheckPort(c) ==
    /\ step[c] = "port"
    /\ \/ /\ bound[want[c].port] = None
          /\ Goes(c, "spawn")
          /\ KeepLocks
       \/ /\ bound[want[c].port] # None
          /\ Ends(c, "failed")
          /\ DropLocks(c)
    /\ UNCHANGED <<serverVars, alien, fileVars>>

Spawn(c) ==
    /\ step[c] = "spawn"
    /\ \E s \in Server, p \in Pid :
          /\ Spawned(s, p, want[c].port)
          /\ child' = [child EXCEPT ![c] = s]
    /\ op' = [op EXCEPT ![c] = "await"]
    /\ step' = [step EXCEPT ![c] = "record"]
    /\ UNCHANGED <<writing, bound, alien, fileVars, homeLock, startLock, want, seen>>

\* Start: no process could be started.
SpawnFails(c) ==
    /\ step[c] = "spawn"
    /\ Ends(c, "failed")
    /\ DropLocks(c)
    /\ UNCHANGED <<serverVars, alien, fileVars>>

\* A tick: ready when the running server has the child's pid.
Tick(c) ==
    /\ op[c] = "await" /\ step[c] = "decide"
    /\ \/ /\ seen[c].running /\ pid[seen[c].record] = pid[child[c]]
          /\ Ends(c, "started")
          /\ DropLocks(c)
       \/ /\ ~(seen[c].running /\ pid[seen[c].record] = pid[child[c]])
          /\ Goes(c, "record")
          /\ KeepLocks
    /\ UNCHANGED <<serverVars, alien, fileVars>>

\* The child exits before it is ready.
ChildExited(c) ==
    /\ op[c] = "await"
    /\ ~Alive(child[c])
    /\ Ends(c, "failed")
    /\ DropLocks(c)
    /\ UNCHANGED <<serverVars, alien, fileVars>>

\* Mutation: the child is abandoned instead of killed.
GiveUpOnly(c) ==
    /\ op[c] = "await"
    /\ Alive(child[c])
    /\ startLock' = IF startLock = c THEN None ELSE startLock
    /\ Ends(c, "failed")
    /\ UNCHANGED <<serverVars, homeLock, alien, fileVars>>

\* The deadline, or the caller's context: kill the child and wait for it.
GiveUp(c) ==
    /\ op[c] = "await"
    /\ Alive(child[c])
    /\ Dies(child[c])
    /\ startLock' = IF startLock = c THEN None ELSE startLock
    /\ Ends(c, "failed")
    /\ UNCHANGED <<alien, fileVars>>

-----------------------------------------------------------------------------
(* Stop *)

DecideStop(c) ==
    /\ op[c] = "stop" /\ step[c] = "decide"
    /\ \/ seen[c].running /\ Goes(c, "shutdown")
       \/ seen[c].record = None /\ Ends(c, "notRunning")
       \/ seen[c].record = Corrupt /\ Goes(c, "clearStart")
       \/ /\ seen[c].record \in Server /\ ~seen[c].running
          /\ Goes(c, "identify")
    /\ UNCHANGED <<serverVars, alien, fileVars, homeLock, startLock>>

\* The authenticated shutdown request; an error ends the command.
RequestShutdown(c) ==
    /\ step[c] = "shutdown"
    /\ LET s == seen[c].record IN
       \/ /\ Answers(s, seen[c].secret) /\ spc[s] = "serving"
          /\ BeginsDraining(s)
          /\ Goes(c, "waitGone")
       \/ /\ Ends(c, "failed")
          /\ UNCHANGED <<spc, bound>>
    /\ UNCHANGED <<pid, portOf, writing, alien, fileVars, homeLock, startLock>>

\* ProcessIdentity of the recorded pid: the recorded process, another one
\* (mismatch), none, or one whose identity cannot be read.
Identify(c) ==
    /\ step[c] = "identify"
    /\ LET s == seen[c].record IN
       \/ /\ Alive(s)
          /\ Goes(c, "terminate")
       \/ /\ ~Alive(s)
          /\ Looks(c, [seen[c] EXCEPT !.mismatch = ~NoProcess(pid[s])], "clearStart")
       \/ Ends(c, "failed")
    /\ UNCHANGED <<serverVars, alien, fileVars, homeLock, startLock>>

\* Mutation: the pid is signalled without comparing its identity again.
TerminateByPid(c) ==
    /\ step[c] = "terminate"
    /\ \/ \E s \in Server : /\ Alive(s) /\ pid[s] = pid[seen[c].record]
                            /\ Dies(s)
       \/ NoProcess(pid[seen[c].record]) /\ UNCHANGED <<serverVars, homeLock>>
    /\ Looks(c, [seen[c] EXCEPT !.forced = TRUE], "waitGone")
    /\ UNCHANGED <<alien, fileVars, startLock>>

\* TerminateIfSameProcess: the recorded process begins to stop or dies; a
\* pid that changed hands in the meantime is left alone, and so is a process
\* that cannot be signalled.
Terminate(c) ==
    /\ step[c] = "terminate"
    /\ LET s == seen[c].record IN
       \/ /\ Alive(s)
          /\ \/ Dies(s)
             \/ /\ spc[s] = "serving"
                /\ BeginsDraining(s)
                /\ UNCHANGED <<pid, portOf, writing, homeLock>>
             \/ spc[s] # "serving" /\ UNCHANGED <<serverVars, homeLock>>
          /\ Looks(c, [seen[c] EXCEPT !.forced = TRUE], "waitGone")
       \/ /\ ~Alive(s) /\ NoProcess(pid[s])
          /\ Looks(c, [seen[c] EXCEPT !.forced = TRUE], "waitGone")
          /\ UNCHANGED <<serverVars, homeLock>>
       \/ /\ ~Alive(s) /\ ~NoProcess(pid[s])
          /\ Ends(c, "unconfirmed")
          /\ UNCHANGED <<serverVars, homeLock>>
       \/ /\ Ends(c, "failed")
          /\ UNCHANGED <<serverVars, homeLock>>
    /\ UNCHANGED <<alien, fileVars, startLock>>

\* Mutation: a closed port is taken for a process that is gone.
WaitPortClosed(c) ==
    /\ step[c] = "waitGone"
    /\ \/ /\ bound[portOf[seen[c].record]] # seen[c].record
          /\ IF seen[c].forced THEN Goes(c, "clearStart") ELSE Ends(c, "stopped")
       \/ Alive(seen[c].record) /\ Ends(c, "failed")
    /\ UNCHANGED <<serverVars, alien, fileVars, homeLock, startLock>>

\* waitGone: the recorded process is gone, or the wait ends without having
\* seen that.
WaitGone(c) ==
    /\ step[c] = "waitGone"
    /\ \/ /\ ~Alive(seen[c].record)
          /\ IF seen[c].forced THEN Goes(c, "clearStart") ELSE Ends(c, "stopped")
       \/ Ends(c, "failed")
    /\ UNCHANGED <<serverVars, alien, fileVars, homeLock, startLock>>

\* What Stop returns once clearStale did, or did not, clear.
StopOutcome(c, cleared) ==
    IF seen[c].forced THEN "stopped"
    ELSE IF seen[c].mismatch /\ ~cleared THEN "unconfirmed"
    ELSE "notRunning"

\* clearStale: both locks without waiting, or nothing, also when a lock file
\* cannot be used.
ClearTakesStart(c) ==
    /\ step[c] = "clearStart"
    /\ \/ /\ startLock = None
          /\ startLock' = c
          /\ Goes(c, "clearHome")
       \/ Ends(c, StopOutcome(c, FALSE)) /\ UNCHANGED startLock
    /\ UNCHANGED <<serverVars, alien, fileVars, homeLock>>

\* Mutation: start.lock alone is taken to mean that no server runs.
ClearSkipsHome(c) ==
    /\ step[c] = "clearHome"
    /\ Goes(c, "clearFiles")
    /\ UNCHANGED <<serverVars, alien, fileVars, homeLock, startLock>>

ClearTakesHome(c) ==
    /\ step[c] = "clearHome"
    /\ \/ /\ homeLock = None
          /\ homeLock' = c
          /\ Goes(c, "clearFiles")
          /\ UNCHANGED startLock
       \/ /\ startLock' = None
          /\ Ends(c, StopOutcome(c, FALSE))
          /\ UNCHANGED homeLock
    /\ UNCHANGED <<serverVars, alien, fileVars>>

ClearRemoves(c) ==
    /\ step[c] = "clearFiles"
    /\ record' = None
    /\ secret' = None
    /\ Goes(c, "clearUnlock")
    /\ UNCHANGED <<serverVars, alien, homeLock, startLock>>

ClearUnlocks(c) ==
    /\ step[c] = "clearUnlock"
    /\ DropLocks(c)
    /\ Ends(c, StopOutcome(c, TRUE))
    /\ UNCHANGED <<serverVars, alien, fileVars>>

-----------------------------------------------------------------------------
(* SetConfig: through the running server, or as the single writer *)

DecideWrite(c) ==
    /\ op[c] \in {"write", "rewrite"} /\ step[c] = "decide"
    /\ Goes(c, IF seen[c].running THEN "put" ELSE "lock")
    /\ UNCHANGED <<serverVars, alien, fileVars, homeLock, startLock>>

\* PUT /config: the server's handler starts to write, or the call fails.
PutConfig(c) ==
    /\ step[c] = "put"
    /\ LET s == seen[c].record IN
       \/ /\ Answers(s, seen[c].secret)
          /\ writing' = writing \cup {s}
          /\ Ends(c, "done")
       \/ Ends(c, "failed") /\ UNCHANGED writing
    /\ UNCHANGED <<spc, pid, portOf, bound, alien, fileVars, homeLock, startLock>>

\* WithHomeLock: start.lock ...
WriteTakesStart(c) ==
    /\ op[c] \in {"write", "rewrite"} /\ step[c] = "lock"
    /\ \/ /\ startLock = None
          /\ startLock' = c
          /\ Goes(c, "home")
       \/ Ends(c, "failed") /\ UNCHANGED startLock
    /\ UNCHANGED <<serverVars, alien, fileVars, homeLock>>

\* Mutation: start.lock alone is taken to mean that no server runs.
WriteSkipsHome(c) ==
    /\ step[c] = "home"
    /\ Goes(c, "write")
    /\ UNCHANGED <<serverVars, alien, fileVars, homeLock, startLock>>

\* ... then home.lock; ErrAlreadyRunning makes SetConfig look once more.
WriteTakesHome(c) ==
    /\ step[c] = "home"
    /\ \/ /\ homeLock = None
          /\ homeLock' = c
          /\ Goes(c, "write")
          /\ UNCHANGED startLock
       \/ /\ homeLock # None
          /\ startLock' = None
          /\ IF op[c] = "write" THEN Turns(c, "rewrite", "record")
                                ELSE Ends(c, "failed")
          /\ UNCHANGED homeLock
       \/ /\ startLock' = None
          /\ Ends(c, "failed")
          /\ UNCHANGED homeLock
    /\ UNCHANGED <<serverVars, alien, fileVars>>

WriteEnds(c) ==
    /\ step[c] = "write"
    /\ DropLocks(c)
    /\ Ends(c, "done")
    /\ UNCHANGED <<serverVars, alien, fileVars>>

-----------------------------------------------------------------------------
(* The environment *)

\* The command is killed: the system drops its locks; its child lives on.
CrashClient(c) ==
    /\ op[c] # "idle"
    /\ DropLocks(c)
    /\ Ends(c, "none")
    /\ UNCHANGED <<serverVars, alien, fileVars>>

\* The system gives a free pid to a process that is not OVDB's, or takes it.
OtherProcess(p) ==
    /\ \/ NoProcess(p) /\ alien' = alien \cup {p}
       \/ p \in alien /\ alien' = alien \ {p}
    /\ UNCHANGED <<serverVars, fileVars, homeLock, startLock, clientVars>>

\* Another program takes or leaves a port.
OtherListener(p) ==
    /\ \/ bound[p] = None /\ bound' = [bound EXCEPT ![p] = Foreign]
       \/ bound[p] = Foreign /\ bound' = [bound EXCEPT ![p] = None]
    /\ UNCHANGED <<spc, pid, portOf, writing, alien, fileVars, homeLock, startLock, clientVars>>

\* Each step of a command, its bounded waits included.
Inspects(c) == ReadRecord(c) \/ ReadSecret(c) \/ Probe(c)
Starts(c) == LockStart(c) \/ FindRunning(c) \/ CheckPort(c) \/ Spawn(c)
             \/ SpawnFails(c) \/ Tick(c) \/ ChildExited(c) \/ GiveUp(c)
Stops(c) == DecideStop(c) \/ RequestShutdown(c) \/ Identify(c) \/ Terminate(c)
            \/ WaitGone(c) \/ ClearTakesStart(c) \/ ClearTakesHome(c)
            \/ ClearRemoves(c) \/ ClearUnlocks(c)
Writes(c) == DecideWrite(c) \/ PutConfig(c) \/ WriteTakesStart(c)
             \/ WriteTakesHome(c) \/ WriteEnds(c)

Next ==
    \/ \E s \in Server : LaunchForeground(s) \/ ServerProgress(s)
                         \/ FinishRequest(s) \/ Interrupt(s) \/ CrashServer(s)
    \/ \E c \in Client : Begin(c) \/ Inspects(c) \/ Starts(c) \/ Stops(c)
                         \/ Writes(c) \/ CrashClient(c)
    \/ \E p \in Pid : OtherProcess(p)
    \/ \E p \in Port : OtherListener(p)

Spec == Init /\ [][Next]_vars

\* Processes that are not killed keep running, and every wait of theirs is
\* bounded by a timer, but for a draining server's for a request that still
\* runs; nothing else is promised.
Fairness ==
    /\ \A s \in Server : WF_vars(ServerProgress(s) /\ (spc[s] = "draining" => s \notin writing))
    /\ \A c \in Client :
          /\ WF_vars(Inspects(c) \/ Starts(c) \/ Stops(c) \/ Writes(c))
          /\ WF_vars(ChildExited(c) \/ GiveUp(c))

LiveSpec == Spec /\ Fairness

-----------------------------------------------------------------------------
(* Properties *)

\* Whoever is in the middle of changing the home's files.
Writers == writing \cup {c \in Client : step[c] = "write"}

\* The home has a single writer: a server handler or a WithHomeLock function
\* that is changing the home's files runs in the process holding home.lock
\* (instance.go:128-131).
SingleWriter == \A w \in Writers : homeLock = w

\* server.json and the secret are those of the server holding home.lock from
\* the moment it wrote them until it removes them: neither a concurrent stop
\* clearing stale files nor a server that lost the race takes them away
\* (instance.go:41-44, lifecycle.go:359-361).
FilesBelongToHolder ==
    \A s \in Server :
        /\ spc[s] \in {"listen", "publish", "serving", "draining"} => secret = s
        /\ spc[s] \in {"serving", "draining"} => record = s

\* Parallel starts queue on start.lock: two of them never await a child at
\* the same time (lifecycle.go:139-140).
StartsAreSerial ==
    \A c, d \in Client : op[c] = "await" /\ op[d] = "await" => c = d

\* An Inspect that reports a running server has asked the server that holds
\* home.lock and whose record is on disk, whatever was read before
\* (lifecycle.go:42-45).
ConfirmsTheHolder ==
    [][\A c \in Client :
         step[c] = "probe" /\ step'[c] = "decide" /\ seen'[c].running
         => LET s == seen[c].record IN
            spc[s] = "serving" /\ homeLock = s /\ record = s]_vars

\* Stop signals no process but the recorded one: a pid given to another
\* process in the meantime is left alone (lifecycle.go:299-306).
SignalsOnlyTheRecorded ==
    [][\A c \in Client, s \in Server :
         step[c] = "terminate" /\ step'[c] # "terminate" /\ spc'[s] # spc[s]
         => s = seen[c].record]_vars

\* A stop that reports success leaves no trace of the process it found: that
\* process has exited and holds neither the home nor its port
\* (lifecycle.go:390-391).
StopMeansGone ==
    [][\A c \in Client :
         op[c] = "stop" /\ step'[c] = "stopped"
         => LET s == seen[c].record IN
            /\ ~Alive(s)
            /\ homeLock # s
            /\ \A p \in Port : bound[p] # s]_vars

\* A start that fails after it spawned a server leaves none behind
\* (lifecycle.go:176-191).
FailedStartLeavesNoServer ==
    [][\A c \in Client :
         op[c] = "await" /\ step'[c] = "failed" => spc'[child[c]] = "exited"]_vars

\* No server listens next to another one of the same home, on whichever port
\* each was asked to use (instance.go:30-31, lifecycle.go:66-68).
NoServerNextToAnother ==
    \A s, t \in Server : spc[s] \in ListeningPc /\ spc[t] \in ListeningPc => s = t

\* Every command ends, whatever the servers and the other commands do: no
\* lock or wait is unbounded (lifecycle.go:25-28, instance.go:26-28).
CommandsEnd == \A c \in Client : op[c] # "idle" ~> op[c] = "idle"

\* A server told to stop is eventually gone, and its lock with it, as long as
\* no request runs forever; one that has closed its registry, or whose run
\* fails, is gone whatever requests still run (run.go:106-117).
StoppingEnds ==
    \A s \in Server :
        /\ []<>(s \notin writing) => (spc[s] = "draining" ~> spc[s] = "exited")
        /\ spc[s] = "release" ~> spc[s] = "exited"

-----------------------------------------------------------------------------
(* The inductive invariant behind them *)

InspectStep == {"record", "secret", "probe", "decide"}
ClearStep == {"clearStart", "clearHome", "clearFiles", "clearUnlock"}

\* Where each command can be.
Control ==
    \A c \in Client :
        /\ op[c] = "idle" => step[c] \in Outcome
        /\ op[c] = "start" => step[c] \in InspectStep \cup {"lock", "port", "spawn"}
        /\ op[c] \in {"busyStart", "await"} => step[c] \in InspectStep
        /\ op[c] = "stop" =>
              step[c] \in InspectStep \cup ClearStep
                          \cup {"shutdown", "identify", "terminate", "waitGone"}
        /\ op[c] \in {"write", "rewrite"} =>
              step[c] \in InspectStep \cup {"lock", "put", "home", "write"}

\* A server that once wrote server.json.
Published(s) == spc[s] \in {"serving", "draining", "release", "unlock", "leaving", "exited"}

\* What commands know: a server that was read from disk has published, and
\* stays so; a forced stop that clears files has outlived the process; a
\* start that waits has a child.
Knowledge ==
    \A c \in Client :
        /\ step[c] \in {"secret", "probe", "put", "shutdown", "identify",
                        "terminate", "waitGone"} \/ seen[c].running
           => seen[c].record \in Server
        /\ seen[c].record \in Server => Published(seen[c].record)
        /\ seen[c].forced => seen[c].record \in Server
        /\ seen[c].forced /\ step[c] \in ClearStep => ~Alive(seen[c].record)
        /\ op[c] = "start" => want[c].port \in Port
        /\ op[c] = "await" => child[c] \in Server /\ spc[child[c]] # "unborn"

HoldsStart(c) ==
    \/ op[c] = "start" /\ step[c] \in InspectStep \cup {"port", "spawn"}
    \/ op[c] = "await"
    \/ step[c] \in {"clearHome", "clearFiles", "clearUnlock", "home", "write"}

\* Control states and locks agree.
LocksHeld ==
    /\ \A s \in Server : spc[s] \in HoldingPc <=> homeLock = s
    /\ \A c \in Client :
          step[c] \in {"clearFiles", "clearUnlock", "write"} <=> homeLock = c
    /\ \A c \in Client : HoldsStart(c) <=> startLock = c

\* server.json before and after it is published.
RecordFollows ==
    /\ record \in Server => Published(record)
    /\ \A s \in Server : spc[s] \in {"secret", "listen", "publish"} => record = None

\* Ports belong to the servers that listen on them, and to nobody else.
Listeners ==
    \A s \in Server :
        /\ spc[s] # "unborn" => portOf[s] \in Port
        /\ spc[s] \in ListeningPc => bound[portOf[s]] = s
        /\ \A p \in Port : bound[p] = s => spc[s] \in ListeningPc /\ portOf[s] = p

\* Requests run in a server that has not released the home, as long as they
\* end before the shutdown deadline.
RequestsRunInServer ==
    ~SlowHandlers => \A s \in writing : spc[s] \in {"serving", "draining"}

\* The invariant that every step of Lifecycle preserves: control states, the
\* two locks, the files and the ports agree (instance.go, lifecycle.go).
IInv ==
    TypeOK /\ Control /\ Knowledge /\ LocksHeld /\ FilesBelongToHolder
    /\ RecordFollows /\ Listeners /\ RequestsRunInServer
=============================================================================

------------------------------- MODULE Settings -------------------------------
(***************************************************************************)
(* config.yaml: the server's settings and the telemetry decision            *)
(* (internal/setup/config.go, telemetry.go), changed by the running server  *)
(* for its clients, or by a command that holds home.lock while no server    *)
(* runs.                                                                    *)
(*                                                                         *)
(* Every change reads the whole file and writes the whole file.  The write  *)
(* is a rename and one step; the read before it is another, and the server  *)
(* handles requests side by side without a lock between them (Concurrent).  *)
(***************************************************************************)
EXTENDS Naturals

CONSTANTS
    Client,      \* commands, terminal interfaces and console requests
    Session,     \* the clients that are console sessions
    Key,         \* server.port, server.cors, server.read_only
    CORS,        \* the key that sessions may not change
    InstallId,
    None, Server,
    Concurrent,  \* whether the server handles several requests at a time
    MaxCommands, MaxEdits  \* bounds on commands begun and on edits by hand

\* None and Server are not clients, and None is no install id.
SettingsAssumption ==
    /\ Session \subseteq Client
    /\ None \notin Client \cup InstallId \cup {Server} /\ Server \notin Client
    /\ MaxCommands \in Nat /\ MaxEdits \in Nat

VARIABLES
    file,     \* config.yaml
    backups,  \* the copies disableUnreadable made
    holder,   \* who holds home.lock: a client, Server or None
    pc, command, attempt, next,
    decided,  \* the telemetry state and the settings last asked for and done
    retired,  \* install ids that a disable removed
    ran, edited

clientVars == <<pc, command, attempt, next>>
vars == <<file, backups, holder, clientVars, decided, retired, ran, edited>>

State == {"not_asked", "enabled", "disabled"}
Values == [Key -> {0, 1}]  \* 0: the default
\* "values" is YAML that is a mapping but not a configuration; "junk" is not
\* YAML.
File == [kind : {"whole", "values", "junk"}, server : Values, state : State, id : InstallId \cup {None}]
\* ovdb config set, the Settings screens.
ConfigSet == [op : {"set"}, key : Key, value : {0, 1}]
\* ovdb telemetry enable, confirmed by the person in a terminal or by a flag.
TelemetryEnable == [op : {"enable"}, confirmed : BOOLEAN]
TelemetryDisable == [op : {"disable"}]
Command == ConfigSet \cup TelemetryEnable \cup TelemetryDisable
Default == [k \in Key |-> 0]
NoFile == [kind |-> "whole", server |-> Default, state |-> "not_asked", id |-> None]

SettingsTypeOK ==
    /\ file \in File /\ backups \subseteq File
    /\ holder \in Client \cup {Server, None}
    /\ pc \in [Client -> {"idle", "inspect", "lock", "handle", "load", "salvage", "store"}]
    /\ command \in [Client -> Command \cup {None}]
    /\ attempt \in [Client -> {0, 1}]
    /\ next \in [Client -> File \cup {None}]
    /\ decided \in [state : State, server : Values]
    /\ retired \subseteq InstallId
    /\ ran \in 0 .. MaxCommands /\ edited \in 0 .. MaxEdits

Init ==
    /\ file = NoFile /\ backups = {}
    /\ holder = None
    /\ pc = [c \in Client |-> "idle"]
    /\ command = [c \in Client |-> None]
    /\ attempt = [c \in Client |-> 0]
    /\ next = [c \in Client |-> None]
    /\ decided = [state |-> "not_asked", server |-> Default]
    /\ retired = {}
    /\ ran = 0 /\ edited = 0

Running == holder = Server
InHandler(c) == pc[c] \in {"load", "salvage", "store"}
Goes(c, step) == pc' = [pc EXCEPT ![c] = step]

\* The answer, an error, or the death of the process that handles c: what c
\* held is free.
Returns(c) ==
    /\ Goes(c, "idle")
    /\ command' = [command EXCEPT ![c] = None]
    /\ attempt' = [attempt EXCEPT ![c] = 0]
    /\ next' = [next EXCEPT ![c] = None]
    /\ holder' = IF holder = c THEN None ELSE holder

-----------------------------------------------------------------------------
(* Clients *)

Begin(c) ==
    /\ pc[c] = "idle" /\ ran < MaxCommands
    /\ c \in Session => Running
    /\ \E cmd \in Command : command' = [command EXCEPT ![c] = cmd]
    /\ Goes(c, IF c \in Session THEN "handle" ELSE "inspect")
    /\ ran' = ran + 1
    /\ UNCHANGED <<file, backups, holder, attempt, next, decided, retired, edited>>

\* SetConfig, SetTelemetry: through the server when one runs.
Inspect(c) ==
    /\ pc[c] = "inspect"
    /\ Goes(c, IF Running THEN "handle" ELSE "lock")
    /\ UNCHANGED <<file, backups, holder, command, attempt, next, decided, retired, ran, edited>>

\* Mutant: a command that found no server writes next to one that started.
LockAnyway(c) ==
    /\ pc[c] = "lock"
    /\ Goes(c, "load")
    /\ UNCHANGED <<file, backups, holder, command, attempt, next, decided, retired, ran, edited>>

\* WithHomeLock: a server that took the lock in between is asked on the next
\* pass, once; another command makes this one wait, or give up.
Lock(c) ==
    /\ pc[c] = "lock"
    /\ \/ /\ holder = None
          /\ holder' = c /\ Goes(c, "load")
          /\ UNCHANGED <<command, attempt, next>>
       \/ /\ Running /\ attempt[c] = 0
          /\ attempt' = [attempt EXCEPT ![c] = 1] /\ Goes(c, "inspect")
          /\ UNCHANGED <<holder, command, next>>
       \/ /\ holder # None /\ (Running => attempt[c] = 1)
          /\ Returns(c)
    /\ UNCHANGED <<file, backups, decided, retired, ran, edited>>

\* putConfig: sessions may not change the browser origins.
Forbidden(c) == c \in Session /\ command[c].op = "set" /\ command[c].key = CORS

\* The request reaches its handler, unless the server is gone.
Handle(c) ==
    /\ pc[c] = "handle"
    /\ IF ~Running \/ Forbidden(c) THEN Returns(c)
       ELSE /\ Concurrent \/ \A d \in Client : ~InHandler(d)
            /\ Goes(c, "load")
            /\ UNCHANGED <<holder, command, attempt, next>>
    /\ UNCHANGED <<file, backups, decided, retired, ran, edited>>

-----------------------------------------------------------------------------
(* A change *)

\* What the command leaves of a configuration it read, with a new install id
\* for every enable.
Changed(f, cmd) ==
    CASE cmd.op = "set" -> {[f EXCEPT !.server[cmd.key] = cmd.value]}
      [] cmd.op = "enable" -> {[f EXCEPT !.state = "enabled", !.id = id] : id \in InstallId \ (retired \cup {f.id})}
      [] cmd.op = "disable" -> {[f EXCEPT !.state = "disabled", !.id = None]}

Satisfied(f, cmd) ==
    CASE cmd.op = "set" -> f.server[cmd.key] = cmd.value
      [] cmd.op = "enable" -> f.state = "enabled" /\ f.id # None
      [] cmd.op = "disable" -> f.state = "disabled"

\* ApplyConfigChange, ChangeTelemetry: the decision needs a person, the file
\* must be readable unless telemetry is turned off, and what is already so is
\* not written.
Load(c) ==
    /\ pc[c] = "load"
    /\ LET cmd == command[c] IN
       CASE cmd.op = "enable" /\ ~cmd.confirmed -> Returns(c)
         [] file.kind # "whole" /\ cmd.op = "disable" ->
              Goes(c, "salvage") /\ UNCHANGED <<holder, command, attempt, next>>
         [] file.kind # "whole" /\ cmd.op # "disable" -> Returns(c)
         [] OTHER ->
              IF Satisfied(file, cmd) THEN Returns(c)
              ELSE /\ \E f \in Changed(file, cmd) : next' = [next EXCEPT ![c] = f]
                   /\ Goes(c, "store")
                   /\ UNCHANGED <<holder, command, attempt>>
    /\ UNCHANGED <<file, backups, decided, retired, ran, edited>>

\* Mutant: an unreadable file is rewritten without a copy.
SalvageWithoutBackup(c) ==
    /\ pc[c] = "salvage"
    /\ next' = [next EXCEPT ![c] = [NoFile EXCEPT !.state = "disabled"]]
    /\ Goes(c, "store")
    /\ UNCHANGED <<file, backups, holder, command, attempt, decided, retired, ran, edited>>

\* disableUnreadable: a copy, then a mapping keeps its other keys and
\* anything else is replaced.
Salvage(c) ==
    /\ pc[c] = "salvage"
    /\ \/ Returns(c) /\ UNCHANGED backups  \* the copy cannot be written
       \/ /\ backups' = backups \cup {file}
          /\ next' = [next EXCEPT ![c] =
               IF file.kind = "junk" THEN [NoFile EXCEPT !.state = "disabled"]
               ELSE [file EXCEPT !.state = "disabled", !.id = None]]
          /\ Goes(c, "store")
          /\ UNCHANGED <<holder, command, attempt>>
    /\ UNCHANGED <<file, decided, retired, ran, edited>>

\* WriteFilePrivate, which may fail.
Store(c) ==
    /\ pc[c] = "store"
    /\ \/ UNCHANGED <<file, decided, retired>>
       \/ /\ file' = next[c]
          /\ decided' = CASE command[c].op = "set" -> [decided EXCEPT !.server[command[c].key] = command[c].value]
                          [] command[c].op = "enable" -> [decided EXCEPT !.state = "enabled"]
                          [] command[c].op = "disable" ->
                               [state |-> "disabled",
                                server |-> IF file.kind = "junk" THEN Default ELSE decided.server]
          /\ retired' = IF command[c].op = "disable" THEN retired \cup ({file.id} \ {None}) ELSE retired
    /\ Returns(c)
    /\ UNCHANGED <<backups, ran, edited>>

-----------------------------------------------------------------------------
(* Processes and people *)

\* A server starts: it takes home.lock, reads the settings once, and does not
\* start on a file it cannot read.
Start ==
    /\ holder = None /\ file.kind = "whole"
    /\ holder' = Server
    /\ UNCHANGED <<file, backups, clientVars, decided, retired, ran, edited>>

\* It stops when its requests are done, or crashes in the middle of them.
Stop ==
    /\ Running
    /\ holder' = None
    /\ pc' = [c \in Client |-> IF InHandler(c) THEN "idle" ELSE pc[c]]
    /\ command' = [c \in Client |-> IF InHandler(c) THEN None ELSE command[c]]
    /\ attempt' = [c \in Client |-> IF InHandler(c) THEN 0 ELSE attempt[c]]
    /\ next' = [c \in Client |-> IF InHandler(c) THEN None ELSE next[c]]
    /\ UNCHANGED <<file, backups, decided, retired, ran, edited>>

\* A command killed while it holds the lock.
Die(c) ==
    /\ holder = c
    /\ Returns(c)
    /\ UNCHANGED <<file, backups, decided, retired, ran, edited>>

\* A person edits the file, while nothing changes it: unreadable, as a
\* mapping or not, or put in order again.
EditByHand ==
    /\ edited < MaxEdits /\ \A c \in Client : ~InHandler(c)
    /\ \E kind \in {"whole", "values", "junk"} \ {file.kind} :
          file' = [file EXCEPT !.kind = kind]
    /\ edited' = edited + 1
    /\ UNCHANGED <<backups, holder, clientVars, decided, retired, ran>>

Next ==
    \/ \E c \in Client : \/ Begin(c) \/ Inspect(c) \/ Lock(c) \/ Handle(c)
                         \/ Load(c) \/ Salvage(c) \/ Store(c) \/ Die(c)
    \/ Start \/ Stop \/ EditByHand

Spec == Init /\ [][Next]_vars

-----------------------------------------------------------------------------
(* Properties *)

\* What people decided and set stays so until they say otherwise, whatever
\* the order of the writers: no later change of another setting brings back
\* an older one (config.go:117-120, the home's single writer).
DecisionsLast ==
    /\ file.kind = "whole" => file.state = decided.state /\ file.server = decided.server
    /\ file.id \notin retired

\* Telemetry that was turned off stays off and its install id does not come
\* back (telemetry.go:32-35).
DisabledStays == decided.state = "disabled" => file.state = "disabled" /\ file.id \notin retired

\* A file that cannot be read is only ever replaced after it was copied
\* (telemetry.go:37-40).
UnreadableIsKept ==
    [][file' # file /\ file.kind # "whole" /\ (\E c \in Client : pc[c] = "store")
       => file \in backups]_vars
=============================================================================

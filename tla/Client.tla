-------------------------------- MODULE Client --------------------------------
(* How the command line and the terminal interface reach the local server    *)
(* (client/client.go): they look who runs, read files or ask it, start it,   *)
(* stop it, or write in its place under the home's lock.  Meanwhile servers  *)
(* start and end, of this home, of another home in this runtime directory,   *)
(* of this version or another, and strangers take their ports.               *)
(*                                                                           *)
(* Lifecycle says how a server starts and stops; here that is one step.      *)
EXTENDS Naturals, Sequences

CONSTANTS
    Terminal,    \* presentations, each with one command; more are part of the world beside
    Port, DefaultPort,
    None,
    MaxStarts,   \* bound on servers
    Takeover     \* may a server come up between a stop's look and its stop?

VARIABLES
    server,      \* the server of this runtime directory, or None
    starts,      \* servers so far: each has a secret of its own
    stranger,    \* the port of a server of another runtime directory, or None
    plan,        \* what each presentation does
    seen,        \* the server it found
    noticed,     \* the other version was told
    told,        \* what it was told in the end
    did,         \* where its change was applied, in order (history)
    began,       \* presentations that started a server (history)
    stopped      \* servers that each stopped (history)

clientVars == <<server, starts, stranger, plan, seen, noticed, told, did, began, stopped>>

Writes == {"write", "remove", "create", "config"}
Commands == Writes \cup {"read", "start", "stop", "restart"}
Known == [home : {"own", "other"}, port : Port, version : {"same", "different"}, secret : 1 .. MaxStarts,
          state : {"starting", "answers", "hangs"}]
Site == [where : {"own", "other", "files", "beside"}, port : Port, version : {"same", "different"}]
Outcomes == {"done", "files", "invalid", "unconfirmed", "kept", "mismatch", "not_running", "refused",
             "version_mismatch", "port_in_use", "start_failed", "cut", "failed"}
Plan == [command : Commands, at : {"check", "look", "found", "none", "start", "ask", "lock", "stop", "end"},
         start : BOOLEAN, port : Port \cup {None}, again : BOOLEAN]

ClientTypeOK ==
    /\ server \in Known \cup {None} /\ starts \in 0 .. MaxStarts /\ stranger \in Port \cup {None}
    /\ plan \in [Terminal -> Plan] /\ seen \in [Terminal -> Known \cup {None}]
    /\ noticed \in [Terminal -> BOOLEAN] /\ told \in [Terminal -> Outcomes \cup {None}]
    /\ \A c \in Terminal : \A i \in DOMAIN did[c] : did[c][i] \in Site
    /\ began \subseteq Terminal /\ \A c \in Terminal : stopped[c] \subseteq Known

Init ==
    /\ server = None /\ starts = 0 /\ stranger = None
    /\ plan \in [Terminal -> [command : Commands, at : {"check"}, start : BOOLEAN, port : Port \cup {None}, again : {FALSE}]]
    \* Only commands that need a server can be told not to start one.
    /\ \A c \in Terminal : plan[c].command \in {"read", "config", "stop"} => ~plan[c].start
    /\ \A c \in Terminal : plan[c].command \in {"start", "restart"} => plan[c].start
    /\ seen = [c \in Terminal |-> None] /\ noticed = [c \in Terminal |-> FALSE]
    /\ told = [c \in Terminal |-> None] /\ did = [c \in Terminal |-> << >>]
    /\ began = {} /\ stopped = [c \in Terminal |-> {}]

-----------------------------------------------------------------------------
(* What happens beside *)

worldVars == <<server, starts, stranger>>
ownVars == <<plan, seen, noticed, told, did, began, stopped>>

Runs(home, port, version, state) ==
    [home |-> home, port |-> port, version |-> version, secret |-> starts + 1, state |-> state]

\* It has the lock before it answers.
ServerStarts ==
    /\ server = None /\ starts < MaxStarts /\ starts' = starts + 1
    /\ \E h \in {"own", "other"}, p \in Port \ {stranger}, v \in {"same", "different"} : server' = Runs(h, p, v, "starting")
    /\ UNCHANGED <<stranger, ownVars>>

\* It answers, for the first time or again.
ServerPublishes ==
    /\ server # None /\ server.state # "answers" /\ (Takeover \/ \A c \in Terminal : plan[c].at # "stop")
    /\ server' = [server EXCEPT !.state = "answers"]
    /\ UNCHANGED <<starts, stranger, ownVars>>

\* It does not answer in time any more.
ServerHangs ==
    /\ server # None /\ server.state = "answers" /\ server' = [server EXCEPT !.state = "hangs"]
    /\ UNCHANGED <<starts, stranger, ownVars>>

\* It is stopped by others, or dies.
ServerEnds == server # None /\ server' = None /\ UNCHANGED <<starts, stranger, ownVars>>

StrangerMoves ==
    /\ \E p \in Port \cup {None} : (server # None => server.port # p) /\ stranger' = p
    /\ UNCHANGED <<server, starts, ownVars>>

-----------------------------------------------------------------------------
(* One command *)

Goes(c, step) == plan' = [plan EXCEPT ![c].at = step]
Tell(c, outcome) == Goes(c, "end") /\ told' = [told EXCEPT ![c] = outcome]

\* What cannot work is refused before a server is started for it.
Validates(c) == plan[c].command = "create" /\ Tell(c, "invalid")

\* A removal asks in a terminal; elsewhere it wants to be told.
ConfirmRemove(c) == plan[c].command = "remove" /\ (Tell(c, "kept") \/ Tell(c, "unconfirmed"))

Begin(c) ==
    /\ plan[c].at = "check"
    /\ \/ Validates(c) \/ ConfirmRemove(c)
       \/ Goes(c, IF plan[c].command = "start" THEN "start" ELSE "look") /\ UNCHANGED told
    /\ UNCHANGED <<worldVars, seen, noticed, did, began, stopped>>

\* A mutant of Matches: the home in the record is not compared.
MatchesAnyHome(c, s) == plan[c].port = None \/ plan[c].port = s.port

\* An instance for this home, on the port that was asked for.  A setting and a
\* restart may be about another port.
Matches(c, s) ==
    /\ s.home = "own"
    /\ plan[c].port \in {None, s.port} \/ plan[c].command = "config"

\* Restart looks as if no port was asked for; the start after it compares.
MatchesStop(c, s) == Matches(c, s) \/ (plan[c].command = "restart" /\ s.home = "own")

\* A server that answers under the recorded secret runs, and only that.
Running == server # None /\ server.state = "answers"
Recorded == server # None /\ server.state # "starting"
Notices(c) == noticed' = [noticed EXCEPT ![c] = @ \/ server.version = "different"]

Inspect(c) ==
    /\ plan[c].at = "look"
    /\ IF ~Running
       THEN Goes(c, IF plan[c].command \in {"stop", "restart"} THEN "stop" ELSE "none") /\ UNCHANGED <<seen, noticed, told>>
       ELSE IF MatchesStop(c, server)
       THEN /\ seen' = [seen EXCEPT ![c] = server] /\ Notices(c) /\ UNCHANGED told
            /\ Goes(c, IF plan[c].command \in {"stop", "restart"} THEN "stop" ELSE "ask")
       ELSE Tell(c, "mismatch") /\ UNCHANGED <<seen, noticed>>
    /\ UNCHANGED <<worldVars, did, began, stopped>>

\* A mutant of Connect: what only reads starts a server too.
ConnectAlways(c) ==
    /\ plan[c].at = "none" /\ plan[c].command # "config" /\ Goes(c, "start")
    /\ UNCHANGED <<worldVars, seen, noticed, told, did, began, stopped>>

\* Without a server a command starts it, unless it may not.
Connect(c) ==
    /\ plan[c].at = "none" /\ plan[c].command \in Writes \ {"config"}
    /\ IF plan[c].start THEN Goes(c, "start") /\ UNCHANGED told ELSE Tell(c, "not_running")
    /\ UNCHANGED <<worldVars, seen, noticed, did, began, stopped>>

\* What only reads takes the files instead, which may be broken.
ReadFiles(c) ==
    /\ plan[c].at = "none" /\ plan[c].command = "read"
    /\ Tell(c, "files") \/ Tell(c, "failed")
    /\ UNCHANGED <<worldVars, seen, noticed, did, began, stopped>>

\* A setting is written without a server, in its place.
Lock(c) ==
    /\ plan[c].at = "none" /\ plan[c].command = "config" /\ Goes(c, "lock")
    /\ UNCHANGED <<worldVars, seen, noticed, told, did, began, stopped>>

InFiles(where) == [where |-> where, port |-> DefaultPort, version |-> "same"]

\* A mutant of WithHomeLock: the lock is not waited for.
WithoutHomeLock(c) ==
    /\ plan[c].at = "lock" /\ Tell(c, "done")
    /\ did' = [did EXCEPT ![c] = Append(@, InFiles(IF server = None THEN "files" ELSE "beside"))]
    /\ UNCHANGED <<worldVars, seen, noticed, began, stopped>>

\* Under the locks no server runs or starts.  One that came before is asked,
\* once: it may not answer yet.
WithHomeLock(c) ==
    /\ plan[c].at = "lock"
    /\ \/ /\ server = None /\ did' = [did EXCEPT ![c] = Append(@, InFiles("files"))] /\ Tell(c, "done")
       \/ Tell(c, "failed") /\ UNCHANGED did
       \/ /\ server # None /\ ~plan[c].again
          /\ plan' = [plan EXCEPT ![c].at = "look", ![c].again = TRUE] /\ UNCHANGED <<told, did>>
    /\ UNCHANGED <<worldVars, seen, noticed, began, stopped>>

-----------------------------------------------------------------------------
(* Start, stop *)

StartPort(c) == IF plan[c].port = None THEN DefaultPort ELSE plan[c].port

\* A server of this program's version, on a port that is free.
Spawns(c) ==
    /\ server = None /\ stranger # StartPort(c) /\ starts < MaxStarts
    /\ starts' = starts + 1 /\ server' = Runs("own", StartPort(c), "same", "answers")
    /\ began' = began \cup {c} /\ seen' = [seen EXCEPT ![c] = server'] /\ Goes(c, "ask")
    /\ UNCHANGED <<noticed, told>>

\* A mutant of AlreadyRunning: it says nothing of the version.
AlreadyRunningQuiet(c) ==
    /\ Running /\ Matches(c, server)
    /\ seen' = [seen EXCEPT ![c] = server] /\ Goes(c, "ask") /\ UNCHANGED <<server, starts, noticed, told, began>>

\* Another start was faster: its server is taken.
AlreadyRunning(c) ==
    /\ Running /\ Matches(c, server)
    /\ seen' = [seen EXCEPT ![c] = server] /\ Notices(c)
    /\ Goes(c, "ask") /\ UNCHANGED <<server, starts, told, began>>

StartFails(c) ==
    /\ \/ Running /\ ~Matches(c, server) /\ Tell(c, "mismatch")
       \/ ~Running /\ stranger = StartPort(c) /\ Tell(c, "port_in_use")
       \/ Recorded /\ ~Running /\ server.port = StartPort(c) /\ Tell(c, "port_in_use")
       \/ ~Running /\ Tell(c, "start_failed")
    /\ UNCHANGED <<server, starts, seen, noticed, began>>

Start(c) ==
    /\ plan[c].at = "start" /\ (Spawns(c) \/ AlreadyRunning(c) \/ StartFails(c))
    /\ UNCHANGED <<stranger, did, stopped>>

\* Whoever runs now is stopped; the process of one that does not answer is
\* ended.  Where the record cannot be cleared the process is not confirmed: a
\* restart takes it for gone.
Stop(c) ==
    /\ plan[c].at = "stop"
    /\ \/ /\ Recorded /\ stopped' = [stopped EXCEPT ![c] = @ \cup {server}] /\ server' = None
          /\ IF plan[c].command = "restart" THEN Goes(c, "start") /\ UNCHANGED told ELSE Tell(c, "done")
       \/ /\ ~Recorded /\ UNCHANGED <<server, stopped>>
          /\ IF plan[c].command = "restart" THEN Goes(c, "start") /\ UNCHANGED told
             ELSE Tell(c, "done") \/ Tell(c, "unconfirmed")
       \/ Recorded /\ Tell(c, "failed") /\ UNCHANGED <<server, stopped>>
    /\ UNCHANGED <<starts, stranger, seen, noticed, did, began>>

-----------------------------------------------------------------------------
(* The request *)

\* A mutant of Reaches: whoever has the port answers.
ReachesAnyone(s) == Recorded /\ server.port = s.port

\* The server that was found, and no other on its port, knows the secret.
Reaches(s) == Recorded /\ server.port = s.port /\ server.secret = s.secret
Answers(s) == Running /\ Reaches(s)

Applies(c) ==
    did' = [did EXCEPT ![c] =
        IF plan[c].command \in Writes
        THEN Append(@, [where |-> server.home, port |-> server.port, version |-> server.version])
        ELSE @]

\* A mutant of Lost: the request is sent again.
LostAgain(c) == Applies(c) /\ UNCHANGED <<plan, told>>

\* The answer is lost, comes too late or is cut.
Lost(c) == Applies(c) /\ (Tell(c, "not_running") \/ Tell(c, "cut"))

\* Another version may not know the endpoint.
VersionMismatch(c) == Answers(seen[c]) /\ seen[c].version = "different" /\ Tell(c, "version_mismatch")

\* The server may refuse, and a stranger or a newer server on the port does.
Do(c) ==
    /\ plan[c].at = "ask"
    /\ \/ Answers(seen[c]) /\ Applies(c) /\ Tell(c, "done")
       \/ Reaches(seen[c]) /\ Lost(c)
       \/ Answers(seen[c]) /\ Tell(c, "refused") /\ UNCHANGED did
       \/ VersionMismatch(c) /\ UNCHANGED did
       \/ /\ ~Answers(seen[c]) /\ UNCHANGED did
          /\ Tell(c, IF stranger = seen[c].port \/ (Running /\ server.port = seen[c].port) THEN "refused" ELSE "not_running")
    /\ UNCHANGED <<worldVars, seen, noticed, began, stopped>>

Next ==
    \/ ServerStarts \/ ServerPublishes \/ ServerHangs \/ ServerEnds \/ StrangerMoves
    \/ \E c \in Terminal :
          \/ Begin(c) \/ Inspect(c) \/ Connect(c) \/ ReadFiles(c) \/ Lock(c) \/ WithHomeLock(c)
          \/ Start(c) \/ Stop(c) \/ Do(c)

Spec == Init /\ [][Next]_clientVars

-----------------------------------------------------------------------------
\* Whatever starts and ends meanwhile: a change that was told as done was done
\* once, by this home's server, on the port that was asked for, or in the
\* files with no server beside; one that was refused was not done, and no
\* change is done twice; only commands that may start a server do; no server
\* of another home that answers is stopped; and whoever was answered by another
\* version was told of it (client.go:1-14, 92-112, 388-420, 432-458).
ClientKeepsToItsServer ==
    \A c \in Terminal :
        LET p == plan[c] IN
        /\ Len(did[c]) <= 1
        /\ (told[c] = "done" /\ p.command \in Writes) => did[c] # << >>
        /\ told[c] \notin {None, "done", "not_running", "cut"} => did[c] = << >>
        /\ \A i \in DOMAIN did[c] :
              \/ did[c][i].where = "files" /\ p.command = "config"
              \/ /\ did[c][i].where = "own"
                 /\ p.port \in {None, did[c][i].port} \/ p.command = "config"
                 /\ did[c][i].version = "different" => noticed[c]
        /\ c \in began => p.start /\ told[c] # "invalid"
        /\ \A s \in stopped[c] :
              \/ s.state = "hangs"
              \/ s.home = "own" /\ (p.port \in {None, s.port} \/ p.command = "restart")
===============================================================================

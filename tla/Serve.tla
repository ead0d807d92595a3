-------------------------------- MODULE Serve --------------------------------
(* `ovdb serve` (serve.go, main.go): the command mounts databases, serves    *)
(* requests until a signal or the listener stops it, drains the handlers and *)
(* closes what it opened.  serveRequests is one mutex: every step that holds *)
(* it is one action.  A handler may ignore that its request was cancelled.   *)
EXTENDS Naturals

CONSTANTS
    Database,  \* the databases of the manifests
    Request    \* requests, each served by a goroutine of its own

VARIABLES
    main,      \* where the command is
    database,  \* each database: unmounted, open, closed
    call,   \* each request; those in the map "active" are handled or leaving
    served,    \* was the listener started?
    guarded,   \* are signals kept from ending the process? (lifetimeSignals)
    stopping,  \* serveRequests.stopping
    pending,   \* is a cleanup left to the last handler?
    releaser,  \* who runs the cleanup
    cleaned,   \* is the channel "cleaned" closed?
    cleanups,  \* how often a cleanup was begun (history)
    answer     \* what drain returned

vars == <<main, database, call, served, guarded, stopping, pending, releaser, cleaned, cleanups, answer>>

Ended == {"exited", "killed"}
Places == {"mounting", "starting", "running", "closing", "draining", "settling", "cleaning", "releasing", "waiting"}
          \cup Ended

ServeTypeOK ==
    /\ main \in Places
    /\ database \in [Database -> {"unmounted", "open", "closed"}]
    /\ call \in [Request -> {"new", "handled", "leaving", "gone", "refused"}]
    /\ served \in BOOLEAN /\ guarded \in BOOLEAN /\ stopping \in BOOLEAN
    /\ pending \in BOOLEAN /\ cleaned \in BOOLEAN
    /\ releaser \in {"nobody", "main", "handler"}
    /\ cleanups \in Nat
    /\ answer \in {"none", "settled", "active"}

Active == {r \in Request : call[r] \in {"handled", "leaving"}}
Alive == main \notin Ended

Init ==
    /\ main = "mounting" /\ answer = "none"
    /\ database = [d \in Database |-> "unmounted"]
    /\ call = [r \in Request |-> "new"]
    /\ served = FALSE /\ guarded = FALSE /\ stopping = FALSE
    /\ pending = FALSE /\ cleaned = FALSE /\ cleanups = 0
    /\ releaser = "nobody"

-----------------------------------------------------------------------------
(* The command *)

Mount(d) ==
    /\ main = "mounting" /\ database[d] = "unmounted"
    /\ database' = [database EXCEPT ![d] = "open"]
    /\ UNCHANGED <<main, call, served, guarded, stopping, pending, releaser, cleaned, cleanups, answer>>

\* A manifest that cannot be mounted, a second database of one id (closed at
\* once) or an option that is refused: the deferred cleanup runs.
MountFails ==
    /\ main = "mounting" /\ main' = "cleaning"
    /\ UNCHANGED <<database, call, served, guarded, stopping, pending, releaser, cleaned, cleanups, answer>>

\* A mutant of Guard: only serveUntilSignal listens to signals.
GuardNever ==
    /\ main = "mounting" /\ main' = "starting"
    /\ UNCHANGED <<database, call, served, guarded, stopping, pending, releaser, cleaned, cleanups, answer>>

\* lifetimeSignals is set before the listener starts.
Guard ==
    /\ main = "mounting" /\ main' = "starting"
    /\ guarded' = TRUE
    /\ UNCHANGED <<database, call, served, stopping, pending, releaser, cleaned, cleanups, answer>>

\* serveUntilSignal asks for signals of its own; serveUntil starts the listener.
Listen ==
    /\ main = "starting" /\ main' = "running"
    /\ served' = TRUE
    /\ UNCHANGED <<database, call, guarded, stopping, pending, releaser, cleaned, cleanups, answer>>

\* A signal: it stops a command that serves, it is kept from one that starts
\* the listener or cleans up, and it ends the process otherwise.
Interrupt ==
    /\ Alive
    /\ main' = CASE main = "running" -> "closing"
                 [] guarded \/ main = "closing" -> main
                 [] OTHER -> "killed"
    /\ UNCHANGED <<database, call, served, guarded, stopping, pending, releaser, cleaned, cleanups, answer>>

ListenerFails ==
    /\ main = "running" /\ main' = "draining"
    /\ UNCHANGED <<database, call, served, guarded, stopping, pending, releaser, cleaned, cleanups, answer>>

\* Shutdown: the handlers end within 5 seconds or their connections are
\* closed; either way they may still run.
Shutdown ==
    /\ main = "closing" /\ main' = "draining"
    /\ UNCHANGED <<database, call, served, guarded, stopping, pending, releaser, cleaned, cleanups, answer>>

\* drain: no request is admitted any more, those under way are cancelled.
Drain ==
    /\ main = "draining" /\ main' = "settling"
    /\ stopping' = TRUE
    /\ UNCHANGED <<database, call, served, guarded, pending, releaser, cleaned, cleanups, answer>>

\* idle was closed, or the drain deadline passed.
Settle ==
    /\ main = "settling" /\ main' = "cleaning"
    /\ \/ Active = {} /\ answer' = "settled"
       \/ answer' = "active"
    /\ UNCHANGED <<database, call, served, guarded, stopping, pending, releaser, cleaned, cleanups>>

\* A mutant of Cleanup: after the deadline it does not wait.
CleanupNow ==
    /\ main = "cleaning" /\ stopping' = TRUE
    /\ releaser' = "main" /\ cleanups' = cleanups + 1 /\ main' = "releasing"
    /\ UNCHANGED <<database, call, served, guarded, pending, cleaned, answer>>

\* cleanup: while handlers run it is left to the last of them.
Cleanup ==
    /\ main = "cleaning" /\ stopping' = TRUE
    /\ IF Active # {}
       THEN pending' = TRUE /\ main' = "waiting" /\ UNCHANGED <<releaser, cleanups>>
       ELSE releaser' = "main" /\ cleanups' = cleanups + 1 /\ main' = "releasing" /\ UNCHANGED pending
    /\ UNCHANGED <<database, call, served, guarded, cleaned, answer>>

\* A mutant of Exit: the process ends with the command.
ExitNow ==
    /\ main = "waiting" /\ main' = "exited"
    /\ UNCHANGED <<database, call, served, guarded, stopping, pending, releaser, cleaned, cleanups, answer>>

\* executeRoot: an error that owns a cleanup holds the process until it is done.
Exit ==
    /\ main = "waiting" /\ main' = "exited"
    /\ answer = "active" => cleaned
    /\ UNCHANGED <<database, call, served, guarded, stopping, pending, releaser, cleaned, cleanups, answer>>

-----------------------------------------------------------------------------
(* The handlers *)

\* wrap: the request is refused, or it is one of the active.
Admit(r) ==
    /\ Alive /\ served /\ call[r] = "new"
    /\ call' = [call EXCEPT ![r] = IF stopping THEN "refused" ELSE "handled"]
    /\ UNCHANGED <<main, database, served, guarded, stopping, pending, releaser, cleaned, cleanups, answer>>

\* The handler returns, or panics.
Return(r) ==
    /\ Alive /\ call[r] = "handled"
    /\ call' = [call EXCEPT ![r] = "leaving"]
    /\ UNCHANGED <<main, database, served, guarded, stopping, pending, releaser, cleaned, cleanups, answer>>

\* A mutant of Leave: the cleanup stays on the list of those pending.
LeavePending(r) ==
    /\ Alive /\ call[r] = "leaving"
    /\ call' = [call EXCEPT ![r] = "gone"]
    /\ IF pending THEN releaser' = "handler" /\ cleanups' = cleanups + 1 ELSE UNCHANGED <<releaser, cleanups>>
    /\ UNCHANGED <<main, database, served, guarded, stopping, pending, cleaned, answer>>

\* The deferred function: the last active request takes the cleanup.
Leave(r) ==
    /\ Alive /\ call[r] = "leaving"
    /\ call' = [call EXCEPT ![r] = "gone"]
    /\ IF Active = {r} /\ pending
       THEN pending' = FALSE /\ releaser' = "handler" /\ cleanups' = cleanups + 1
       ELSE UNCHANGED <<pending, releaser, cleanups>>
    /\ UNCHANGED <<main, database, served, guarded, stopping, cleaned, answer>>

-----------------------------------------------------------------------------
(* The cleanup *)

\* CloseSnapshots and Close, one database after the other.
Release(d) ==
    /\ Alive /\ releaser # "nobody" /\ database[d] = "open"
    /\ database' = [database EXCEPT ![d] = "closed"]
    /\ UNCHANGED <<main, call, served, guarded, stopping, pending, releaser, cleaned, cleanups, answer>>

\* The guard against signals ends, and the channel is closed.
Released ==
    /\ Alive /\ releaser # "nobody" /\ \A d \in Database : database[d] # "open"
    /\ releaser' = "nobody" /\ cleaned' = TRUE /\ guarded' = FALSE
    /\ main' = IF releaser = "main" THEN "waiting" ELSE main
    /\ UNCHANGED <<database, call, served, stopping, pending, cleanups, answer>>

Next ==
    \/ \E d \in Database : Mount(d) \/ Release(d)
    \/ \E r \in Request : Admit(r) \/ Return(r) \/ Leave(r)
    \/ MountFails \/ Guard \/ Listen \/ Interrupt \/ ListenerFails \/ Shutdown \/ Drain \/ Settle
    \/ Cleanup \/ Exit \/ Released

Spec == Init /\ [][Next]_vars

-----------------------------------------------------------------------------
(* Properties *)

\* No database is closed while a request is handled, and none is closed by a
\* process that a signal ends under a request (serve.go:350-353, 241-245).
NotClosedUnderRequest ==
    Active # {} => main # "killed" /\ \A d \in Database : database[d] # "closed"

\* The cleanup runs at most once: a second one would close a closed channel
\* (serve.go:420-426).
CleanedOnce == cleanups <= 1

\* drain reports success only when no handler runs any more, and the process
\* leaves no database open behind it (serve.go:350-353, main.go:76-83).
LeavesNothing ==
    /\ answer = "settled" => Active = {}
    /\ main = "exited" => cleaned /\ Active = {} /\ \A d \in Database : database[d] # "open"

ServeIsSafe == NotClosedUnderRequest /\ CleanedOnce /\ LeavesNothing

-----------------------------------------------------------------------------
(* Why they hold *)

\* The cleanup is begun once, and by then nobody uses the databases.
Begun == releaser # "nobody" \/ cleaned

ServeInv ==
    /\ ServeTypeOK
    /\ Begun => Active = {} /\ stopping /\ ~pending /\ main \notin {"mounting", "starting", "running", "closing", "draining", "settling", "cleaning"}
    /\ pending => Active # {} /\ stopping /\ main = "waiting" /\ answer = "active" /\ cleanups = 0
    /\ cleanups = IF Begun THEN 1 ELSE 0
    /\ releaser # "nobody" => ~cleaned /\ (main \in {"releasing", "killed"} \/ releaser # "main")
    /\ cleaned => \A d \in Database : database[d] # "open"
    /\ (\E d \in Database : database[d] = "closed") => Begun
    /\ Active # {} => served /\ guarded /\ main \notin {"mounting", "starting", "killed", "releasing"}
    /\ served /\ ~Begun => guarded
    /\ ~served => main \in {"mounting", "starting", "cleaning", "releasing", "waiting"} \cup Ended
    /\ main \in {"mounting", "starting"} => ~served
    /\ main = "starting" => guarded
    /\ main = "cleaning" => answer = "active" \/ Active = {}
    /\ main = "cleaning" /\ served => stopping
    /\ main = "settling" => stopping
    /\ main = "releasing" => releaser = "main"
    /\ answer = "settled" => Active = {} /\ stopping
    /\ main \in {"waiting", "exited"} => pending \/ Begun
    /\ main = "waiting" /\ answer # "active" => cleaned
    /\ main = "exited" => cleaned
=============================================================================

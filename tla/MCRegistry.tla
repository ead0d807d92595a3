----------------------------- MODULE MCRegistry -----------------------------
(* Small instances of Registry for TLC.  An instance is chosen in the      *)
(* initial state and never left, so that one run covers them all: every    *)
(* kind of request over one database, or fewer kinds over two.  Three of   *)
(* them bring along what is proved of Registry (MCRegistryProofs).         *)
EXTENDS Registry, TLC

CONSTANTS
    OneCaller,   \* the caller of instances with a single one
    TwoStorages

VARIABLE instance

AllRequests == {"create", "connect", "remove", "reload", "reloadAll"}
Symmetry == Permutations(Caller) \cup Permutations(TwoStorages)

\* Requests that come before the boot has mounted everything.
Early == INSTANCE RegistryProofs WITH MaxRequests <- 2, EarlyRequests <- TRUE

\* Creates, connects and removes that overlap.
Once == INSTANCE RegistryProofs WITH Name <- {1, 2}, Storage <- TwoStorages,
    Requests <- {"create", "connect", "remove"}, Edits <- {}, MaxRequests <- 2, MaxEdits <- 0,
    EarlyRequests <- TRUE, Cancels <- FALSE, SlowHandlers <- FALSE

\* One request after another, and manifests added and deleted by hand.
Serial == INSTANCE Registry WITH Name <- {1, 2}, Storage <- TwoStorages, Caller <- OneCaller,
    Requests <- AllRequests, Edits <- {"add", "delete"}, MaxRequests <- 3, MaxEdits <- 1,
    EarlyRequests <- FALSE, Cancels <- FALSE, SlowHandlers <- FALSE

\* Reloads and removes that outlive the shutdown.
Closing == INSTANCE RegistryProofs WITH Name <- {1, 2}, Storage <- TwoStorages, Caller <- OneCaller,
    Requests <- {"remove", "reload", "reloadAll"}, Edits <- {}, MaxRequests <- 2, MaxEdits <- 0,
    EarlyRequests <- FALSE, Cancels <- TRUE, SlowHandlers <- TRUE

\* Databases renamed in their manifests, so that ids repeat.
Names == INSTANCE Registry WITH Name <- {1, 2}, Storage <- TwoStorages, Caller <- OneCaller,
    Requests <- {"remove", "reload"}, Edits <- {"add", "rename"}, MaxRequests <- 2, MaxEdits <- 1,
    EarlyRequests <- FALSE, Cancels <- TRUE, SlowHandlers <- FALSE

\* One caller, and nothing that is None.
ASSUME InstancesAssumption ==
    /\ IsFiniteSet(OneCaller) /\ Boot \notin OneCaller /\ \A c, d \in OneCaller : c = d
    /\ None \notin {1, 2} \cup OneCaller \cup TwoStorages
    /\ None \notin Once!Manifest \cup Once!MountRecord \cup Once!Task

AllInit ==
    \/ instance = "all" /\ Init
    \/ instance = "early" /\ Early!Init
    \/ instance = "once" /\ Once!Init
    \/ instance = "serial" /\ Serial!Init
    \/ instance = "closing" /\ Closing!Init
    \/ instance = "names" /\ Names!Init

AllNext ==
    /\ \/ instance = "all" /\ Next
       \/ instance = "early" /\ Early!Next
       \/ instance = "once" /\ Once!Next
       \/ instance = "serial" /\ Serial!Next
       \/ instance = "closing" /\ Closing!Next
       \/ instance = "names" /\ Names!Next
    /\ UNCHANGED instance

AllSpec == AllInit /\ [][AllNext]_<<vars, instance>>

\* What is listed as mounted is served: MountedIsServed, with every request
\* and no renames (databases.go:36-43).
AllMountedIsServed ==
    /\ instance = "all" => MountedIsServed
    /\ instance = "early" => Early!MountedIsServed

\* An id and a storage are registered once: RegisteredOnce, without edits by
\* hand (connect.go:186-188).
OnceRegisteredOnce == instance = "once" => Once!RegisteredOnce

\* What is served stays listed: ServedIsRecorded, one request at a time
\* (databases.go:36-38).
SerialServedIsRecorded == instance = "serial" => Serial!ServedIsRecorded

\* What was removed is not served: RemovedIsNotServed, one request at a time
\* (databases.go:940-945).
SerialRemovedIsNotServed == [][instance = "serial" => Serial!RemoveUnserves]_vars

\* A closed registry serves nothing: ClosedServesNothing, without creates
\* (databases.go:365-379).
ClosingServesNothing == instance = "closing" => Closing!ClosedServesNothing
=============================================================================

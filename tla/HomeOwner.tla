------------------------------ MODULE HomeOwner ------------------------------
(***************************************************************************)
(* What the runtime directory promises the rest of OVDB: a home has at     *)
(* most one owner at a time, only the owner writes the home and only while *)
(* it owns it, only the owner is announced as the home's server, and a     *)
(* command believes only in a server that it met as the announced owner.   *)
(***************************************************************************)
CONSTANTS
    Client,     \* commands
    Server,     \* server processes
    None        \* nobody

VARIABLES
    owner,      \* the process that owns the home
    announced,  \* the owner, once it has told clients where it is
    writers,    \* whoever is in the middle of a write to the home
    believes    \* the server each command thinks is running

vars == <<owner, announced, writers, believes>>

Init ==
    /\ owner = None
    /\ announced = None
    /\ writers = {}
    /\ believes = [c \in Client |-> None]

\* A command may end, and forget what it knew, in the same step.
Forgets(commands) ==
    believes' = [c \in Client |-> IF c \in commands THEN None ELSE believes[c]]

Take(h) ==
    /\ owner = None
    /\ owner' = h
    /\ UNCHANGED <<announced, writers>>

Announce ==
    /\ owner \in Server
    /\ announced = None
    /\ announced' = owner
    /\ UNCHANGED <<owner, writers>>

Withdraw ==
    /\ announced' = None
    /\ UNCHANGED <<owner, writers>>

BeginWrite ==
    /\ owner # None
    /\ writers' = {owner}
    /\ UNCHANGED <<owner, announced>>

EndWrite ==
    /\ writers' = {}
    /\ UNCHANGED <<owner, announced>>

\* The owner leaves or dies, and no write of its own survives it.
Leave ==
    /\ owner # None
    /\ owner' = None
    /\ announced' = None
    /\ writers' = {}

\* A command for which the home is to be written owns it as it writes.
TakeAndWrite(c) ==
    /\ owner = None
    /\ owner' = c
    /\ writers' = {c}
    /\ UNCHANGED announced

Learn(c) ==
    /\ announced # None
    /\ believes' = [believes EXCEPT ![c] = announced]
    /\ UNCHANGED <<owner, announced, writers>>

Forget == UNCHANGED <<owner, announced, writers>>

Next ==
    \/ \E c \in Client : Learn(c)
    \/ /\ \E commands \in SUBSET Client : Forgets(commands)
       /\ \/ \E h \in Client \cup Server : Take(h)
          \/ \E c \in Client : TakeAndWrite(c)
          \/ Announce
          \/ Withdraw
          \/ BeginWrite
          \/ EndWrite
          \/ Leave
          \/ Forget

Spec == Init /\ [][Next]_vars
=============================================================================
